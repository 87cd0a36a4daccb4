# A TLA+ verification of the HomeSIEM backend

HomeSIEM is a FastAPI server over PostgreSQL (async SQLAlchemy) with an agent
(`agent.py`) that runs in the customer's network.  This directory holds TLA+
modules translated from the source, TLC configurations that check them on small
instances, and TLAPS proofs.  All paths below are relative to the repository.

## 1. How the program runs

* One process, one asyncio loop.  Code between two `await`s is atomic with
  respect to every other handler; anything may run at an `await`.
* Every request has an `AsyncSession` of its own (`app/db/session.py`):
  `autoflush=False`, `expire_on_commit=False`, rolled back on an exception.
  PostgreSQL runs at READ COMMITTED and no query locks a row (`FOR UPDATE`
  appears nowhere), so a handler that reads, awaits and writes may write over
  what another has committed since.
* At commit SQLAlchemy writes only the attributes that differ from the value it
  loaded.  A row the session already holds is not reloaded by a later query
  (identity map), only by `refresh`.  An UPDATE that matches no row raises
  `StaleDataError` and the transaction is lost; a violated unique constraint
  raises `IntegrityError`.
* Two background tasks share the loop (`app/main.py`): `run_scheduler` every 60 s
  and `run_nextdns_poller` every 30 s.  In-memory state (rate limiter, MFA
  challenges, caches) is lost on a restart.
* The agent is a sequential polling loop over HTTP; a request or its response
  may be lost, and it posts a result once.

## 2. Inventory

For each component: its state; its operations; with whom it interacts; what is
hard; what makes it correct.

| Component | State | Operations | Interacts with | Hard | Correct when |
|---|---|---|---|---|---|
| Billing (`crud/subscription.py`, `core/plans.py`, `crud/admin.py:144-166`) | `subscriptions` (plan, status, trial_ends_at), `payments` (status), copies of the plan in `organizations.plan`, `users.plan` | read/ensure (creates, expires the trial), checkout, cancel, confirm, admin set_plan and unlock | gateway, org wipe, join, auth | interleaved read/write on one row; stale identity map; two-commit handlers; unique insert; copies written later than read | a pending subscription can be settled; the plan moves only when paid, granted or lapsed; a trial is given once and nothing else expires; who writes a plan brings its copies along |
| Payment gateway (`core/payments.py`) | none | charge | billing | answer arrives inside the transaction | the answer decides the status, never the plan of an unpaid order |
| Identity and roles (`crud/user.py`, `endpoints/users.py`, `api/deps.py`) | `users`, `organizations` | provision, relink, join, change role, admin role | invitations, billing | check-then-write on the number of owners; two commits in a join | an organization always has an owner; one user per firebase uid |
| Invitations (`crud/invitation.py`) | `invitations` | invite, accept, revoke, list | identity, plan's seats | seats counted then written; accept against revoke; expiry never stored | no more members than seats; a revoked invitation admits nobody |
| One-time codes (`crud/password_reset.py`, `crud/agent_otp.py`), MFA (`core/mfa.py`) | code rows, in-memory challenges | request, verify, consume | e-mail, sensors' tokens | lost update of `attempts`; two verifications of one code; consume before the password is set | at most five attempts; a code is used once; one active code |
| Rate limiter (`core/ratelimit.py`) | deque of times per key | hit, prune | auth, invitations | boundary of the window; pruning | never more than the limit in any window |
| Agent jobs (`agent.py`, `endpoints/agent.py`, `crud/agent.py`, `crud/collection.py`) | `agent_jobs`, `agents`, `collection_streams`, the agent's `agent_config.json` | enroll, poll, submit result, start/stop stream, delete agent | dashboard, scheduler, agent process | lost responses, crash between poll and result, overlapping polls, no retry of `running` | a job runs at most once; a stream keeps collecting until stopped; a machine polls as its own agent |
| Scheduler (`core/scheduler.py`, `crud/report_schedule.py`, `crud/inventory.py`) | schedules' `next_run_at` | tick reports, tick discovery | e-mail, agent jobs | send before mark; exception path marks too; rollback expires the others | no report is sent twice in its period |
| NextDNS poller (`core/nextdns_poller.py`, `crud/nextdns.py`) | cursor `last_event_at` | tick, provision, delete | NextDNS API, ingest, wipe | ingest and cursor in two commits; page limit; one failure ends the tick | every log entry ingested, once |
| Ingest, detection, alerts (`core/ingest.py`, `crud/alerts.py`, `crud/detection.py`, `crud/monitoring.py`) | events, devices, alerts | ingest batch, evaluate rules, set status, snooze | poller, agents, incidents | dedupe by read then insert; unique device per batch | one open alert per fingerprint; its count is that of the events; a batch is not refused for what others registered |
| Incidents and actions (`crud/incident.py`, `crud/actions.py`) | incidents (JSON lists), actions | create, link, status, approve | alerts | JSON list read, changed and written whole | both halves of a link agree |
| UEBA (`core/ueba_engine.py`, `crud/ueva.py`) | baselines, scores, anomalies | build, analyze | events | caps; two runs of one owner | scores stay in 0..100; the trend is that of the scores |
| Search (`core/querylang.py`, `crud/monitoring.py: siem_search`) | events, devices | search | ingest, devices | SQL's unknown under negation; one text, three queries | what a text asks for is what is found |
| Capture (`endpoints/capture.py`, `core/pcap.py`, `core/pcap_parser.py`, `core/threatintel.py`) | a file, verdicts | upload, read, ask OTX | tshark, OTX | two readers that must agree; compressed names; limits | the answer is what the capture holds |
| Outside services, dashboards, statistics, notifications, shell | caches, rows | reads, single writes | everything | none that state relates, but Firebase's certificates (`SignIn`) | mostly not modelled, see section 8 |

Behaviours that are hard to test, each at its line, are the `hazards` of
`PROJECT.json`; the properties aim at them.

## 3. Modules

| Module | What it is |
|---|---|
| `Billing` | the subscription, its payments and the copies of the plan, under concurrent requests |
| `Entitlement` | the abstract promise of billing: what may change the plan |
| `MCBilling` | the constants of the runs of `Billing` |
| `BillingProofs` | type correctness, every safety property of `Billing` and the refinement of `Entitlement`, proved |
| `AgentJobs` | jobs between dashboard, server and agent, over requests that overlap and get lost |
| `WorkQueue` | the abstract promise of the queue: run after being taken, at most once |
| `MCAgentJobs` | the constants of the runs of `AgentJobs` |
| `AgentJobsProofs` | type correctness, every safety property of `AgentJobs` and the refinement, proved |
| `NextDnsPoller` | the cursor of each organization's DNS log against provisioning, removal, refusals and restarts |
| `MCNextDnsPoller` | the constants of the runs of `NextDnsPoller` |
| `NextDnsProofs` | type correctness, `PassedIsStored` and `PassedIsFinal`, proved |
| `Identity` | accounts, organizations, roles, invitations and seats |
| `Codes` | the mailed codes of password resets and of linking an agent |
| `SignIn` | Firebase's certificates, sessions and the second factor |
| `RateLimit` | the sliding window and its forgetting |
| `Enrolment` | how a machine becomes an agent, and what it keeps on its disk |
| `MCAccounts` | the five above, one at a time, for the run `accounts` |
| `IdentityProofs` | type correctness and the four properties of `Identity`, proved |
| `MfaProofs` | type correctness and the properties of `Codes` and `SignIn`, proved |
| `AccountsProofs` | the same of `Enrolment` and `RateLimit`, and of the five together, proved |
| `Alerts` | batches of events, the rule, and the alerts they raise and count on |
| `Incidents` | the link between alerts and incidents, kept in two rows |
| `Registry` | devices and sources that requests register as they go |
| `Scheduler` | due schedules, delivery and the moving on, with failures and restarts |
| `Ueba` | analyses, anomalies, the risk score and the baseline of one owner |
| `Capture` | an uploaded capture, its two readers and OTX |
| `Search` | the search language and the three queries that answer a text |
| `MCSearch` | `Search` alone, with keys the language does not list, for the run `search_unlisted` |
| `MCSiem` | the seven above, one at a time, for the run `siem` |
| `DetectionProofs` | type correctness and properties of `Ueba`, `Alerts`, `Registry` and `Search`, proved |
| `SiemProofs` | the same of `Incidents`, `Scheduler` and `Capture`, and of the seven together, proved |

`MCAccounts` and `MCSiem` are sums: `part` says which component a behaviour is
of, and the variables of the others stay as they began.  The parts share no
table in what is modelled of them; where two components do meet (a join and the
plan, an alert and its incident, a poller's batch and its cursor) the meeting is
inside one module.

### Billing and the code

One organization.  `sub` is its row in `subscriptions` (`NoSub` when a wipe has
removed it; `id` is the primary key, so that a handler that still holds the old
row is told apart).  `payments[p]` is a row of `payments`; "none" is a row not
inserted, "wiped" one that is gone.  `orgPlan` and `userPlan` are the copies.
`ses[s]` is a request in flight: `op` is the endpoint, `pc` where it stands,
`sub` the subscription as the session loaded it and `new` as it has assigned it,
`paid` the payment's status as loaded, `org` and `usr` the loaded copies
("notread" when the session has not loaded them).  `Flush` is the write of the
changed attributes only.  `granted` is a history variable.

| `pc` | Code | Action |
|---|---|---|
| idle | `get_current_user` loads user and organization | `Begin*` (`Enter`) |
| ensure | `ensure_subscription` SELECT, expiry decision | `EnsureRead` |
| create | INSERT of the new trial, its commit | `EnsureCreate` |
| refresh | `db.refresh(sub)` | `Refresh` |
| sync | `_sync_plan_to_org_and_users` SELECTs | `Sync` |
| commit | the commit of the handler | `ExpireCommit`, `SetPlanCommit`, `ConfirmCommit`, `CancelCommit`, `CommitFails` |
| pending | `latest_pending_payment` | `CheckPending` |
| insert, charge | `start_checkout`: flush of the payment, charge, commit | `InsertPayment`, `ChargeCommit` |
| pay, paysub | `get_payment_by_reference` and the subscription | `ReadPayment`, `ReadPaymentSub` |
| joinread, joincommit | second half of `provision_from_firebase` | `JoinRead`, `JoinCommit` |
| any | an exception, or the process stopping | `Abort` |

`confirm_payment` has no caller in the repository (it is written for a gateway's
webhook); it is modelled as a request about any payment.  `wipe_org_data` is one
transaction and one step; it waits for the key lock that a checkout's INSERT
holds on the subscription.

`Entitlement` says nothing of requests: a plan is held because the trial gives
it, an order for it was settled, or an admin granted it; placing an order
changes nothing.  `Billing` refines it (`ImplementsPromise`).

### AgentJobs and the code

One agent that has been enrolled.  `status` and `kind` are the rows of
`agent_jobs` in the order of their insertion ("gone" when the agent's deletion
has cascaded), `streams` the kinds with a row in `collection_streams`,
`findings` the rows of `vulnerabilities` of the one scanned target, by the job
that found them.  `agent` is the process: where `main()` stands, the request it
waits for (`conn`), the jobs of the answer it has yet to run (`todo`).  `req[r]`
is a request the server works on; the agent may have given up on it.

| `pc` of a request | Code | Action |
|---|---|---|
| get | `get_agent`, `touch_agent` | `PollGet` |
| streams | `enabled_streams_for_agent` | `PollStreams` |
| check, create | `has_active_job`, `create_job` for each stream | `PollCheck`, `PollCreate` |
| check, commit | SELECT of the pending jobs, commit of 'running' | `PollSelect`, `PollCommit` |
| job, delete, finish | `submit_result`: the job, DELETE of old findings, `finish_job` | `PostJob`, `PostDelete`, `PostFinish` |
| respond | the answer on its way | `Respond`, `Lose`, `Garble` |

What the agent does with an answer is `Receive`: an error is an answer without
jobs, since `_get` and `_post` return `None`.  `Faults` says what may go wrong in
an instance: "giveup" (30 s time-out while the server goes on), "lost" (the answer
does not arrive), "garbled" (an answer that is cut short raises `HTTPException`,
which `_post` does not catch, so that `main()` posts the job again as an error),
"restart" (the process stops and starts again), "fails" (an exception in the
handler, or the server stopping).  The jobs of a batch are run in any order:
`created_at` is the start of the inserting transaction, not the order of commits.

### NextDnsPoller and the code

`row[o]` is the row of `nextdns_configs` (`cursor` is `last_event_at`, `Never` when
NULL; `start` is history: where the row's first successful sync began).  `prof[o]`
is the profile at NextDNS with its log, which is external; an entry carries its
time, whether it has a domain, and, as history, how many rows of
`security_events` hold it.  `poll` is the task, `req[r]` a provision, disconnect
or wipe in progress.

| `poll.pc` | Code | Action |
|---|---|---|
| sleep | `run_nextdns_poller` waits, then `all_enabled` | `StartTick` |
| next | the loop of `_tick` | `Pick` |
| fetch | `_fetch_logs` and the filter of `_sync_one` | `Fetch`, `FetchRefused` |
| ingest | `ingest_security_events`, to its commit | `Ingest`, `IngestRaises` |
| mark | `mark_synced` | `Mark` |
| any | an exception in `_sync_one`, a restart | `PollFails` |

The four requests for pages are one step.  The log grows at its end only and is
read in order, so pages read one after another are what one reading at the last
of them returns; and a refusal throws away all of them.  An exception ends the
tick: `rollback` expires every object of the tick's session, whose attributes
cannot be loaded outside a greenlet, so the next configuration raises in
`_sync_one` and once more in the handler's `logger.error`.  The order of the loop
is any order (`all_enabled` has no ORDER BY).  Making a profile takes a tick of the clock: it is a
call to NextDNS, longer than a millisecond, and nothing is logged for a profile
at the very moment it comes to be.  The row in `upsert` is read and
written in one step: a row that comes or goes in between raises, which is
`RequestFails`.

### The modules of accounts and the code

Each request is a record in `call`, `ask`, `visit` or `request`: `at` is where
it waits, the other fields what it has read and is about to write.  Between two
values of `at` lies an `await`; the commit is the step that writes.

| Module | State | Steps of a request |
|---|---|---|
| `Identity` | `users`, `invites` in the order of creation, `orgs` a counter | `provision_from_firebase`: by uid, by address, the open invitation, the insert and the accept in one commit, and the loser of the unique index who reads again; `change_role`, `revoke`, the administrator's panel; inviting: `asked` (is one pending for the address), `counting` (the members), `listing` (the pending invitations, held with the count against the seats), `inviting` (the insert) |
| `Codes` | `codes`: the rows of one address, of one kind | creating (invalidate what was seen, insert), answering (attempts as a number), consuming; for an agent the token is made in the commit that consumes, for a reset the code is used up before Firebase sets the password |
| `SignIn` | `certs` and `fresh` (the cache), `signing` (Google's key, external), `store` (the challenges in memory), `mfa` | fetching, one re-fetch for an unknown key, verified, toggling; lapsing, sweeping and restarts |
| `RateLimit` | `hits` (`_hits`), `now` | none: a hit runs without an `await` |
| `Enrolment` | `tokens`, `agents`; on each machine `config` (`agent_config.json`) and `proc` | the program: waiting, writing (the file is emptied by `open`), polling; the server: look, update or insert |

In `Enrolment` a new server address is what a new token is, and finding the
device of the agent's address is left to `Registry`: that it raises is
`EnrolmentFails`.  A plan that is lowered while people are invited is not in
`Identity`: `Seats` is a constant.

### The modules of events and the code

| Module | State | Steps |
|---|---|---|
| `Alerts` | `stored` (events of the rule in its window), `alerts` of one fingerprint, `rule` (`hits`, deleted) | a batch reads the rule; each event counts on the alert row its session holds or makes one; flush; commit; triage: read, write the status |
| `Incidents` | `filed` (`alerts.incident_id`), `incidents` (`alert_ids`) | opening takes alerts one by one; a PATCH reads the incident, then the alert, then commits both |
| `Registry` | `devices`, `sources` | match by MAC, then by address; insert; find or make the source; commit |
| `Scheduler` | `nextRun`, `tick` | read the due rows; deliver; `mark_ran`; rollback, restart |
| `Ueba` | `events`, `baseline`, `anomalies`, `risk` | read the baseline, the events; each anomaly is a commit; read the score, write it; a rebuild replaces the baseline |
| `Capture` | `upload`, `reader`, `temp` (the file), `asked` (OTX) | save or refuse; both readers end, or one raises; ask no more than a few at a time; answer |
| `Search` | `rowsStored`, `hosts` | the counts, the events, the devices: three statements, between which tables change |

`Alerts` follows one rule and one indicator, so one fingerprint.  MACs are taken
as normalised.  The passes of reports and of discovery sweeps have the same
steps, and `Scheduler` is one of them.  In `Ueba` an event is one
behaviour: an hour, a domain, a process or an incident that names the owner.  A
suspicious domain or an incident is an anomaly by itself, what the baseline does not
list is one if it lists anything of the kind, and the score adds what is grave in
full, what is medium halved, and a new domain not at all.  A packet of
`Capture` is what a reader looks at, a DNS name its labels and jumps, a time or a
size nothing; captures are Ethernet without VLAN tags and OTX is configured.  In
`Search` a text holds a value if it is that value (`ilike` with a whole word),
and of the columns there is one of each sort: searched by words, only by its key,
a number, the time, a key of the raw event, the name of the device.

## 4. Properties

* `TypeOK`: the type invariant.
* `PendingIsBacked`: a subscription in 'pending' has a payment that can still be
  confirmed or cancelled.  Otherwise the customer is stuck: checkout tells apart
  open payments only, and nothing else leaves 'pending'.
* `PlansAreDeserved`: no plan above Free other than the trial's Business is in
  the subscription or in a copy unless it was paid for or granted.
* `TrialIsGivenOnce` (action): the end of a trial is never moved, and a row comes back
  to 'trialing' at most from 'pending' while its end is kept.  What a payment, an admin
  or its end has closed stays closed, although requests that read the row during the
  trial write later.  Whether a cancelled payment should put the trial back, as
  `crud/subscription.py:278` says and the code does not, it leaves open:
  that is `ActiveIsPaid`.
* `OnlyTrialsExpire` (action): what expires was a trial when the request that expires
  it read it.  A request that read something else, a cancellation or a second expiry,
  takes a paid, granted or waiting subscription from nobody.
* `CopiesFollow` (action): a request that writes a plan before anything it loaded has
  changed leaves one plan in the subscription, the organization and every member,
  those who joined after the request began as well.
* `ImplementsPromise`: the refinement of `Entitlement`.
* `OpenWithinRequests`: there are no more open payments than requests at a time.  With
  two payments no run could break it; it is proved.
* `ActiveIsPaid`, `PaidNeverExpires`, `OnlyOpenIsCancelled`, `WipeLeadsToFree`: what documentation
  says and the code does not do (section 7).

Of the agent's jobs:

* `RunsOnce`, `EndedWereRun`, `ImplementsWorkQueue`: under every fault.
* `ResultsStay` (action), under every fault: a result changes in two cases only.  A poll
  that the agent gave up on writes 'running' over it, and an agent that could not read
  the answer to a success reports the job once more, as an error.
* `RenewalsWithinRequests`, under every fault: a stream has no more jobs waiting, or
  about to be added, than there are requests at a time.  It is about the kinds
  only streams ask for: a kind the dashboard may ask for too has as many as people ask.
* `ScansWithinRequests`: the findings shown of a target are those of no more scans than
  there are requests at a time: of one, if results do not overlap.
* `OneActivePerStream` is what the check in `poll_jobs` is for, and two polls at
  once break it (section 7).
* `JobsEnd`, `StreamGoesOn`: liveness when nothing is lost.

Of the poller:

* `PassedIsStored`: the cursor passes no entry that was not stored, except one
  that shares its millisecond with an entry logged before it.
* `PassedIsFinal`: the cursor of a row does not go back, and what it has passed is
  not stored again, as long as the pages hold the second of the cursor.  Otherwise
  it does go back: a first fetch begins in the middle of a second, the next at its
  start.  A row whose profile was replaced while the log was read may for the same
  reason be marked with an earlier time of the old log (`Outlived`).
* `AllAreServed`: with refusals only, each entry is stored in the end.

Of accounts:

* `Governed`: no organization loses its last owner, unless two requests that
  count owners cross, or the administrator's panel does it.
* `InviteAdmitsOne`: an invitation admits one person, to its own organization.
* `SeatsHeld`: members with invitations keep within the seats unless two
  invitations passed the check together, or one was accepted while it was cancelled or
  between the two lists that the check of another adds up.
* `SeatsNeverExceeded`: the same without these exceptions, as the endpoint's docstring
  has it; the code does not keep it (section 7).
* `RacersAreServed` (action): the loser of a race of two first requests is served.
* `CodeBudget`: a code opens one door, every answer counts, no more than the limit.
* `ChallengeBudget`, `OutageSpares` (action): of the second factor, and of
  certificates while Google cannot be reached.
* `WindowHeld`: in no window, wherever it lies, more hits than the limit.
* `Enrolled`: a machine polls as the agent of its own name in the organization
  of its token, and as the only one unless two requests inserted it together.

Of events:

* `EveryHitCounted`, `OneOpenAlert`: unless two batches counted, or made an alert,
  across each other (or a resolved alert was opened again).  Neither is disturbed by
  a rule that is deleted while a batch that read it goes on, which then fails as a
  whole: its events are not stored.  `EveryHitCounted` is of the hits of the rule, too,
  while it exists.
* `LinksAgree`: the list of the incident and the link of the alert agree, unless
  two requests filed the alert, or changed the list, across each other.
* `LoneBatchesStored`: what is registered makes no later request fail, unless
  through a race, a renamed source, or an address two devices had.
* `OncePerPeriod` (action): no schedule is delivered twice in its period, unless
  the pass was cut off before it moved it on.
* `TrendAgrees`: the trend is that of the two scores.
* `AnswersAreExact`: the answer about a capture is what its packets say, whichever
  reader read them and however names are compressed; where it is cut at its limits, what
  is left out comes after what is shown, and the findings are of both.
* `SearchFinds`: in tables that do not change, a search finds the newest events that
  meet each term read on its own, and misses none; the counts are of the same
  events if no term needs the name of a device.  It is of texts whose keys the language
  lists and in which `has`, `after` and `before` are not negated; what the
  docstring says of the others is `UnlistedKeysAreWords` and `NegationExcludes`, which
  the code does not keep (section 7).

"Unless ... crossed" is a history variable of the module (`excused`, `crowded`,
`crossed`, `twice`, `stale`, `again`, `torn`, `shared`, `cut`).  It holds what
two requests wrote across each other, so the property says that nothing else
goes wrong: not a failure half way, not a long sequence of requests, not a
restart.  The code takes no lock, and the crossing itself is what it does not
defend against.

## 5. Runs

| Run | Instance | Shows |
|---|---|---|
| `billing_concurrent` | 2 requests, 2 payments, read/checkout/cancel/confirm, wipes, a gateway with any answer | `TypeOK`, `PendingIsBacked`, `ImplementsPromise`, `TrialIsGivenOnce`, `OnlyTrialsExpire` |
| `billing_copies` | 2 requests, an invited user, admin changes, aborts | `PlansAreDeserved`, `CopiesFollow` |
| `jobs_faults` | 2 requests, 2 jobs, a stream, every fault | `TypeOK`, `RunsOnce`, `EndedWereRun`, `RenewalsWithinRequests`, `ImplementsWorkQueue`, `ResultsStay` |
| `jobs_live` | 1 request, 3 jobs, two streams, no fault, fairness | `ScansWithinRequests`, `JobsEnd`, `StreamGoesOn` |
| `nextdns_faults` | 1 organization, 2 requests, a removal, 3 entries, pages of 2, every fault | `TypeOK`, `PassedIsStored`, `PassedIsFinal` |
| `nextdns_live` | 2 organizations, logs longer than a page, refusals, fairness | `AllAreServed` |
| `accounts` | five components, two requests each, 2 users, 3 codes, 2 machines | `AccountsTypeOK`, `Governed`, `InviteAdmitsOne`, `SeatsHeld`, `CodeBudget`, `WindowHeld`, `ChallengeBudget`, `Enrolled`, `RacersAreServed`, `OutageSpares` |
| `siem` | seven components, two requests each | `SiemTypeOK`, `EveryHitCounted`, `OneOpenAlert`, `LinksAgree`, `LoneBatchesStored`, `TrendAgrees`, `AnswersAreExact`, `SearchFinds`, `OncePerPeriod` |

Four more runs, `billing_trial_after_cancel`, `jobs_lost`, `seats_crossed` and
`search_unlisted`, end in a counterexample: section 7.

Bounds.  Two requests are enough for every read-write race on a row, and the
second payment lets an old one be settled late while a new one is open.
`TrialDays = 1` and `MaxNow` put requests on both sides of the end of the trial.
`MaxSubs` bounds the number of times a wipe empties the workspace.  The plans are
Free, Business and one paid plan that differs from the trial's.  Sessions are
interchangeable in the runs that declare symmetry; no run with symmetry checks a
liveness property.  Two requests of the agent are the one it gave up on and the
one it waits for.  Two jobs let one be handed out while the other is queued, and
a third lets a stream be renewed after both; at `MaxJobs` a stream is passed over.
The dashboard queues scans and leaves the kinds of the streams to the streams; three
jobs are two scans and a stream's job, so a scan's findings are replaced by another's
in `jobs_live`, whose single request makes `ScansWithinRequests` as strict as it can be.  In the runs
of the poller `Limit = 2` stands for the 4000 entries of four pages; three entries
make a page that is cut.  `Second = 2` puts two timestamps in the second to which
"from" is cut, `Backlog = 2` of five ticks lets a first sync start after the first
entries, and in the middle of a second.  `PerSecond` bounds the queries of a
second: with as many as `Limit` the fetch from the full second would return the same entries for ever, so
`nextdns_live` has fewer, as a home network has against 4000; `nextdns_faults`
leaves them unbounded.  `MaxRemovals` bounds disconnects and wipes.  Every run
checks for deadlock.

In `accounts` two users and two invitations are an owner and one who arrives or
is invited; `Seats = 2` is reached by them.  `MaxAttempts = 2` and `MaxCodes = 3`
let a code be used up by answers, and replaced, while an older one is answered.
`LastKey = 3` with two keys served lets a key disappear from Google's answer;
`MaxTries`, `MaxLive` and `MaxMade` of 2 reach each limit of the challenges, and a
clock of 2 passes their lifetime of 1.  The limiter has two keys of which one more
than `PruneOver` is kept, so keys are forgotten, and `MaxNow = 7` is longer than
two windows of 3.  Two machines have one host name, and two tokens are of two
organizations.

In `siem` a threshold of 2 with batches of 2 is met by one batch and by two;
four events and two alerts let a resolved alert be followed by another; of the
statuses that are open, one that analysts give is enough.  Two
alerts and two incidents let a link be moved.  One MAC, one address and one name
sent are enough for two devices, as one may come without its MAC.  Six ticks
are three periods of 2.  `Cap = 2` is reached by one grave behaviour (a suspicious
domain), and an unusual hour adds half; processes, incidents and further domains differ in
what they add to a number no property depends on, and the theorems have all of them.  A
capture has at most three of ten packets (questions of two sources, a name written
by a jump, one that jumps to itself, a response, IPv6, ARP, a payload of two
bytes), of which two are read.  An answer shows two questions and one flow, so flows are
left out.  A text has at most two of thirteen terms, two of
five events are stored and a page is one event, so a page is full and cut.  The
requests of every part share their names, so that the symmetry is one group.

Fairness.  `Billing` has safety properties only and assumes no fairness: a
request may be abandoned at any step.  `AgentJobs!FairSpec` has weak fairness of
the agent's loop (`while True`, every exception of a handler is caught) and of
each request (the event loop runs what is ready, and the database answers).  What
the dashboard does and what goes wrong is not fair.  `NextDnsPoller!FairSpec` has
weak fairness of the poller's steps (`while not stop.is_set()`) and strong
fairness of each organization's `Fetch`: NextDNS does not refuse for ever.  Which
configuration the loop takes first is not fair.

## 6. Proofs

A theorem holds for every value of the constants that meets the named `ASSUME`s of
its module.  These say that bounds are numbers, that what must be finite is, that the
values that stand for "nothing" are not values, and that a packet says what its cells
spell; TLC evaluates them in the runs.  No theorem about billing, the agent or the poller
assumes that requests do not overlap, that nobody times out or that profiles stay.  A
few have one more hypothesis, on constants, that stands in the statement:

| Hypothesis | Says | Why it is needed |
|---|---|---|
| `IsFiniteSet(Sessions)`, `IsFiniteSet(Requests)` | finitely many requests are served at a time | `OpenWithinRequestsThm`, `RenewalsWithinRequestsThm` and `ScansWithinRequestsThm` count them |
| `OneAddress` | no account changes its e-mail address at Firebase | nothing in the program does so; an account that did could accept an invitation of its new address in an organization of its old one |

### Billing (`BillingProofs`)

For any number of requests, payments, members and plans:

* `TypeCorrect`.
* `PendingIsBackedThm`.  The property is not inductive: a cancellation that read the
  status before the checkout made it 'pending' would close the payment and leave the
  status.  What excludes it is `PendingWillSettle`: while the status is 'pending'
  there is an open payment such that every session that settles it and holds this
  subscription row has seen 'pending', so the commit that closes the payment takes
  the status with it.  `Shape` (where each handler can stand and what it will write)
  and `PaymentsInHand` (a checkout's payment is its own until the commit that makes
  it visible) make it inductive.  The whole is `SettlementInv`.
* `PlansAreDeservedThm`, with `JoinersDeserve` for the plan a joining request carries
  between its two commits.
* `TrialIsGivenOnceThm` and `ImplementsPromiseThm`, for any interleaving, from `HandInv`:
  what a session is about to write differs from what it read only as its operation
  may (`Hands`), the row has a key and a checkout that has inserted its payment holds
  the lock on the row it read (`Keyed`), and whoever settles a payment knows the plan
  it is for (`KnownPlans`).  Since a flush writes changed attributes only, a late
  commit brings back neither a trial nor a plan it merely read.  In the refinement
  the settling of a payment is an abstract step although its commit may be the last
  of several that read the same row, which is why `HandInv` speaks of all of them.
* `OnlyTrialsExpireThm`, `OpenWithinRequestsThm`, from `LapseInv` besides: who is about
  to write 'expired' read it, or read a trial whose end has passed (`LapseShape`), and the
  open payments can be given to requests, each to one of its own that is not about to
  add another (`Reserved`): a request that looks and finds one open adds none.
* `CopiesFollowThm`: what the session loaded and nothing has changed since is what is
  stored, and its flush writes the plan to each row that has another.

### The agent (`AgentJobsProofs`)

For any number of overlapping requests, jobs, kinds and streams and any set of faults:

* `JobsTypeCorrect`, `JobsRunOnce`, `ResultsAreOfRuns`: from `QueueInv`.
  `RunsOnce` needs to know who holds a job: nothing in the queue was run
  (`NotRunYet`), what the agent has in hand has left the queue and was not run
  (`AgentShape`), and the same of the answer it waits for, which is the only one
  it will act on.  Answers it gave up on may hold the same jobs and do not matter.
* `JobsImplementWorkQueue`: the refinement mapping is `Place`, from the history
  `ran` and the status; each step of `Next` withdraws jobs from the queue,
  inserts one or runs one (`StepPlaces`), and each of these is a step of
  `WorkQueue` or a stutter (`PlaceSteps`).
* `ResultsStayThm`, from `PostedInv`: of the job that is being posted no other result is
  recorded, unless the agent could not read an answer and posts it again.
* `RenewalsWithinRequestsThm`, from `RenewInv`, and `ScansWithinRequestsThm`, from
  `StoredInv`: the queued jobs of a stream can be given to requests, each to one of its own
  that is not about to add another (`Given`), and the findings likewise, where a result
  about to replace what it saw replaces its own as well (`Assigned`).

### The poller (`NextDnsProofs`)

For any number of organizations, requests, entries and removals, any page limit and
every combination of faults: `NextDnsTypeCorrect` and `PassedIsStoredThm`, from
`StoredInv`.  The step that is hard is the one from a fetch to the cursor: between
them the log grows, the row is removed and made again, the profile replaced, the
process restarted.

* A page is a beginning of the log from the second of the cursor on, so an entry
  that is not newer than the newest named one of the page, but is not on it, is of the
  same millisecond as one that is, and so not the first of its time.
* `FetchedInv` carries this from the fetch to the mark: what is older than `newest`
  is stored, or was on the pages and is of the profile that was read.
* `Settled`: when a cursor or a `newest` is a time t, no entry yet to come is the
  first of time t, because one of that time is in the log or t has passed.  This is
  where making a profile must take a tick.
* The mark finds its row by a number, and numbers of rows and profiles are never used
  again (`Numbers`, `TodoInv`): a row made anew is not marked with what the old one saw.

`PassedIsFinalThm` needs `FinalInv` on top of it:

* A cursor, or a time about to become one, is a time that was seen: the log of its
  profile holds an entry of it (`CursorsSeen`).  A row made since the tick began has
  no cursor yet (`NewRows`).
* A page that ends before the cursor it starts from holds Limit + 1 entries of the
  cursor's second (`PageFallsBehind`), so if no second is crowded a fetch moves on
  (`FetchAdvances`), and what it is about to store is younger than the cursor
  (`EventsAreNew`).  `RateHeld` says a second never has more than PerSecond entries.
* The profile may be deleted and made again between the fetch and the mark: the row is
  then the new profile's, its log is empty, and the time to be marked is of the old log.
  With two requests it does not happen; with three it does (two provisions begin while a
  disconnect is between its commit and the remote delete).  What is stored again or dropped
  stays as the property says.  The cursor may go back only if the old log has a second
  with more entries than the pages hold, which is the case `Outlived` names; without
  it TLC shows the property fail with `Requests` of three, `PerSecond` above `Limit`
  and `MaxNow = 6`.

### Accounts (`IdentityProofs`, `MfaProofs`, `AccountsProofs`)

* `IdentityTypeCorrect`, from `RowsInv` (every id a request carries is of a row).
* `GovernedThm`: a request let in as a chief still is one (`ChiefsHandle`), and one
  about to take a role away leaves another chief (`RankersLeaveChief`): what it counted
  before its `await` is still so, unless a request that crossed excused the
  organization.
* `SeatsHeldThm`: a request about to add an invitation has a seat for it
  (`InvitersHaveSeat`), and what one has counted of the members is still their number when
  it lists the invitations (`CountsHold`), unless the organization is `crowded`;
  accepting moves a seat from the pending to the members.
* `InviteAdmitsOneThm`, `RacersAreServedThm`: an address has one account, a request
  acts on rows of its own address, and whoever was admitted has the address that was
  invited (`AdmitInv`).
* `CodesTypeCorrect`, `CodeBudgetThm`: a request holds what it read unless another
  crossed it (`HeldAreFresh`), and a code that opened its door is used up.
* `SignInTypeCorrect`, `ChallengeBudgetThm`, `OutageSparesThm`: what the store holds
  has opened nothing and counts its answers (`StoreCounts`); a challenge answered,
  used up, lapsed or swept is out of the store, and its number does not return.
* `LimiterTypeCorrect`, `WindowHeldThm`, for any limit and window: the hits remembered
  of a key are the tail of those granted, and all before them have left the window
  (`Remembers`), so a hit and the one that comes the limit after it are a window
  apart (`Spaced`); then no window, wherever it lies, holds more than the limit.
  Forgetting a key forgets only hits that have left.  `Dropped` says where the loop
  of `popleft` stops; that it stops is the least-number principle.
* `EnrolmentTypeCorrect`, `EnrolledThm`, from `EnrolledInv`: every id that a request,
  a process or a file holds is of the right name (`IdsAreOwn`), a machine waits
  for its own request although requests outlive their machines (`WaitsForItsOwn`), and
  a name is once in the table or in `twice` (`NamesAreOnce`).
* `AccountsTypeCorrect`, `AccountsAreSafe`: a step of `MCAccounts` is a step of one part
  and a stutter of the others (`PartsAreAsAlone`), so what is proved of the parts
  holds of the sum that the run `accounts` checks.

### Events (`DetectionProofs`, `SiemProofs`)

* `UebaTypeCorrect`, `TrendAgreesThm`: a run about to write the score read the row as
  it is, unless another moved it across (`ScorersAgree`).
* `AlertsTypeCorrect`, `EveryHitCountedThm`, `OneOpenAlertThm`: the count a batch's
  session holds is that of the row plus the batch's own hits, unless the row is stale
  (`HeldIsAhead`), and a batch that made an alert still finds none open
  (`MakersFoundNone`).  The rule's hits are an absolute number that the batch adds to what
  it read; `BatchFits` says that this is still the row's, unless another hit it since.
  The bounds of the types need `TalliesFit`: no count is more than the events there
  were, and no tally of a batch more than the events it has.
* `RegistryTypeCorrect`, `LoneBatchesStoredThm`: what a request looked up has not changed
  unless another committed meanwhile (`RequestOK`); a MAC has one device, since the
  insert of one waits for the other (`OneMaker`); and whatever makes a lookup ambiguous
  is remembered (`HeldByIp`, `SourcesOnce`).
* `IncidentsTypeCorrect`, `LinksAgreeThm`, from `LinksInv`: `WorkIsFresh` says that what a
  request read of an alert that was not torn is still so; each commit that would spoil
  it finds the other request with `Overlaps` and marks the alert.
* `SchedulerTypeCorrect`, `OncePerPeriodThm`, from `PeriodInv`: what was delivered is
  due a period later once it was moved on (`MovedOn`), and what a pass has still to
  deliver was delivered a period ago (`DueRightly`), because a pass meets a schedule once.
* `SearchTypeCorrect`, `SearchFindsThm`, for any texts, rows and page size.  `ParseIsMeant`:
  what `parse` makes of a text, taken as SQL takes it, is what its terms say one by one;
  each kind of term has its lemma (`FieldIsMet`, `HostIsSaid`, and `TimesAreMet`, since
  the last time given overrules the others).  `ListedAre`: the k-th row has k - 1 newer
  ones; there is one for each k (`RankExists`), since to count what is newer is
  one-to-one (`NewerFalls`).  `SearchInv` carries both through the three statements.
* `CaptureTypeCorrect`, `AnswersAreExactThm`, for any captures, limits and verdicts.  A
  loop over the packets is what it leaves after each of them (`Rounds`, `LoopStays`), so
  what it returns is said of the packets read so far, and kept by each round: the
  questions found are those asked, each once, in the order they were first asked
  (`AskedIn`), a flow has a row, with as many packets as were its (`TalliedIn`), and of
  the names those asked first come first (`NamedIn`).  That a loop keeps what each round
  keeps is `CountingUp`, from a least counterexample.  `SortedIs` says that the sort
  loses no row and orders them: a row has a place for each number of rows before it
  (`PlaceExists`, which also places the rows of a search).  Both readers leave the same
  (`TsharkFinds`, `ParserFinds`), and `CaptureInv` carries it through the questions to
  OTX to the answer.  A packet says what its cells spell: this is `CaptureAssumption`,
  which the run `siem` evaluates on its packets.
* `SiemTypeCorrect`, `SiemIsSafe`: these hold of `MCSiem`, by its own `PartsAreAsAlone`.

### Only model-checked

* Liveness (`JobsEnd`, `StreamGoesOn`, `AllAreServed`) and whatever depends on `ENABLED`:
  out of the prover's reach.
* What `Capture!ParseName` makes of a name's cells, jump by jump: `CaptureAssumption`
  takes it as the name a packet stands for, and TLC compares the two for each packet
  of the run `siem`.

## 7. Where code and documentation disagree

Four are runs that end in a counterexample, and `PROJECT.json` quotes the lines.
The others are properties the modules state and the code does not keep; the last
column says which change to a configuration shows it.

| Property | What happens | Seen in |
|---|---|---|
| `ActiveIsPaid` | checkout, then cancel, during the trial leaves an ACTIVE Business that never expires | run `billing_trial_after_cancel` |
| `StreamGoesOn` | one lost answer leaves a job 'running' for good, and its stream waits for it | run `jobs_lost` |
| `SeatsNeverExceeded` | the members are counted, the invitations listed and the new one inserted in three queries: a person who joins between the first two, or two invitations at once, exceed the seats of the plan | run `seats_crossed` |
| `UnlistedKeysAreWords` | a term with a key the search does not know is dropped, though `core/querylang.py:97` makes it a word; a text of nothing else finds everything | run `search_unlisted` |
| `NegationExcludes` | the minus of `-has:`, `-after:` and `-before:` is dropped, though `core/querylang.py:11` says that it negates | `search_unlisted` with this invariant |
| `PaidNeverExpires` | a read that saw the trial due overwrites the plan just paid for | `billing_concurrent` with this property |
| `AllAreServed` | when one organization's sync raises, the tick ends and the others are not polled | `nextdns_live` with `Broken = {b}` |
| `OnlyOpenIsCancelled` | a payment that succeeded can be cancelled, though `endpoints/subscriptions.py:182` is for a pending one | `billing_concurrent` with this property |
| `WipeLeadsToFree` | after a wipe the subscription comes back on a Business trial; `endpoints/org.py:43` says Free | `billing_concurrent` with this invariant |
| `OneActivePerStream` | two polls at once find a stream without a job and each adds one | `jobs_faults` with this invariant |
| `HandedOnce` | two overlapping polls are both answered with the same job, which `crud/agent.py:118` excludes | `jobs_faults` with this property |
| `ConfiguredExists` | provisioning reuses the profile that a disconnect is about to delete: configured, and every sync gets a 404 | `nextdns_faults` with this property |
| `StartsAgain` | `open()` empties `agent_config.json` and `json.dump` fills it: an agent that stops in between cannot start, though `agent.py:437` keeps the file for that | `accounts` with this invariant |
| `BurstsRaise` | the rule's query does not see the events of its own batch, though `crud/detection.py:169` counts them: a burst in one batch raises nothing | `siem` with this property |
| `LeasesMove` | two devices that held one address make every later batch from it without a MAC fail, though `models/monitoring.py:87` expects addresses to change | `siem` with this invariant in the place of `LoneBatchesStored` |

Met while modelling, without a property of their own:

* Two checkouts at once both register a payment, though `tests/test_subscriptions.py:147`
  says that a second is refused; `OpenWithinRequests` is what does hold.
* A join that stops between its commits leaves the member on Free until the plan is
  next written, and so does a wipe the copies of the plan it removes (`CopiesFollow`
  speaks of writes only).
* `tests/test_subscriptions.py:34-45` expects a new user on Free and 'active', but
  `crud/user.py:130` starts the Business trial (`Init`).
* The counts by severity of a search are made without the join to the devices: a
  word, or a `device:` term, multiplies them by the devices there are, those of
  other organizations too (`Breakdown`; `SearchFinds` leaves these texts out).
* `-key:value` does not find events without a value (`FieldHolds`), and the fields
  of a text do not restrict the devices it finds (`DevicesFound`).
* `core/pcap_parser.py` says that it reads pcapng; the magic number is unknown to
  it and the capture is read as empty.  A DNS payload of two bytes raises
  (`:244`) and every later query of the capture is dropped.  With tshark
  `packets_read` counts packets of IP only, so `truncated` may be false for a
  capture that was cut; and a capture cut short in its last packet is
  refused with tshark and read by the parser (`InReach` names what
  `AnswersAreExact` leaves out).
* `core/scheduler.py:62` moves a schedule on after a failure "so that it is not
  tried for ever"; when the failure is the database's, the rollback keeps it due.
* `core/firebase.py:217` empties the cache for a rotated key by assigning a local
  variable, so the cached certificates are used again until they expire.
* `core/mfa.py` says five minutes, the setting is `otp_ttl_minutes`.
* An alert of an incident that is closed cannot be linked to another
  (`crud/incident.py:170`); an alert keeps "None" among its event ids, since the
  event is not flushed (`crud/alerts.py:58`).
* A second analysis records the anomalies of the same day once more
  (`core/ueba_engine.py`), and the first row of a score is "stable" whatever it is.
* `api/v1/endpoints/ueva.py:80` means the function of `crud/ueva.py`, but the endpoint
  of the same name (`:132`) has taken its place: the detail of a user whose score
  exists cannot be answered.
* `crud/actions.py:16` computes the time from which an action is stale when the
  module is imported, and nothing calls `mark_stale_pending`.

## 8. Not modelled

What the agent's handlers collect from the host, and the events and logs they post
on the way.  GeoIP, e-mail, push and the language model are calls to other
services.  Dashboards and statistics are reads whose content is data, and so
are a report's contents.  The editing of detection rules, notes and statuses of
incidents, response actions and notifications are single-row writes nothing
relates to.  Logging, configuration, headers and health are I/O.  Migrations are
generated.  Admin endpoints that change no plan, and what a plan's features
unlock, are data.  More than one server process is not modelled: the limiter
and the challenges live in memory, and the repository starts one.

## 9. Plan

Done: every module of section 3, and the theorems of section 6: each invariant and
action property that a run checks has one.  Left open are the properties of section 7
that the code does not keep; each would take its place in a run when the code does.
