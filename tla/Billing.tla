------------------------------ MODULE Billing ------------------------------
(***************************************************************************)
(* The subscription of one organization: the row of `subscriptions`, the    *)
(* payments against it, and the copies of the plan kept in `organizations`  *)
(* and `users` (app/crud/subscription.py, app/crud/admin.py,                *)
(* app/api/v1/endpoints/subscriptions.py, admin.py, org.py).                *)
(*                                                                          *)
(* Every request has its own AsyncSession over PostgreSQL READ COMMITTED.   *)
(* A handler reads rows, awaits, assigns attributes and commits; between    *)
(* two awaits other handlers run.  SQLAlchemy writes an attribute at commit *)
(* only if it differs from the value the session loaded (FlushAttr), a      *)
(* query never reloads a row the session already holds, and an UPDATE of a  *)
(* row that has gone fails the whole transaction.  One step here is the     *)
(* code between two awaits that matter.                                     *)
(***************************************************************************)
EXTENDS Naturals, FiniteSets

CONSTANTS
    Sessions,        \* requests in flight at the same time
    Payments,        \* rows that `payments` may get
    Users,           \* members of the organization, now or later
    Owner,           \* the user the organization was created for
    Plans,           \* the catalogue (core/plans.py)
    Ops,             \* the operations this instance performs
    GatewayResults,  \* what charge may answer; ManualGateway: {"processing"}
    TrialDays,       \* TRIAL_DAYS in ticks of the clock
    MaxNow,          \* bound on the clock
    MaxSubs          \* bound on the subscriptions a wipe makes room for

Free == "Free"              \* DEFAULT_PLAN
Business == "Business"      \* TRIAL_PLAN
NoUser == "nouser"          \* plan of somebody who has not joined
NotRead == "notread"        \* an attribute the session has not loaded
NoTrial == 0                \* trial_ends_at is NULL

AllOps == {"me", "checkout", "cancel", "confirm", "set_plan", "unlock", "wipe", "join"}
SubStatus == {"trialing", "active", "pending", "expired"}
Open == {"pending", "processing"}
PayStatus == Open \cup {"succeeded", "failed"}

ASSUME PlanAssumption ==
    {Free, Business} \subseteq Plans /\ NoUser \notin Plans /\ NotRead \notin Plans
ASSUME UserAssumption == Owner \in Users
ASSUME OpsAssumption == Ops \subseteq AllOps
ASSUME GatewayAssumption == GatewayResults \subseteq PayStatus
ASSUME PaymentAssumption == "nopay" \notin Payments
ASSUME BoundAssumption ==
    TrialDays \in Nat \ {0} /\ MaxNow \in Nat /\ MaxSubs \in Nat

VARIABLES
    now,       \* the clock
    sub,       \* the row of subscriptions, or NoSub
    lastSub,   \* primary keys of subscriptions handed out so far
    orgPlan,   \* organizations.plan
    userPlan,  \* users.plan, by user
    payments,  \* the rows of payments; "wiped" rows are gone
    granted,   \* history: the plans paid for or set by an admin so far
    ses        \* the sessions: identity map, pending assignments, position

vars == <<now, sub, lastSub, orgPlan, userPlan, payments, granted, ses>>

NoSub == [id |-> 0, plan |-> Free, status |-> "none", trialEnds |-> NoTrial]
NoPayRow == [status |-> "none", plan |-> Free]
NewTrial(id) ==
    [id |-> id, plan |-> Business, status |-> "trialing", trialEnds |-> now + TrialDays]

Idle == [op |-> "none", pc |-> "idle", actor |-> Owner, pay |-> "nopay",
         want |-> Free, paid |-> "none", sub |-> NoSub, new |-> NoSub,
         org |-> NotRead, usr |-> [u \in Users |-> NotRead]]

SubRow == [id : Nat, plan : Plans, status : SubStatus \cup {"none"}, trialEnds : Nat]
PayRow == [status : PayStatus \cup {"none", "wiped"}, plan : Plans]
Session ==
    [op : AllOps \cup {"none"},
     pc : {"idle", "ensure", "create", "refresh", "pending", "insert", "charge",
           "pay", "paysub", "sync", "commit", "joinread", "joincommit"},
     actor : Users, pay : Payments \cup {"nopay"}, want : Plans,
     paid : PayStatus \cup {"none", "wiped"}, sub : SubRow, new : SubRow,
     org : Plans \cup {NotRead},
     usr : [Users -> Plans \cup {NotRead, NoUser}]]

Init ==
    /\ now = 0
    /\ sub = [id |-> 1, plan |-> Business, status |-> "trialing", trialEnds |-> TrialDays]
    /\ lastSub = 1
    /\ orgPlan = Business
    /\ userPlan = [u \in Users |-> IF u = Owner THEN Business ELSE NoUser]
    /\ payments = [p \in Payments |-> NoPayRow]
    /\ granted = {}
    /\ ses = [s \in Sessions |-> Idle]

-----------------------------------------------------------------------------
(* What a session does to a row.                                            *)

FlushAttr(cur, old, new) == IF new # old THEN new ELSE cur

\* Mutant: the whole row is written.
FlushWhole(row, old, new) == new

Flush(row, old, new) ==
    [row EXCEPT !.plan = FlushAttr(@, old.plan, new.plan),
                !.status = FlushAttr(@, old.status, new.status),
                !.trialEnds = FlushAttr(@, old.trialEnds, new.trialEnds)]

\* Mutant: the trial's end alone decides, whatever the status.
TrialDueByDate(row) == row.trialEnds # NoTrial /\ row.trialEnds <= now

TrialDue(row) ==
    row.status = "trialing" /\ row.trialEnds # NoTrial /\ row.trialEnds <= now

Expired(row) == [row EXCEPT !.plan = Free, !.status = "expired"]

ApplyPlan(row, plan) ==
    [row EXCEPT !.plan = plan, !.status = "active", !.trialEnds = NoTrial]

OpenPayments == {p \in Payments : payments[p].status \in Open}

Members == {u \in Users : userPlan[u] # NoUser}

\* The rows the session is about to update are no longer there.
Gone(s) ==
    \/ sub.id # ses[s].sub.id
    \/ ses[s].pay # "nopay" /\ payments[ses[s].pay].status = "wiped"

-----------------------------------------------------------------------------
(* Entry of a request: authentication loads the user and its organization,  *)
(* the admin endpoints load those of the user they are about.               *)

Enter(s, op, u, pay, want, pc) ==
    /\ ses[s].pc = "idle"
    /\ op \in Ops
    /\ ses' = [ses EXCEPT ![s] =
                 [Idle EXCEPT !.op = op, !.pc = pc, !.actor = u, !.pay = pay,
                              !.want = want, !.org = orgPlan, !.usr[u] = userPlan[u]]]
    /\ UNCHANGED <<now, sub, lastSub, orgPlan, userPlan, payments, granted>>

BeginMe(s) ==
    \E u \in Members : Enter(s, "me", u, "nopay", Free, "ensure")

BeginCheckout(s) ==
    \E p \in Payments, plan \in Plans \ {Free} :
        /\ payments[p].status = "none"
        /\ \A t \in Sessions : ses[t].pay # p
        /\ Enter(s, "checkout", Owner, p, plan, "ensure")

BeginCancel(s) ==
    \E p \in Payments : payments[p].status \in PayStatus /\ Enter(s, "cancel", Owner, p, Free, "pay")

BeginSetPlan(s) ==
    \E u \in Members, plan \in Plans : Enter(s, "set_plan", u, "nopay", plan, "ensure")

\* unlock_subscription is set_plan with the organization's copy of the plan.
BeginUnlock(s) ==
    \E u \in Members : Enter(s, "unlock", u, "nopay", orgPlan, "ensure")

\* confirm_payment has no endpoint: its caller hands it a payment, no user.
BeginConfirm(s) ==
    \E p \in Payments :
        /\ ses[s].pc = "idle" /\ payments[p].status \in PayStatus
        /\ "confirm" \in Ops
        /\ ses' = [ses EXCEPT ![s] = [Idle EXCEPT !.op = "confirm", !.pc = "pay", !.pay = p]]
        /\ UNCHANGED <<now, sub, lastSub, orgPlan, userPlan, payments, granted>>

-----------------------------------------------------------------------------
(* ensure_subscription                                                      *)

\* Where the handler is once ensure_subscription has returned `row`.
Resume(sn, row) ==
    CASE sn.op = "checkout" /\ row.plan # sn.want ->
            [sn EXCEPT !.pc = "pending", !.sub = row]
      [] sn.op \in {"set_plan", "unlock"} ->
            [sn EXCEPT !.pc = "sync", !.sub = row, !.new = ApplyPlan(row, sn.want)]
      [] OTHER -> Idle

EnsureRead(s) ==
    /\ ses[s].pc = "ensure"
    /\ ses' = [ses EXCEPT ![s] =
                 CASE sub = NoSub -> [@ EXCEPT !.pc = "create"]
                   [] TrialDue(sub) ->
                        [@ EXCEPT !.pc = "sync", !.sub = sub, !.new = Expired(sub)]
                   [] OTHER -> Resume(ses[s], sub)]
    /\ UNCHANGED <<now, sub, lastSub, orgPlan, userPlan, payments, granted>>

\* organization_id is unique: the second of two concurrent INSERTs fails.
EnsureCreate(s) ==
    /\ ses[s].pc = "create"
    /\ IF sub = NoSub
       THEN /\ sub' = NewTrial(lastSub + 1)
            /\ lastSub' = lastSub + 1
            /\ ses' = [ses EXCEPT ![s] = [@ EXCEPT !.pc = "refresh", !.sub = sub']]
       ELSE /\ ses' = [ses EXCEPT ![s] = Idle]
            /\ UNCHANGED <<sub, lastSub>>
    /\ UNCHANGED <<now, orgPlan, userPlan, payments, granted>>

Refresh(s) ==
    /\ ses[s].pc = "refresh"
    /\ ses' = [ses EXCEPT ![s] = IF sub.id = @.sub.id THEN Resume(ses[s], sub) ELSE Idle]
    /\ UNCHANGED <<now, sub, lastSub, orgPlan, userPlan, payments, granted>>

-----------------------------------------------------------------------------
(* _sync_plan_to_org_and_users: what is loaded already is not read again.   *)

LoadCopies(sn) ==
    [sn EXCEPT !.pc = "commit",
               !.org = IF sn.org = NotRead THEN orgPlan ELSE sn.org,
               !.usr = [u \in Users |->
                          IF sn.usr[u] = NotRead THEN userPlan[u] ELSE sn.usr[u]]]

\* Mutant: the copies are committed before the subscription.
SyncCommits(s) ==
    /\ ses[s].pc = "sync"
    /\ ses' = [ses EXCEPT ![s] = LoadCopies(ses[s])]
    /\ orgPlan' = ses[s].new.plan
    /\ UNCHANGED <<now, sub, lastSub, userPlan, payments, granted>>

Sync(s) ==
    /\ ses[s].pc = "sync"
    /\ ses' = [ses EXCEPT ![s] = LoadCopies(ses[s])]
    /\ UNCHANGED <<now, sub, lastSub, orgPlan, userPlan, payments, granted>>

WriteSub(s) == sub' = Flush(sub, ses[s].sub, ses[s].new)

\* Mutant: the members' copies are forgotten.
WriteOrgCopy(s) ==
    /\ orgPlan' = FlushAttr(orgPlan, ses[s].org, ses[s].new.plan)
    /\ UNCHANGED userPlan

WriteCopies(s) ==
    LET plan == ses[s].new.plan
        usr == ses[s].usr
    IN  /\ orgPlan' = FlushAttr(orgPlan, ses[s].org, plan)
        /\ userPlan' = [u \in Users |->
                          IF usr[u] = NoUser THEN userPlan[u]
                          ELSE FlushAttr(userPlan[u], usr[u], plan)]

\* Of the rows loaded, the request keeps its user and organization only.
KeepOwn(sn) ==
    [sn EXCEPT !.pc = "refresh", !.new = NoSub, !.org = Free,
               !.usr = [u \in Users |-> IF u = sn.actor THEN Free ELSE NotRead]]

ExpireCommit(s) ==
    /\ ses[s].pc = "commit" /\ ses[s].new.status = "expired" /\ ~Gone(s)
    /\ ses[s].op \in {"me", "checkout", "set_plan", "unlock"}
    /\ WriteSub(s) /\ WriteCopies(s)
    /\ ses' = [ses EXCEPT ![s] = KeepOwn(ses[s])]
    /\ UNCHANGED <<now, lastSub, payments, granted>>

SetPlanCommit(s) ==
    /\ ses[s].pc = "commit" /\ ses[s].new.status = "active" /\ ~Gone(s)
    /\ ses[s].op \in {"set_plan", "unlock"}
    /\ WriteSub(s) /\ WriteCopies(s)
    /\ granted' = granted \cup {ses[s].want}
    /\ ses' = [ses EXCEPT ![s] = Idle]
    /\ UNCHANGED <<now, lastSub, payments>>

\* StaleDataError, or a row that is not there to refresh: all is rolled back.
CommitFails(s) ==
    /\ ses[s].pc = "commit" /\ Gone(s)
    /\ ses' = [ses EXCEPT ![s] = Idle]
    /\ UNCHANGED <<now, sub, lastSub, orgPlan, userPlan, payments, granted>>

-----------------------------------------------------------------------------
(* checkout and start_checkout                                              *)

\* Mutant: a payment the gateway is processing does not count.
CheckPendingOnly(s) ==
    /\ ses[s].pc = "pending"
    /\ ses' = [ses EXCEPT ![s] =
                 IF \E p \in Payments : payments[p].status = "pending"
                 THEN Idle ELSE [@ EXCEPT !.pc = "insert"]]
    /\ UNCHANGED <<now, sub, lastSub, orgPlan, userPlan, payments, granted>>

CheckPending(s) ==
    /\ ses[s].pc = "pending"
    /\ ses' = [ses EXCEPT ![s] =
                 IF OpenPayments # {} THEN Idle ELSE [@ EXCEPT !.pc = "insert"]]
    /\ UNCHANGED <<now, sub, lastSub, orgPlan, userPlan, payments, granted>>

\* The INSERT takes a key lock on the subscription row until the commit, and
\* fails when that row has gone (foreign key).
InsertPayment(s) ==
    /\ ses[s].pc = "insert"
    /\ ses' = [ses EXCEPT ![s] =
                 IF sub.id # @.sub.id THEN Idle ELSE [@ EXCEPT !.pc = "charge"]]
    /\ UNCHANGED <<now, sub, lastSub, orgPlan, userPlan, payments, granted>>

\* Mutant: the plan is given when the checkout begins.
ApplyAtCharge(row, plan, result) == ApplyPlan(row, plan)

\* What start_checkout assigns to the subscription, by the gateway's answer.
AfterCharge(row, plan, result) ==
    CASE result = "succeeded" -> ApplyPlan(row, plan)
      [] result \in Open -> [row EXCEPT !.status = "pending"]
      [] OTHER -> row

ChargeCommit(s) ==
    /\ ses[s].pc = "charge"
    /\ \E result \in GatewayResults :
          /\ payments' = [payments EXCEPT ![ses[s].pay] =
                            [status |-> result, plan |-> ses[s].want]]
          /\ sub' = Flush(sub, ses[s].sub,
                          AfterCharge(ses[s].sub, ses[s].want, result))
          /\ granted' = IF result = "succeeded" THEN granted \cup {ses[s].want}
                                                ELSE granted
    /\ ses' = [ses EXCEPT ![s] = Idle]
    /\ UNCHANGED <<now, lastSub, orgPlan, userPlan>>

-----------------------------------------------------------------------------
(* confirm_payment and fail_payment                                         *)

ReadPayment(s) ==
    LET row == payments[ses[s].pay]
    IN  /\ ses[s].pc = "pay"
        /\ ses' = [ses EXCEPT ![s] =
                     IF \/ row.status \in {"none", "wiped"}
                        \/ @.op = "confirm" /\ row.status = "succeeded"
                     THEN Idle
                     ELSE [@ EXCEPT !.pc = "paysub", !.paid = row.status, !.want = row.plan]]
        /\ UNCHANGED <<now, sub, lastSub, orgPlan, userPlan, payments, granted>>

\* Mutants: the status is forgotten, is cancelled.
AfterFailKeeps(row) == row
AfterFailCancels(row) == [row EXCEPT !.status = "cancelled"]
AfterFail(row) == IF row.status = "pending" THEN [row EXCEPT !.status = "active"] ELSE row

ReadPaymentSub(s) ==
    /\ ses[s].pc = "paysub"
    /\ ses' = [ses EXCEPT ![s] =
                 IF @.op = "confirm" /\ sub # NoSub
                 THEN [@ EXCEPT !.pc = "sync", !.sub = sub, !.new = ApplyPlan(sub, ses[s].want)]
                 ELSE [@ EXCEPT !.pc = "commit", !.sub = sub, !.new = AfterFail(sub)]]
    /\ UNCHANGED <<now, sub, lastSub, orgPlan, userPlan, payments, granted>>

WritePayment(s, status) ==
    payments' = [payments EXCEPT ![ses[s].pay].status =
                    FlushAttr(@, ses[s].paid, status)]

ConfirmCommit(s) ==
    /\ ses[s].pc = "commit" /\ ses[s].op = "confirm" /\ ~Gone(s)
    /\ WritePayment(s, "succeeded")
    /\ WriteSub(s) /\ WriteCopies(s)
    /\ granted' = granted \cup {ses[s].want}
    /\ ses' = [ses EXCEPT ![s] = Idle]
    /\ UNCHANGED <<now, lastSub>>

CancelCommit(s) ==
    /\ ses[s].pc = "commit" /\ ses[s].op = "cancel" /\ ~Gone(s)
    /\ WritePayment(s, "failed")
    /\ WriteSub(s)
    /\ ses' = [ses EXCEPT ![s] = Idle]
    /\ UNCHANGED <<now, lastSub, orgPlan, userPlan, granted>>

-----------------------------------------------------------------------------
(* wipe_org_data, and provisioning of a user who was invited                *)

\* One transaction over every table of the workspace.  It waits for the key
\* lock of a checkout that has inserted its payment.
Wipe(s) ==
    /\ "wipe" \in Ops /\ ses[s].pc = "idle" /\ lastSub < MaxSubs
    /\ \A t \in Sessions : ses[t].pc # "charge"
    /\ sub' = NoSub
    /\ payments' = [p \in Payments |->
                      IF payments[p].status = "none" THEN payments[p]
                      ELSE [payments[p] EXCEPT !.status = "wiped"]]
    /\ UNCHANGED <<now, lastSub, orgPlan, userPlan, granted, ses>>

JoinInsert(s) ==
    \E u \in Users \ Members :
        /\ ses[s].pc = "idle"
        /\ "join" \in Ops
        /\ userPlan' = [userPlan EXCEPT ![u] = Free]
        /\ ses' = [ses EXCEPT ![s] =
                     [Idle EXCEPT !.op = "join", !.pc = "joinread", !.actor = u,
                                  !.usr[u] = Free]]
        /\ UNCHANGED <<now, sub, lastSub, orgPlan, payments, granted>>

JoinRead(s) ==
    /\ ses[s].pc = "joinread"
    /\ ses' = [ses EXCEPT ![s] = [@ EXCEPT !.pc = "joincommit", !.org = orgPlan]]
    /\ UNCHANGED <<now, sub, lastSub, orgPlan, userPlan, payments, granted>>

JoinCommit(s) ==
    LET u == ses[s].actor
    IN  /\ ses[s].pc = "joincommit"
        /\ userPlan' = [userPlan EXCEPT ![u] = FlushAttr(@, ses[s].usr[u], ses[s].org)]
        /\ ses' = [ses EXCEPT ![s] = Idle]
        /\ UNCHANGED <<now, sub, lastSub, orgPlan, payments, granted>>

-----------------------------------------------------------------------------
\* A database error, or the process stopping: get_db rolls the session back.
Abort(s) ==
    /\ ses[s].pc # "idle"
    /\ ses' = [ses EXCEPT ![s] = Idle]
    /\ UNCHANGED <<now, sub, lastSub, orgPlan, userPlan, payments, granted>>

Tick ==
    /\ now < MaxNow
    /\ now' = now + 1
    /\ UNCHANGED <<sub, lastSub, orgPlan, userPlan, payments, granted, ses>>

Begin(s) ==
    \/ BeginMe(s) \/ BeginCheckout(s) \/ BeginCancel(s)
    \/ BeginSetPlan(s) \/ BeginUnlock(s) \/ BeginConfirm(s)

Ensure(s) == EnsureRead(s) \/ EnsureCreate(s) \/ Refresh(s) \/ ExpireCommit(s)

Checkout(s) == CheckPending(s) \/ InsertPayment(s) \/ ChargeCommit(s)

Settle(s) ==
    ReadPayment(s) \/ ReadPaymentSub(s) \/ ConfirmCommit(s) \/ CancelCommit(s)

Join(s) == JoinInsert(s) \/ JoinRead(s) \/ JoinCommit(s)

Step(s) ==
    \/ Begin(s) \/ Ensure(s) \/ Sync(s) \/ SetPlanCommit(s) \/ CommitFails(s)
    \/ Checkout(s) \/ Settle(s) \/ Join(s) \/ Wipe(s) \/ Abort(s)

Next == Tick \/ \E s \in Sessions : Step(s)

Spec == Init /\ [][Next]_vars

-----------------------------------------------------------------------------
(* Properties                                                               *)

\* Every variable has its type.
TypeOK ==
    /\ now \in Nat /\ lastSub \in Nat
    /\ sub \in SubRow
    /\ orgPlan \in Plans
    /\ userPlan \in [Users -> Plans \cup {NoUser}]
    /\ payments \in [Payments -> PayRow]
    /\ granted \subseteq Plans
    /\ ses \in [Sessions -> Session]

\* Where a handler can be, what it is about there, and what it will write.
Settling == {"confirm", "cancel"}
Ensuring == {"me", "checkout", "set_plan", "unlock"}
Writing == {"sync", "commit"}
SessionShape(sn) ==
    /\ sn.op \in Settling =>
          sn.pay \in Payments /\ sn.pc \in {"pay", "paysub"} \cup Writing
    /\ sn.pc \in {"pay", "paysub"} => sn.op \in Settling
    /\ sn.pc \in {"pending", "insert", "charge"} => sn.op = "checkout"
    /\ sn.op = "checkout" => sn.pay \in Payments
    /\ sn.pc \in {"ensure", "create", "refresh"} => sn.op \in Ensuring
    /\ sn.pc = "joincommit" => sn.org \in Plans
    /\ sn.pc \in Writing /\ sn.op \in Settling => sn.new.status # "pending"
    /\ sn.pc \in Writing /\ sn.op \in Ensuring \cup {"confirm"} =>
          sn.new.plan \in {Free, sn.want}
    /\ sn.pc \in Writing /\ sn.op \in Ensuring /\ sn.new.status = "expired" =>
          sn.new.plan = Free
    /\ sn.pc \in Writing /\ sn.op = "cancel" => sn.new.plan = sn.sub.plan
Shape == \A s \in Sessions : SessionShape(ses[s])

\* A checkout's payment is its own and not in the table; one that is being
\* settled is, or was.
PaymentsInHand ==
    /\ \A s \in Sessions : ses[s].op = "checkout" =>
          /\ payments[ses[s].pay].status = "none"
          /\ \A t \in Sessions \ {s} : ses[t].op = "checkout" => ses[t].pay # ses[s].pay
    /\ \A s \in Sessions : ses[s].op \in Settling => payments[ses[s].pay].status # "none"

\* Some open payment will take the subscription out of 'pending' with it:
\* whoever is settling it has seen that status, or is yet to look.
WillSettle(p) ==
    \A s \in Sessions :
        /\ ses[s].op \in Settling /\ ses[s].pc \in Writing
        /\ ses[s].pay = p /\ ses[s].sub.id = sub.id
        => ses[s].sub.status = "pending"
PendingWillSettle == sub.status = "pending" => \E p \in OpenPayments : WillSettle(p)

SettlementInv == TypeOK /\ Shape /\ PaymentsInHand /\ PendingWillSettle

\* A subscription that is 'pending' has a payment that can still be confirmed
\* or cancelled, however requests interleave: start_checkout sets the status
\* in the transaction that makes the payment visible, and whoever settles
\* that payment has read the status after it (subscription.py:244, 258-279).
PendingIsBacked == sub.status = "pending" => OpenPayments # {}

\* Business is the trial's plan; any other plan above Free, in the
\* subscription and in its copies, was paid for or set by an admin
\* (start_checkout: "Kifurushi HAKIBADILIKI hapa").
Deserved(plan) == plan \in granted \cup {Free, Business}
PlansAreDeserved ==
    /\ Deserved(sub.plan) /\ Deserved(orgPlan)
    /\ \A u \in Members : Deserved(userPlan[u])
JoinersDeserve == \A s \in Sessions : ses[s].pc = "joincommit" => Deserved(ses[s].org)

\* The plan changes as Entitlement says, checkout changes it never.
Promise == INSTANCE Entitlement WITH
    Orders <- Payments, Free <- Free, Business <- Business,
    NoPlan <- NotRead, NoOrder <- NoUser,
    plan <- IF sub = NoSub THEN NotRead ELSE sub.plan,
    orders <- [p \in Payments |-> IF payments[p].status \in PayStatus
                                  THEN payments[p].plan ELSE NoUser]
ImplementsPromise == Promise!Spec

\* A trial is given once: its end stays as it is or is cleared, and a row comes
\* back to 'trialing' at most from 'pending', while its end is kept.  What a
\* payment, an admin or its end has closed (trial_ends_at is NULL, or the status
\* 'active' or 'expired') stays closed, whatever a request read before
\* (crud/subscription.py: _apply_plan, _expire_trial_if_due).  It is left open
\* whether a cancelled payment puts the trial back (fail_payment's comment).
TrialIsGivenOnce ==
    [][sub'.id = sub.id =>
          /\ sub'.trialEnds \in {sub.trialEnds, NoTrial}
          /\ sub'.status = "trialing" /\ sub.status # "trialing" =>
                sub.status = "pending" /\ sub.trialEnds # NoTrial]_vars

\* A request that pays for, grants or lets lapse a plan, and writes before
\* anything it loaded has changed, leaves one plan in the subscription, the
\* organization and every member, those who joined meanwhile as well
\* (_sync_plan_to_org_and_users).
AsLoaded(s) == ses[s].sub = sub /\ ses[s].org = orgPlan /\ ses[s].usr = userPlan
CopiesFollow ==
    [][\A s \in Sessions :
          /\ ses[s].pc = "commit" /\ ses[s].op # "cancel" /\ AsLoaded(s)
          /\ ses'[s] # ses[s] /\ sub' # sub
          => orgPlan' = sub'.plan /\ \A u \in Members : userPlan'[u] = sub'.plan]_vars

\* A second payment is refused while one waits (subscriptions.py:117-122),
\* except to requests that looked before it was there: so there are never more
\* open payments than requests served at a time.
OpenWithinRequests == Cardinality(OpenPayments) <= Cardinality(Sessions)

\* Only a trial expires (models/subscription.py:55-56), or what the request
\* that expires it read as one whose end has passed: a subscription that waits
\* for its payment, was paid for or was granted is lost to no other request.
SawTrialEnd(s) ==
    /\ ses[s].pc = "commit" /\ ses[s].sub.id = sub.id
    /\ ses[s].sub.status = "trialing" /\ ses[s].sub.trialEnds \in 1..now
OnlyTrialsExpire ==
    [][sub'.id = sub.id /\ sub.status # "expired" /\ sub'.status = "expired" =>
          \E s \in Sessions : SawTrialEnd(s)]_vars

\* A subscription that was paid for or set by an admin does not expire: only
\* a trial that passes without a payment does (models/subscription.py:55-56).
PaidNeverExpires ==
    [][sub'.id = sub.id /\ sub.status = "active" => sub'.status # "expired"]_vars

\* Nobody is on Business after the trial unless it was paid for or set by an
\* admin (ensure_subscription: "mtu asiendelee kutumia Business").
ActiveIsPaid == sub.status = "active" => sub.plan \in granted \cup {Free}

\* Cancelling is for a payment that is pending (subscriptions.py:182).
OnlyOpenIsCancelled ==
    [][\A p \in Payments :
          payments'[p].status = "failed" /\ payments[p].status \in PayStatus =>
              payments[p].status \in Open \cup {"failed"}]_vars

\* After a wipe the subscription comes back on Free (org.py:43-44).
WipeLeadsToFree == sub.id > 1 => sub.plan \in granted \cup {Free}
=============================================================================
