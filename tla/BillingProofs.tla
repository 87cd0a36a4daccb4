--------------------------- MODULE BillingProofs ---------------------------
(***************************************************************************)
(* What holds of Billing for any number of requests in flight, payments,    *)
(* members and plans, and for every set of operations and gateway answers.  *)
(***************************************************************************)
EXTENDS Billing, FiniteSetTheorems, TLAPS

USE PlanAssumption, UserAssumption, OpsAssumption, GatewayAssumption,
    PaymentAssumption, BoundAssumption

\* The record of a session at rest is a session.
LEMMA IdleType == Idle \in Session
BY DEF Idle, Session, NoSub, SubRow, AllOps, Open, PayStatus, SubStatus, NoTrial, NotRead

LEMMA InitType == Init => TypeOK
BY IdleType DEF Init, TypeOK, SubRow, SubStatus, PayRow, NoPayRow, NoUser, PayStatus, Open

\* A flushed row, an expired one and a paid one are rows.
LEMMA RowTypes ==
    ASSUME NEW row \in SubRow, NEW old \in SubRow, NEW new \in SubRow, NEW plan \in Plans
    PROVE  /\ Flush(row, old, new) \in SubRow
           /\ Expired(row) \in SubRow
           /\ ApplyPlan(row, plan) \in SubRow
           /\ AfterFail(row) \in SubRow
           /\ [row EXCEPT !.status = "pending"] \in SubRow
           /\ NoSub \in SubRow
BY DEF SubRow, SubStatus, Flush, FlushAttr, Expired, ApplyPlan, AfterFail, NoTrial, NoSub

\* What the steps of a handler do to its session leaves it a session.
LEMMA SessionTypes ==
    ASSUME NEW sn \in Session, NEW row \in SubRow
    PROVE  /\ Resume(sn, row) \in Session
           /\ [sn EXCEPT !.pc = "create"] \in Session
           /\ [sn EXCEPT !.pc = "sync", !.sub = row, !.new = Expired(row)] \in Session
           /\ [sn EXCEPT !.pc = "insert"] \in Session
           /\ [sn EXCEPT !.pc = "charge"] \in Session
           /\ [sn EXCEPT !.pc = "refresh", !.sub = row] \in Session
           /\ [sn EXCEPT !.pc = "sync", !.sub = row, !.new = ApplyPlan(row, sn.want)] \in Session
           /\ [sn EXCEPT !.pc = "commit", !.sub = row, !.new = AfterFail(row)] \in Session
<1> DEFINE expired == Expired(row)
           paid == ApplyPlan(row, sn.want)
           failed == AfterFail(row)
<1>1. expired \in SubRow /\ paid \in SubRow /\ failed \in SubRow
  BY RowTypes DEF Session
<1> HIDE DEF expired, paid, failed
<1>2. [sn EXCEPT !.pc = "sync", !.sub = row, !.new = paid] \in Session
  BY <1>1 DEF Session
<1>3. [sn EXCEPT !.pc = "sync", !.sub = row, !.new = expired] \in Session
  BY <1>1 DEF Session
<1>4. [sn EXCEPT !.pc = "commit", !.sub = row, !.new = failed] \in Session
  BY <1>1 DEF Session
<1>5. [sn EXCEPT !.pc = "pending", !.sub = row] \in Session
  BY DEF Session
<1>6. Resume(sn, row) \in Session
  BY <1>2, <1>5, IdleType DEF Resume, paid
<1>7. /\ [sn EXCEPT !.pc = "create"] \in Session
      /\ [sn EXCEPT !.pc = "insert"] \in Session
      /\ [sn EXCEPT !.pc = "charge"] \in Session
      /\ [sn EXCEPT !.pc = "refresh", !.sub = row] \in Session
  BY DEF Session
<1> QED BY <1>2, <1>3, <1>4, <1>6, <1>7 DEF expired, paid, failed

LEMMA KeepOwnType == ASSUME NEW sn \in Session PROVE KeepOwn(sn) \in Session
<1> DEFINE usr == [u \in Users |-> IF u = sn.actor THEN Free ELSE NotRead]
<1>1. usr \in [Users -> Plans \cup {NotRead, NoUser}]
  BY PlanAssumption
<1>2. NoSub \in SubRow
  BY RowTypes, PlanAssumption DEF Session
<1> HIDE DEF usr
<1>3. [sn EXCEPT !.pc = "refresh", !.new = NoSub, !.org = Free, !.usr = usr] \in Session
  BY <1>1, <1>2, PlanAssumption DEF Session
<1> QED BY <1>3 DEF KeepOwn, usr

LEMMA LoadCopiesType ==
    ASSUME TypeOK, NEW sn \in Session PROVE LoadCopies(sn) \in Session
<1> DEFINE org == IF sn.org = NotRead THEN orgPlan ELSE sn.org
           usr == [u \in Users |-> IF sn.usr[u] = NotRead THEN userPlan[u] ELSE sn.usr[u]]
<1>1. org \in Plans \cup {NotRead}
  BY DEF TypeOK, Session
<1>2. usr \in [Users -> Plans \cup {NotRead, NoUser}]
  BY DEF TypeOK, Session
<1> HIDE DEF org, usr
<1>3. [sn EXCEPT !.pc = "commit", !.org = org, !.usr = usr] \in Session
  BY <1>1, <1>2 DEF Session
<1> QED BY <1>3 DEF LoadCopies, org, usr

\* A session that a step replaces by a session leaves all of them sessions.
LEMMA SesType ==
    ASSUME TypeOK, NEW s \in Sessions, NEW sn \in Session
    PROVE  [ses EXCEPT ![s] = sn] \in [Sessions -> Session]
BY DEF TypeOK

LEMMA TypeStep == TypeOK /\ Shape /\ [Next]_vars => TypeOK'
<1> SUFFICES ASSUME TypeOK, Shape, [Next]_vars PROVE TypeOK'
  OBVIOUS
<1>0. CASE UNCHANGED vars
  BY <1>0 DEF TypeOK, vars
<1>1. CASE Tick
  BY <1>1 DEF Tick, TypeOK
<1>2. ASSUME NEW s \in Sessions, Step(s) PROVE TypeOK'
  <2> DEFINE data == <<now, sub, lastSub, orgPlan, userPlan, payments, granted>>
  <2> USE DEF TypeOK
  <2>0. ASSUME UNCHANGED data, ses' \in [Sessions -> Session] PROVE TypeOK'
    BY <2>0
  <2>1. ASSUME NEW op \in AllOps, NEW u \in Users, NEW pay \in Payments \cup {"nopay"},
               NEW want \in Plans, NEW pc \in {"ensure", "pay"},
               Enter(s, op, u, pay, want, pc)
        PROVE  TypeOK'
    <3>1. userPlan[u] \in Plans \cup {NoUser}
      OBVIOUS
    <3>2. [Idle EXCEPT !.op = op, !.pc = pc, !.actor = u, !.pay = pay, !.want = want,
                       !.org = orgPlan, !.usr[u] = userPlan[u]] \in Session
      BY <3>1, IdleType DEF Session
    <3> QED BY <2>0, <2>1, <3>2, SesType DEF Enter
  <2>2. CASE BeginMe(s)
    BY <2>1, <2>2 DEF BeginMe, Members, AllOps
  <2>3. CASE BeginCheckout(s)
    BY <2>1, <2>3, UserAssumption DEF BeginCheckout, AllOps
  <2>4. CASE BeginCancel(s)
    BY <2>1, <2>4, UserAssumption DEF BeginCancel, AllOps
  <2>5. CASE BeginSetPlan(s)
    BY <2>1, <2>5 DEF BeginSetPlan, Members, AllOps
  <2>6. CASE BeginUnlock(s)
    BY <2>1, <2>6 DEF BeginUnlock, Members, AllOps
  <2>7. CASE BeginConfirm(s)
    <3>1. ASSUME NEW p \in Payments
          PROVE  [Idle EXCEPT !.op = "confirm", !.pc = "pay", !.pay = p] \in Session
      BY IdleType DEF Session, AllOps
    <3> QED BY ZenonT(90), <2>0, <2>7, <3>1, SesType DEF BeginConfirm
  <2>8. CASE EnsureRead(s)
    BY <2>0, <2>8, SessionTypes, SesType DEF EnsureRead
  <2>9. CASE EnsureCreate(s)
    <3>1. CASE sub = NoSub
      <4>1. NewTrial(lastSub + 1) \in SubRow
        BY DEF NewTrial, SubRow, SubStatus
      <4>2. sub' \in SubRow /\ lastSub' \in Nat
        BY <2>9, <3>1, <4>1 DEF EnsureCreate
      <4>3. [ses[s] EXCEPT !.pc = "refresh", !.sub = sub'] \in Session
        BY <4>2, SessionTypes
      <4>4. ses' \in [Sessions -> Session]
        BY <2>9, <3>1, <4>3, SesType DEF EnsureCreate
      <4> QED BY <2>9, <4>2, <4>4 DEF EnsureCreate
    <3>2. CASE sub # NoSub
      BY <2>0, <2>9, <3>2, IdleType, SesType DEF EnsureCreate
    <3> QED BY <3>1, <3>2
  <2>10. CASE Refresh(s)
    BY <2>0, <2>10, SessionTypes, IdleType, SesType DEF Refresh
  <2>11. Flush(sub, ses[s].sub, ses[s].new) \in SubRow
    <3>1. ses[s].sub \in SubRow /\ ses[s].new \in SubRow
      BY DEF Session
    <3> QED BY <3>1, RowTypes, PlanAssumption
  <2>12. WriteCopies(s) /\ ses[s].new.plan \in Plans =>
           orgPlan' \in Plans /\ userPlan' \in [Users -> Plans \cup {NoUser}]
    BY DEF WriteCopies, FlushAttr
  <2>13. ses[s].new.plan \in Plans /\ ses[s].want \in Plans
    BY DEF Session, SubRow
  <2>14. CASE ExpireCommit(s)
    <3>1. KeepOwn(ses[s]) \in Session
      BY KeepOwnType
    <3>2. ses' \in [Sessions -> Session]
      BY <2>14, <3>1, SesType DEF ExpireCommit
    <3> QED BY <2>14, <2>11, <2>12, <2>13, <3>2 DEF ExpireCommit, WriteSub
  <2>15. CASE SetPlanCommit(s)
    BY <2>15, <2>11, <2>12, <2>13, IdleType, SesType DEF SetPlanCommit, WriteSub
  <2>16. CASE CommitFails(s)
    BY <2>0, <2>16, IdleType, SesType DEF CommitFails
  <2>17. CASE Sync(s)
    <3>1. LoadCopies(ses[s]) \in Session
      BY LoadCopiesType
    <3> QED BY <2>0, <2>17, <3>1, SesType DEF Sync
  <2>18. CASE CheckPending(s)
    BY <2>0, <2>18, SessionTypes, IdleType, SesType DEF CheckPending
  <2>19. CASE InsertPayment(s)
    BY <2>0, <2>19, SessionTypes, IdleType, SesType DEF InsertPayment
  <2>20. CASE ChargeCommit(s)
    <3>1. PICK result \in GatewayResults :
            /\ payments' = [payments EXCEPT ![ses[s].pay] =
                              [status |-> result, plan |-> ses[s].want]]
            /\ sub' = Flush(sub, ses[s].sub, AfterCharge(ses[s].sub, ses[s].want, result))
            /\ granted' = IF result = "succeeded" THEN granted \cup {ses[s].want}
                                                  ELSE granted
      BY <2>20 DEF ChargeCommit
    <3>2. AfterCharge(ses[s].sub, ses[s].want, result) \in SubRow
      BY <2>13, RowTypes DEF AfterCharge, Session
    <3>3. sub' \in SubRow
      BY <2>13, <3>1, <3>2, RowTypes DEF Session
    <3>4. payments' \in [Payments -> PayRow]
      BY <2>13, <3>1, GatewayAssumption DEF PayRow
    <3> QED BY <2>13, <2>20, <3>1, <3>3, <3>4, IdleType, SesType DEF ChargeCommit
  <2>21. CASE ReadPayment(s)
    <3>1. ses[s].pay \in Payments /\ ses[s] \in Session
      BY <2>21 DEF ReadPayment, Shape, SessionShape
    <3>2. /\ payments[ses[s].pay].status \in PayStatus \cup {"none", "wiped"}
          /\ payments[ses[s].pay].plan \in Plans
      BY <3>1 DEF PayRow
    <3>3. [ses[s] EXCEPT !.pc = "paysub", !.paid = payments[ses[s].pay].status,
                         !.want = payments[ses[s].pay].plan] \in Session
      BY <3>1, <3>2 DEF Session
    <3> QED BY <2>0, <2>21, <3>3, IdleType, SesType DEF ReadPayment
  <2>22. CASE ReadPaymentSub(s)
    BY <2>0, <2>22, SessionTypes, SesType DEF ReadPaymentSub
  <2>23. ASSUME NEW status \in PayStatus, WritePayment(s, status), ses[s].pay \in Payments
         PROVE  payments' \in [Payments -> PayRow]
    BY <2>23 DEF WritePayment, FlushAttr, PayRow
  <2>24. CASE ConfirmCommit(s)
    <3>1. payments' \in [Payments -> PayRow]
      BY <2>23, <2>24 DEF ConfirmCommit, Shape, SessionShape, Settling, PayStatus
    <3> QED BY <2>24, <2>11, <2>12, <2>13, <3>1, IdleType, SesType DEF ConfirmCommit, WriteSub
  <2>25. CASE CancelCommit(s)
    <3>1. payments' \in [Payments -> PayRow]
      BY <2>23, <2>25 DEF CancelCommit, Shape, SessionShape, Settling, PayStatus
    <3> QED BY <2>25, <2>11, <3>1, IdleType, SesType DEF CancelCommit, WriteSub
  <2>26. CASE JoinInsert(s)
    <3>1. ASSUME NEW u \in Users
          PROVE  [Idle EXCEPT !.op = "join", !.pc = "joinread", !.actor = u,
                              !.usr[u] = Free] \in Session
      BY IdleType, PlanAssumption DEF Session, AllOps
    <3>2. PICK u \in Users \ Members : JoinInsert(s)!(u)
      BY <2>26 DEF JoinInsert
    <3>3. userPlan' \in [Users -> Plans \cup {NoUser}]
      BY <3>2, PlanAssumption
    <3>4. ses' \in [Sessions -> Session]
      BY <3>1, <3>2, SesType
    <3> QED BY <3>2, <3>3, <3>4
  <2>27. CASE JoinRead(s)
    <3>1. ses[s] \in Session
      OBVIOUS
    <3>2. [ses[s] EXCEPT !.pc = "joincommit", !.org = orgPlan] \in Session
      BY <3>1 DEF Session
    <3> QED BY <2>0, <2>27, <3>2, SesType DEF JoinRead
  <2>28. CASE JoinCommit(s)
    <3>1. ses[s].org \in Plans
      BY <2>28 DEF JoinCommit, Shape, SessionShape
    <3>2. userPlan' \in [Users -> Plans \cup {NoUser}]
      BY <2>28, <3>1 DEF JoinCommit, FlushAttr
    <3>3. ses' \in [Sessions -> Session]
      BY <2>28, IdleType, SesType DEF JoinCommit
    <3> QED BY <2>28, <3>2, <3>3 DEF JoinCommit
  <2>29. CASE Wipe(s)
    <3>1. payments' \in [Payments -> PayRow]
      BY <2>29 DEF Wipe, PayRow
    <3> QED BY <2>29, <3>1, RowTypes, PlanAssumption DEF Wipe
  <2>30. CASE Abort(s)
    BY <2>0, <2>30, IdleType, SesType DEF Abort
  <2> QED
    BY <1>2, <2>2, <2>3, <2>4, <2>5, <2>6, <2>7, <2>8, <2>9, <2>10, <2>14, <2>15, <2>16,
       <2>17, <2>18, <2>19, <2>20, <2>21, <2>22, <2>24, <2>25, <2>26, <2>27, <2>28,
       <2>29, <2>30
    DEF Step, Begin, Ensure, Checkout, Settle, Join
<1> QED BY <1>0, <1>1, <1>2 DEF Next

-----------------------------------------------------------------------------
(* Where handlers are: each step moves one session, and not where it may    *)
(* not be.                                                                  *)

LEMMA IdleShape == SessionShape(Idle)
BY DEF SessionShape, Idle, Settling, Ensuring, Writing

LEMMA ShapeStep == TypeOK /\ Shape /\ [Next]_vars => Shape'
<1> SUFFICES ASSUME TypeOK, Shape, [Next]_vars PROVE Shape'
  OBVIOUS
<1>0. CASE UNCHANGED vars
  BY <1>0 DEF Shape, vars
<1>1. CASE Tick
  BY <1>1 DEF Tick, Shape
<1>2. ASSUME NEW s \in Sessions, Step(s) PROVE Shape'
  <2> DEFINE sn == ses[s]
  <2>a. ASSUME NEW new, ses' = [ses EXCEPT ![s] = new], SessionShape(new) PROVE Shape'
    BY <2>a DEF Shape, TypeOK
  <2>b. SessionShape(sn) /\ sn \in Session
    BY DEF Shape, TypeOK
  <2>c. ASSUME ses' = [ses EXCEPT ![s] = Idle] PROVE Shape'
    BY <2>a, <2>c, IdleShape
  <2>d. ASSUME NEW row \in SubRow, sn.op \in Ensuring PROVE SessionShape(Resume(sn, row))
    <3>1. CASE sn.op = "checkout" /\ row.plan # sn.want
      <4>1. Resume(sn, row) = [sn EXCEPT !.pc = "pending", !.sub = row]
        BY <3>1 DEF Resume
      <4> QED BY <2>b, <3>1, <4>1 DEF SessionShape, Session, Settling, Ensuring, Writing
    <3>2. CASE sn.op \in {"set_plan", "unlock"}
      <4>1. Resume(sn, row) =
              [sn EXCEPT !.pc = "sync", !.sub = row, !.new = ApplyPlan(row, sn.want)]
        BY <3>2 DEF Resume
      <4> DEFINE paid == ApplyPlan(row, sn.want)
      <4>2. paid.status = "active" /\ paid.plan = sn.want
        BY DEF ApplyPlan, SubRow
      <4> HIDE DEF paid
      <4>3. SessionShape([sn EXCEPT !.pc = "sync", !.sub = row, !.new = paid])
        BY <2>b, <3>2, <4>2 DEF SessionShape, Session, Settling, Ensuring, Writing
      <4> QED BY <4>1, <4>3 DEF paid
    <3>3. CASE ~(sn.op = "checkout" /\ row.plan # sn.want) /\ sn.op \notin {"set_plan", "unlock"}
      BY <3>3, IdleShape DEF Resume
    <3> QED BY <3>1, <3>2, <3>3
  <2>1. ASSUME NEW op \in AllOps, NEW u, NEW pay \in Payments \cup {"nopay"}, NEW want,
               NEW pc, Enter(s, op, u, pay, want, pc),
               \/ pc = "ensure" /\ op \in Ensuring /\ (op = "checkout" => pay \in Payments)
               \/ pc = "pay" /\ op = "cancel" /\ pay \in Payments
        PROVE  Shape'
    <3>1. SessionShape([Idle EXCEPT !.op = op, !.pc = pc, !.actor = u, !.pay = pay,
                          !.want = want, !.org = orgPlan, !.usr[u] = userPlan[u]])
      BY <2>1 DEF SessionShape, Idle, Settling, Ensuring, Writing
    <3> QED BY <2>1, <2>a, <3>1 DEF Enter
  <2>2. CASE BeginMe(s)
    BY <2>1, <2>2 DEF BeginMe, AllOps, Ensuring
  <2>3. CASE BeginCheckout(s)
    BY <2>1, <2>3 DEF BeginCheckout, AllOps, Ensuring
  <2>4. CASE BeginCancel(s)
    BY <2>1, <2>4 DEF BeginCancel, AllOps
  <2>5. CASE BeginSetPlan(s)
    BY <2>1, <2>5 DEF BeginSetPlan, AllOps, Ensuring
  <2>6. CASE BeginUnlock(s)
    BY <2>1, <2>6 DEF BeginUnlock, AllOps, Ensuring
  <2>7. CASE BeginConfirm(s)
    <3>1. ASSUME NEW p \in Payments
          PROVE  SessionShape([Idle EXCEPT !.op = "confirm", !.pc = "pay", !.pay = p])
      BY DEF SessionShape, Idle, Settling, Ensuring, Writing
    <3> QED BY <2>7, <2>a, <3>1 DEF BeginConfirm
  <2>8. CASE EnsureRead(s)
    <3>1. sn.op \in Ensuring
      BY <2>8, <2>b DEF EnsureRead, SessionShape
    <3>2. SessionShape([sn EXCEPT !.pc = "create"])
      BY <2>b, <3>1 DEF SessionShape, Session, Settling, Ensuring, Writing
    <3>3. SessionShape([sn EXCEPT !.pc = "sync", !.sub = sub, !.new = Expired(sub)])
      BY <2>b, <3>1 DEF SessionShape, Session, Settling, Ensuring, Writing, Expired, TypeOK, SubRow
    <3> QED BY ZenonT(90), <2>8, <2>a, <2>d, <3>1, <3>2, <3>3 DEF EnsureRead, TypeOK
  <2>9. CASE EnsureCreate(s)
    <3>1. sn.op \in Ensuring
      BY <2>9, <2>b DEF EnsureCreate, SessionShape
    <3>2. SessionShape([sn EXCEPT !.pc = "refresh", !.sub = sub'])
      BY <2>b, <3>1 DEF SessionShape, Session, Settling, Ensuring, Writing
    <3> QED BY <2>9, <2>a, <2>c, <3>2 DEF EnsureCreate
  <2>10. CASE Refresh(s)
    <3>1. sn.op \in Ensuring
      BY <2>10, <2>b DEF Refresh, SessionShape
    <3> QED BY <2>10, <2>a, <2>c, <2>d, <3>1 DEF Refresh, TypeOK
  <2>11. CASE ExpireCommit(s)
    <3>1. SessionShape(KeepOwn(sn))
      BY <2>11, <2>b DEF ExpireCommit, KeepOwn, SessionShape, Session, Settling, Ensuring, Writing
    <3> QED BY <2>11, <2>a, <3>1 DEF ExpireCommit
  <2>12. CASE Sync(s)
    <3>1. SessionShape(LoadCopies(sn))
      BY <2>12, <2>b DEF Sync, LoadCopies, SessionShape, Session, Settling, Ensuring, Writing
    <3> QED BY <2>12, <2>a, <3>1 DEF Sync
  <2>13. CASE CheckPending(s)
    <3>1. SessionShape([sn EXCEPT !.pc = "insert"])
      BY <2>13, <2>b DEF CheckPending, SessionShape, Session, Settling, Ensuring, Writing
    <3> QED BY <2>13, <2>a, <2>c, <3>1 DEF CheckPending
  <2>14. CASE InsertPayment(s)
    <3>1. SessionShape([sn EXCEPT !.pc = "charge"])
      BY <2>14, <2>b DEF InsertPayment, SessionShape, Session, Settling, Ensuring, Writing
    <3> QED BY <2>14, <2>a, <2>c, <3>1 DEF InsertPayment
  <2>15. CASE ReadPayment(s)
    <3>1. SessionShape([sn EXCEPT !.pc = "paysub", !.paid = payments[sn.pay].status,
                                  !.want = payments[sn.pay].plan])
      BY <2>15, <2>b DEF ReadPayment, SessionShape, Session, Settling, Ensuring, Writing
    <3> QED BY <2>15, <2>a, <2>c, <3>1 DEF ReadPayment
  <2>16. CASE ReadPaymentSub(s)
    <3>1. sn.op \in Settling /\ sn.pay \in Payments
      BY <2>16, <2>b DEF ReadPaymentSub, SessionShape
    <3> DEFINE paid == ApplyPlan(sub, sn.want)
               failed == AfterFail(sub)
    <3>a. paid.status = "active" /\ paid.plan = sn.want
      BY DEF ApplyPlan, TypeOK, SubRow
    <3>b. failed.status # "pending" /\ failed.plan = sub.plan
      BY DEF AfterFail, TypeOK, SubRow
    <3>c. sub = NoSub => failed.plan = Free
      BY <3>b DEF NoSub
    <3> HIDE DEF paid, failed
    <3>2. sn.op = "confirm" => SessionShape([sn EXCEPT !.pc = "sync", !.sub = sub, !.new = paid])
      BY <2>b, <3>1, <3>a DEF SessionShape, Session, Settling, Ensuring, Writing
    <3>3. sub = NoSub \/ sn.op # "confirm" =>
            SessionShape([sn EXCEPT !.pc = "commit", !.sub = sub, !.new = failed])
      BY <2>b, <3>1, <3>b, <3>c DEF SessionShape, Session, Settling, Ensuring, Writing
    <3> QED BY <2>16, <2>a, <3>2, <3>3 DEF ReadPaymentSub, paid, failed
  <2>17. CASE JoinInsert(s)
    <3>1. ASSUME NEW u
          PROVE  SessionShape([Idle EXCEPT !.op = "join", !.pc = "joinread", !.actor = u,
                                           !.usr[u] = Free])
      BY DEF SessionShape, Idle, Settling, Ensuring, Writing
    <3> QED BY <2>17, <2>a, <3>1 DEF JoinInsert
  <2>18. CASE JoinRead(s)
    <3>1. SessionShape([sn EXCEPT !.pc = "joincommit", !.org = orgPlan])
      BY <2>18, <2>b DEF JoinRead, SessionShape, Session, Settling, Ensuring, Writing, TypeOK
    <3> QED BY <2>18, <2>a, <3>1 DEF JoinRead
  <2>19. CASE Wipe(s)
    BY <2>19 DEF Wipe, Shape
  <2>20. CASE SetPlanCommit(s) \/ CommitFails(s) \/ ChargeCommit(s) \/ ConfirmCommit(s)
              \/ CancelCommit(s) \/ JoinCommit(s) \/ Abort(s)
    BY <2>20, <2>c DEF SetPlanCommit, CommitFails, ChargeCommit, ConfirmCommit,
                       CancelCommit, JoinCommit, Abort
  <2> QED
    BY <1>2, <2>2, <2>3, <2>4, <2>5, <2>6, <2>7, <2>8, <2>9, <2>10, <2>11, <2>12, <2>13,
       <2>14, <2>15, <2>16, <2>17, <2>18, <2>19, <2>20
    DEF Step, Begin, Ensure, Checkout, Settle, Join
<1> QED BY <1>0, <1>1, <1>2 DEF Next

-----------------------------------------------------------------------------
(* Payments in hand, and the status 'pending'.                              *)

\* Only a checkout's own row appears in `payments`, and no row becomes "none".
LEMMA PaymentsStep ==
    TypeOK /\ Shape /\ PaymentsInHand /\ [Next]_vars => PaymentsInHand'
<1> SUFFICES ASSUME TypeOK, Shape, PaymentsInHand, [Next]_vars PROVE PaymentsInHand'
  OBVIOUS
<1>0. CASE UNCHANGED vars
  BY <1>0 DEF PaymentsInHand, vars
<1>1. CASE Tick
  BY <1>1 DEF Tick, PaymentsInHand
<1>2. ASSUME NEW s \in Sessions, Step(s) PROVE PaymentsInHand'
  <2> DEFINE sn == ses[s]
  <2>a. /\ sn \in Session /\ SessionShape(sn)
        /\ ses \in [Sessions -> Session] /\ payments \in [Payments -> PayRow]
    BY DEF Shape, TypeOK
  <2>b. ASSUME NEW new, ses' = [ses EXCEPT ![s] = new], payments' = payments,
               new.op = sn.op /\ new.pay = sn.pay
        PROVE  PaymentsInHand'
    BY <2>a, <2>b DEF PaymentsInHand
  <2>c. ASSUME NEW new, ses' = [ses EXCEPT ![s] = new], payments' = payments,
               new.op \notin Settling \cup {"checkout"}
        PROVE  PaymentsInHand'
    BY <2>a, <2>c DEF PaymentsInHand
  <2>d. ASSUME ses' = [ses EXCEPT ![s] = Idle], payments' = payments PROVE PaymentsInHand'
    BY <2>c, <2>d DEF Idle, Settling
  <2>e. ASSUME NEW row, ses' = [ses EXCEPT ![s] = Resume(sn, row)], payments' = payments
        PROVE  PaymentsInHand'
    <3>1. CASE Resume(sn, row) = Idle
      BY <2>d, <2>e, <3>1
    <3>2. CASE Resume(sn, row) # Idle
      <4>1. Resume(sn, row).op = sn.op /\ Resume(sn, row).pay = sn.pay
        BY <2>a, <3>2 DEF Resume, Session
      <4> QED BY <2>b, <2>e, <4>1
    <3> QED BY <3>1, <3>2
  <2>1. CASE BeginMe(s) \/ BeginSetPlan(s) \/ BeginUnlock(s)
    BY ZenonT(90), <2>1, <2>c DEF BeginMe, BeginSetPlan, BeginUnlock, Enter, Idle, Settling
  <2>2. CASE BeginCheckout(s)
    <3>1. PICK p \in Payments, plan \in Plans \ {Free} :
            /\ payments[p].status = "none"
            /\ \A t \in Sessions : ses[t].pay # p
            /\ Enter(s, "checkout", Owner, p, plan, "ensure")
      BY <2>2 DEF BeginCheckout
    <3>2. /\ ses'[s].op = "checkout" /\ ses'[s].pay = p
          /\ \A t \in Sessions \ {s} : ses'[t] = ses[t]
          /\ payments' = payments
      BY <2>a, <3>1 DEF Enter, Idle
    <3> QED BY <3>1, <3>2 DEF PaymentsInHand, Settling
  <2>3. CASE BeginCancel(s) \/ BeginConfirm(s)
    <3>1. PICK p \in Payments :
            /\ payments[p].status \in PayStatus
            /\ payments' = payments
            /\ ses'[s].op \in Settling /\ ses'[s].pay = p
            /\ \A t \in Sessions \ {s} : ses'[t] = ses[t]
      <4>1. CASE BeginCancel(s)
        BY <2>a, <4>1 DEF BeginCancel, Enter, Idle, Settling
      <4>2. CASE BeginConfirm(s)
        BY <2>a, <4>2 DEF BeginConfirm, Idle, Settling
      <4> QED BY <2>3, <4>1, <4>2
    <3> QED BY <3>1 DEF PaymentsInHand, Settling, PayStatus, Open
  <2>4. CASE EnsureRead(s)
    <3>1. /\ [sn EXCEPT !.pc = "create"].op = sn.op
          /\ [sn EXCEPT !.pc = "create"].pay = sn.pay
          /\ [sn EXCEPT !.pc = "sync", !.sub = sub, !.new = Expired(sub)].op = sn.op
          /\ [sn EXCEPT !.pc = "sync", !.sub = sub, !.new = Expired(sub)].pay = sn.pay
      BY <2>a DEF Session
    <3> QED BY <2>4, <2>b, <2>e, <3>1 DEF EnsureRead
  <2>5. CASE EnsureCreate(s)
    <3>1. /\ [sn EXCEPT !.pc = "refresh", !.sub = sub'].op = sn.op
          /\ [sn EXCEPT !.pc = "refresh", !.sub = sub'].pay = sn.pay
      BY <2>a DEF Session
    <3> QED BY <2>5, <2>b, <2>d, <3>1 DEF EnsureCreate
  <2>6. CASE Refresh(s)
    BY <2>6, <2>d, <2>e DEF Refresh
  <2>7. CASE ExpireCommit(s)
    BY <2>7, <2>a, <2>b DEF ExpireCommit, KeepOwn, Session
  <2>8. CASE Sync(s)
    BY <2>8, <2>a, <2>b DEF Sync, LoadCopies, Session
  <2>9. CASE CheckPending(s)
    BY <2>9, <2>a, <2>b, <2>d DEF CheckPending, Session
  <2>10. CASE InsertPayment(s)
    BY <2>10, <2>a, <2>b, <2>d DEF InsertPayment, Session
  <2>11. CASE ReadPayment(s)
    BY <2>11, <2>a, <2>b, <2>d DEF ReadPayment, Session
  <2>12. CASE ReadPaymentSub(s)
    BY <2>12, <2>a, <2>b DEF ReadPaymentSub, Session
  <2>13. CASE JoinInsert(s)
    BY <2>13, <2>c DEF JoinInsert, Idle, Settling
  <2>14. CASE JoinRead(s)
    BY <2>14, <2>a, <2>b DEF JoinRead, Session
  <2>15. CASE SetPlanCommit(s) \/ CommitFails(s) \/ JoinCommit(s) \/ Abort(s)
    BY <2>15, <2>d DEF SetPlanCommit, CommitFails, JoinCommit, Abort
  <2>16. CASE Wipe(s)
    <3>1. ses' = ses /\ \A p \in Payments : payments'[p].status = "none" <=> payments[p].status = "none"
      BY <2>16, <2>a DEF Wipe, PayRow
    <3>2. \A t \in Sessions : ses[t].op \in Settling \cup {"checkout"} => ses[t].pay \in Payments
      BY DEF Shape, SessionShape
    <3> QED BY <3>1, <3>2 DEF PaymentsInHand
  <2>17. CASE ChargeCommit(s)
    <3>1. sn.op = "checkout" /\ sn.pay \in Payments
      BY <2>17, <2>a DEF ChargeCommit, SessionShape
    <3>2. /\ \A p \in Payments \ {sn.pay} : payments'[p] = payments[p]
          /\ payments'[sn.pay].status \in PayStatus
          /\ ses'[s] = Idle /\ \A t \in Sessions \ {s} : ses'[t] = ses[t]
      BY <2>17, <2>a, <3>1, GatewayAssumption DEF ChargeCommit
    <3>3. \A t \in Sessions : ses[t].op \in Settling \cup {"checkout"} => ses[t].pay \in Payments
      BY DEF Shape, SessionShape
    <3> QED BY <3>1, <3>2, <3>3 DEF PaymentsInHand, Idle, Settling, PayStatus, Open
  <2>18. CASE ConfirmCommit(s) \/ CancelCommit(s)
    <3>1. sn.op \in Settling /\ sn.pay \in Payments
      BY <2>18, <2>a DEF ConfirmCommit, CancelCommit, SessionShape, Settling
    <3>2. /\ \A p \in Payments \ {sn.pay} : payments'[p] = payments[p]
          /\ payments[sn.pay].status # "none" => payments'[sn.pay].status # "none"
          /\ ses'[s] = Idle /\ \A t \in Sessions \ {s} : ses'[t] = ses[t]
      BY <2>18, <2>a, <3>1 DEF ConfirmCommit, CancelCommit, WritePayment, FlushAttr, PayRow
    <3>3. \A t \in Sessions : ses[t].op \in Settling \cup {"checkout"} => ses[t].pay \in Payments
      BY DEF Shape, SessionShape
    <3> QED BY <3>1, <3>2, <3>3 DEF PaymentsInHand, Idle, Settling
  <2> QED
    BY <1>2, <2>1, <2>2, <2>3, <2>4, <2>5, <2>6, <2>7, <2>8, <2>9, <2>10, <2>11, <2>12,
       <2>13, <2>14, <2>15, <2>16, <2>17, <2>18
    DEF Step, Begin, Ensure, Checkout, Settle, Join
<1> QED BY <1>0, <1>1, <1>2 DEF Next

\* The status 'pending' always has an open payment that will end it.  A step
\* that writes the status either writes it with its own payment, or leaves
\* 'pending' only when it settles none that could be the last.
LEMMA PendingStep ==
    TypeOK /\ Shape /\ PaymentsInHand /\ PendingWillSettle /\ [Next]_vars
        => PendingWillSettle'
<1> SUFFICES ASSUME TypeOK, Shape, PaymentsInHand, PendingWillSettle, [Next]_vars,
                    (sub.status = "pending")'
             PROVE  (\E p \in OpenPayments : WillSettle(p))'
  BY DEF PendingWillSettle
<1>0. CASE UNCHANGED vars
  BY <1>0 DEF PendingWillSettle, OpenPayments, WillSettle, vars
<1>1. CASE Tick
  BY <1>1 DEF Tick, PendingWillSettle, OpenPayments, WillSettle
<1>2. ASSUME NEW s \in Sessions, Step(s) PROVE (\E p \in OpenPayments : WillSettle(p))'
  <2> DEFINE sn == ses[s]
  <2>a. /\ sn \in Session /\ SessionShape(sn)
        /\ ses \in [Sessions -> Session] /\ payments \in [Payments -> PayRow] /\ sub \in SubRow
    BY DEF Shape, TypeOK
  \* A step that leaves the row and the payments, and does not begin to write.
  <2>b. ASSUME NEW new, ses' = [ses EXCEPT ![s] = new],
               UNCHANGED <<sub, payments>>,
               \/ new.op \notin Settling \/ new.pc \notin Writing
               \/ new.sub.status = "pending"
               \/ sn.op \in Settling /\ sn.pc \in Writing /\ new.pay = sn.pay /\ new.sub = sn.sub
        PROVE  (\E p \in OpenPayments : WillSettle(p))'
    <3>1. PICK p \in OpenPayments : WillSettle(p)
      BY <2>b DEF PendingWillSettle
    <3>2. WillSettle(p)'
      BY <2>a, <2>b, <3>1 DEF WillSettle
    <3>3. p \in OpenPayments'
      BY <2>b, <3>1 DEF OpenPayments
    <3> QED BY <3>2, <3>3
  <2>c. ASSUME ses' = [ses EXCEPT ![s] = Idle], UNCHANGED <<sub, payments>>
        PROVE  (\E p \in OpenPayments : WillSettle(p))'
    BY <2>b, <2>c DEF Idle, Settling
  <2>d. ASSUME NEW row, ses' = [ses EXCEPT ![s] = Resume(sn, row)], sn.op \notin Settling,
               UNCHANGED <<sub, payments>>
        PROVE  (\E p \in OpenPayments : WillSettle(p))'
    <3>1. Resume(sn, row) = Idle \/ Resume(sn, row).op = sn.op
      BY <2>a DEF Resume, Session
    <3> QED BY <2>b, <2>c, <2>d, <3>1
  \* A step that may write the row but cannot have made it 'pending'.
  <2>e. ASSUME NEW new, ses' = [ses EXCEPT ![s] = new], sub'.id = sub.id,
               sub.status = "pending", new.op \notin Settling \/ new.pc \notin Writing,
               \A p \in OpenPayments : WillSettle(p) => p \in OpenPayments'
        PROVE  (\E p \in OpenPayments : WillSettle(p))'
    <3>1. PICK p \in OpenPayments : WillSettle(p)
      BY <2>e DEF PendingWillSettle
    <3>2. WillSettle(p)'
      BY <2>a, <2>e, <3>1 DEF WillSettle
    <3> QED BY <2>e, <3>1, <3>2
  <2>f. ASSUME WriteSub(s)
        PROVE  /\ sub'.id = sub.id
               /\ sn.new.status # "pending" =>
                     sub.status = "pending" /\ sn.new.status = sn.sub.status
    BY <2>a, <2>f DEF WriteSub, Flush, FlushAttr, SubRow
  <2>1. CASE BeginMe(s) \/ BeginSetPlan(s) \/ BeginUnlock(s) \/ BeginCheckout(s) \/ BeginCancel(s)
    <3>1. ASSUME NEW op, NEW u, NEW pay, NEW want, NEW pc \in {"ensure", "pay"},
                 Enter(s, op, u, pay, want, pc)
          PROVE  (\E p \in OpenPayments : WillSettle(p))'
      <4>1. [Idle EXCEPT !.op = op, !.pc = pc, !.actor = u, !.pay = pay, !.want = want,
                         !.org = orgPlan, !.usr[u] = userPlan[u]].pc \notin Writing
        BY DEF Idle, Writing
      <4> QED BY <2>b, <3>1, <4>1 DEF Enter
    <3>2. CASE BeginMe(s)
      BY <3>1, <3>2 DEF BeginMe
    <3>3. CASE BeginSetPlan(s)
      BY <3>1, <3>3 DEF BeginSetPlan
    <3>4. CASE BeginUnlock(s)
      BY <3>1, <3>4 DEF BeginUnlock
    <3>5. CASE BeginCheckout(s)
      BY <3>1, <3>5 DEF BeginCheckout
    <3>6. CASE BeginCancel(s)
      BY <3>1, <3>6 DEF BeginCancel
    <3> QED BY <2>1, <3>2, <3>3, <3>4, <3>5, <3>6
  <2>2. CASE BeginConfirm(s)
    BY <2>2, <2>b DEF BeginConfirm, Idle, Writing
  <2>3. CASE EnsureRead(s)
    <3>1. sn.op \notin Settling
      BY <2>3, <2>a DEF EnsureRead, SessionShape, Ensuring, Settling
    <3>2. /\ [sn EXCEPT !.pc = "create"].op = sn.op
          /\ [sn EXCEPT !.pc = "sync", !.sub = sub, !.new = Expired(sub)].op = sn.op
      BY <2>a DEF Session
    <3> QED BY <2>3, <2>b, <2>d, <3>1, <3>2 DEF EnsureRead
  <2>4. CASE EnsureCreate(s)
    <3>1. sub = NoSub => sub'.status = "trialing"
      BY <2>4 DEF EnsureCreate, NewTrial
    <3> QED BY <2>4, <2>c, <3>1 DEF EnsureCreate
  <2>5. CASE Refresh(s)
    <3>1. sn.op \notin Settling
      BY <2>5, <2>a DEF Refresh, SessionShape, Ensuring, Settling
    <3> QED BY <2>5, <2>c, <2>d, <3>1 DEF Refresh
  <2>6. CASE ExpireCommit(s)
    <3>1. KeepOwn(sn).pc \notin Writing
      BY <2>a DEF KeepOwn, Session, Writing
    <3> QED BY <2>6, <2>e, <2>f, <3>1 DEF ExpireCommit, OpenPayments
  <2>7. CASE Sync(s)
    <3>1. /\ LoadCopies(sn).op = sn.op /\ LoadCopies(sn).pay = sn.pay
          /\ LoadCopies(sn).sub = sn.sub /\ sn.pc \in Writing
      BY <2>7, <2>a DEF Sync, LoadCopies, Session, Writing
    <3> QED BY <2>7, <2>b, <3>1 DEF Sync
  <2>8. CASE SetPlanCommit(s)
    BY <2>8, <2>e, <2>f DEF SetPlanCommit, OpenPayments, Idle, Settling
  <2>9. CASE CommitFails(s) \/ JoinCommit(s) \/ Abort(s)
    BY <2>9, <2>c DEF CommitFails, JoinCommit, Abort
  <2>10. CASE CheckPending(s) \/ InsertPayment(s) \/ ReadPayment(s) \/ JoinRead(s)
    BY <2>10, <2>a, <2>b, <2>c DEF CheckPending, InsertPayment, ReadPayment, JoinRead,
                                   Session, Writing
  <2>11. CASE ReadPaymentSub(s)
    <3>1. sub.status = "pending"
      BY <2>11 DEF ReadPaymentSub
    <3> QED BY <2>11, <2>a, <2>b, <3>1 DEF ReadPaymentSub, Session
  <2>12. CASE JoinInsert(s)
    BY <2>12, <2>b DEF JoinInsert, Idle, Writing
  <2>13. CASE Wipe(s)
    BY <2>13 DEF Wipe, NoSub
  <2>14. CASE ChargeCommit(s)
    <3>1. sn.op = "checkout" /\ sn.pay \in Payments
      BY <2>14, <2>a DEF ChargeCommit, SessionShape
    <3>2. payments[sn.pay].status = "none"
      BY <3>1 DEF PaymentsInHand
    <3>3. PICK result \in GatewayResults :
            /\ payments' = [payments EXCEPT ![sn.pay] = [status |-> result, plan |-> sn.want]]
            /\ sub' = Flush(sub, sn.sub, AfterCharge(sn.sub, sn.want, result))
            /\ ses' = [ses EXCEPT ![s] = Idle]
      BY <2>14 DEF ChargeCommit
    <3>4. sub'.id = sub.id
      BY <2>a, <3>3 DEF Flush, SubRow
    <3>5. CASE sub.status = "pending"
      <4>1. \A p \in OpenPayments : p \in OpenPayments'
        BY <2>a, <3>2, <3>3 DEF OpenPayments, Open
      <4> QED BY <2>e, <3>3, <3>4, <3>5, <4>1 DEF Idle, Settling
    <3>6. CASE sub.status # "pending"
      <4>1. AfterCharge(sn.sub, sn.want, result).status = "pending" /\ sn.sub.status # "pending"
        BY <2>a, <3>3, <3>6 DEF Flush, FlushAttr, SubRow
      <4>2. result \in Open
        <5>1. ApplyPlan(sn.sub, sn.want).status = "active"
          BY <2>a DEF ApplyPlan, Session, SubRow
        <5> QED BY <4>1, <5>1 DEF AfterCharge
      <4>3. PICK p \in Payments : p = sn.pay
        BY <3>1
      <4>4. p \in OpenPayments'
        BY <2>a, <3>3, <4>2, <4>3 DEF OpenPayments
      <4>5. \A t \in Sessions \ {s} : ses'[t] = ses[t] /\ (ses[t].op \in Settling => ses[t].pay # p)
        BY <2>a, <3>2, <3>3, <4>3 DEF PaymentsInHand
      <4>6. ses'[s].op \notin Settling
        BY <2>a, <3>3 DEF Idle, Settling
      <4>7. WillSettle(p)'
        BY <4>5, <4>6 DEF WillSettle
      <4> QED BY <4>4, <4>7
    <3> QED BY <3>5, <3>6
  <2>15. CASE ConfirmCommit(s) \/ CancelCommit(s)
    <3>1. /\ sn.op \in Settling /\ sn.pay \in Payments /\ sn.pc \in Writing
          /\ sn.new.status # "pending"
      BY <2>15, <2>a DEF ConfirmCommit, CancelCommit, SessionShape, Settling, Writing
    <3>2. WriteSub(s) /\ ~Gone(s) /\ ses' = [ses EXCEPT ![s] = Idle]
      BY <2>15 DEF ConfirmCommit, CancelCommit
    <3>3. sub.status = "pending" /\ sn.sub.status # "pending" /\ sub'.id = sub.id
      BY <2>f, <3>1, <3>2
    <3>4. ~WillSettle(sn.pay)
      BY <3>1, <3>2, <3>3 DEF WillSettle, Gone
    <3>5. \A p \in Payments \ {sn.pay} : payments'[p] = payments[p]
      BY <2>15, <2>a DEF ConfirmCommit, CancelCommit, WritePayment
    <3>6. \A p \in OpenPayments : WillSettle(p) => p \in OpenPayments'
      BY <3>4, <3>5 DEF OpenPayments
    <3> QED BY <2>e, <3>2, <3>3, <3>6 DEF Idle, Settling
  <2> QED
    BY <1>2, <2>1, <2>2, <2>3, <2>4, <2>5, <2>6, <2>7, <2>8, <2>9, <2>10, <2>11, <2>12,
       <2>13, <2>14, <2>15
    DEF Step, Begin, Ensure, Checkout, Settle, Join
<1> QED BY <1>0, <1>1, <1>2 DEF Next

\* A 'pending' subscription has a payment that can still be confirmed or
\* cancelled, whatever the interleaving of checkouts, confirmations,
\* cancellations, expiries, grants and wipes.
THEOREM PendingIsBackedThm == Spec => []PendingIsBacked
<1>1. Init => SettlementInv
  <2>1. Init => TypeOK
    BY InitType
  <2>2. Init => Shape
    BY IdleShape DEF Init, Shape
  <2>3. Init => PaymentsInHand
    BY DEF Init, PaymentsInHand, Idle, Settling
  <2>4. Init => PendingWillSettle
    BY DEF Init, PendingWillSettle
  <2> QED BY <2>1, <2>2, <2>3, <2>4 DEF SettlementInv
<1>2. SettlementInv /\ [Next]_vars => SettlementInv'
  BY TypeStep, ShapeStep, PaymentsStep, PendingStep DEF SettlementInv
<1>3. SettlementInv => PendingIsBacked
  BY DEF SettlementInv, PendingWillSettle, PendingIsBacked
<1> QED BY <1>1, <1>2, <1>3, PTL DEF Spec

\* Every variable keeps its type.
THEOREM TypeCorrect == Spec => []TypeOK
<1>1. Init => TypeOK /\ Shape
  BY InitType, IdleShape DEF Init, Shape
<1>2. TypeOK /\ Shape /\ [Next]_vars => TypeOK' /\ Shape'
  BY TypeStep, ShapeStep
<1> QED BY <1>1, <1>2, PTL DEF Spec

-----------------------------------------------------------------------------
(* What a plan above Free rests on.                                         *)

LEMMA DeservedStep ==
    TypeOK /\ Shape /\ PlansAreDeserved /\ JoinersDeserve /\ [Next]_vars
        => PlansAreDeserved' /\ JoinersDeserve'
<1> SUFFICES ASSUME TypeOK, Shape, PlansAreDeserved, JoinersDeserve, [Next]_vars
             PROVE  PlansAreDeserved' /\ JoinersDeserve'
  OBVIOUS
<1>0. CASE UNCHANGED vars
  BY <1>0 DEF PlansAreDeserved, JoinersDeserve, Deserved, Members, vars
<1>1. CASE Tick
  BY <1>1 DEF Tick, PlansAreDeserved, JoinersDeserve, Deserved, Members
<1>2. ASSUME NEW s \in Sessions, Step(s) PROVE PlansAreDeserved' /\ JoinersDeserve'
  <2> DEFINE sn == ses[s]
  <2>a. /\ sn \in Session /\ SessionShape(sn)
        /\ ses \in [Sessions -> Session] /\ userPlan \in [Users -> Plans \cup {NoUser}]
        /\ sub \in SubRow /\ sn.sub \in SubRow /\ sn.new \in SubRow
    BY DEF Shape, TypeOK, Session
  \* What is known of the rows and of the joiners before, after more is granted.
  <2>b. ASSUME granted \subseteq granted',
               Deserved(sub.plan)', Deserved(orgPlan)',
               \A u \in Members' : (userPlan'[u] = userPlan[u] /\ u \in Members) \/ Deserved(userPlan[u])',
               \A t \in Sessions : ses'[t].pc = "joincommit" => ses'[t] = ses[t] \/ Deserved(ses[t].org)'
        PROVE  PlansAreDeserved' /\ JoinersDeserve'
    BY <2>b DEF PlansAreDeserved, JoinersDeserve, Deserved
  <2>c. ASSUME NEW new, ses' = [ses EXCEPT ![s] = new],
               new.pc # "joincommit" \/ Deserved(new.org),
               UNCHANGED <<orgPlan, userPlan, granted>>, sub'.plan \in {sub.plan, Free, Business}
        PROVE  PlansAreDeserved' /\ JoinersDeserve'
    BY <2>a, <2>c DEF PlansAreDeserved, JoinersDeserve, Deserved, Members
  <2>d. ASSUME NEW new, ses' = [ses EXCEPT ![s] = new], new.pc # "joincommit",
               WriteSub(s), WriteCopies(s), granted \subseteq granted',
               sn.new.plan \in granted' \cup {Free}
        PROVE  PlansAreDeserved' /\ JoinersDeserve'
    <3>1. sub'.plan \in {sub.plan, sn.new.plan}
      BY <2>a, <2>d DEF WriteSub, Flush, FlushAttr, SubRow
    <3>2. orgPlan' \in {orgPlan, sn.new.plan}
      BY <2>d DEF WriteCopies, FlushAttr
    <3>3. \A u \in Users : userPlan'[u] \in {userPlan[u], sn.new.plan}
      BY <2>d DEF WriteCopies, FlushAttr
    <3>4. PlansAreDeserved'
      BY <2>d, <3>1, <3>2, <3>3 DEF PlansAreDeserved, Deserved, Members
    <3>5. JoinersDeserve'
      BY <2>a, <2>d DEF JoinersDeserve, Deserved
    <3> QED BY <3>4, <3>5
  <2>e. Idle.pc # "joincommit"
    BY DEF Idle
  <2>f. ASSUME NEW row PROVE Resume(sn, row).pc # "joincommit"
    BY <2>a, <2>e DEF Resume, Session
  <2>1. CASE BeginMe(s) \/ BeginSetPlan(s) \/ BeginUnlock(s) \/ BeginCheckout(s) \/ BeginCancel(s)
    <3>1. ASSUME NEW op, NEW u, NEW pay, NEW want, NEW pc \in {"ensure", "pay"},
                 Enter(s, op, u, pay, want, pc)
          PROVE  PlansAreDeserved' /\ JoinersDeserve'
      <4>1. [Idle EXCEPT !.op = op, !.pc = pc, !.actor = u, !.pay = pay, !.want = want,
                         !.org = orgPlan, !.usr[u] = userPlan[u]].pc # "joincommit"
        BY DEF Idle
      <4> QED BY <2>c, <3>1, <4>1 DEF Enter
    <3>2. CASE BeginMe(s)
      BY <3>1, <3>2 DEF BeginMe
    <3>3. CASE BeginSetPlan(s)
      BY <3>1, <3>3 DEF BeginSetPlan
    <3>4. CASE BeginUnlock(s)
      BY <3>1, <3>4 DEF BeginUnlock
    <3>5. CASE BeginCheckout(s)
      BY <3>1, <3>5 DEF BeginCheckout
    <3>6. CASE BeginCancel(s)
      BY <3>1, <3>6 DEF BeginCancel
    <3> QED BY <2>1, <3>2, <3>3, <3>4, <3>5, <3>6
  <2>2. CASE BeginConfirm(s)
    BY <2>2, <2>c DEF BeginConfirm, Idle
  <2>3. CASE EnsureRead(s)
    BY <2>3, <2>a, <2>c, <2>f DEF EnsureRead, Session
  <2>4. CASE EnsureCreate(s)
    <3>1. [sn EXCEPT !.pc = "refresh", !.sub = sub'].pc # "joincommit"
      BY <2>a DEF Session
    <3>2. CASE sub = NoSub
      <4>1. sub'.plan = Business
        BY <2>4, <3>2 DEF EnsureCreate, NewTrial
      <4> QED BY <2>4, <2>c, <3>1, <3>2, <4>1 DEF EnsureCreate
    <3>3. CASE sub # NoSub
      BY <2>4, <2>c, <2>e, <3>3 DEF EnsureCreate
    <3> QED BY <3>2, <3>3
  <2>5. CASE Refresh(s)
    BY <2>5, <2>c, <2>e, <2>f DEF Refresh
  <2>6. CASE ExpireCommit(s)
    <3>1. sn.new.plan = Free
      BY <2>6, <2>a DEF ExpireCommit, SessionShape, Writing, Ensuring
    <3>2. KeepOwn(sn).pc # "joincommit"
      BY <2>a DEF KeepOwn, Session
    <3> QED BY <2>6, <2>d, <3>1, <3>2 DEF ExpireCommit
  <2>7. CASE Sync(s)
    BY <2>7, <2>a, <2>c DEF Sync, LoadCopies, Session
  <2>8. CASE SetPlanCommit(s) \/ ConfirmCommit(s)
    <3>1. sn.new.plan \in {Free, sn.want}
      BY <2>8, <2>a DEF SetPlanCommit, ConfirmCommit, SessionShape, Writing, Ensuring
    <3> QED BY <2>8, <2>d, <2>e, <3>1 DEF SetPlanCommit, ConfirmCommit
  <2>9. CASE CommitFails(s) \/ Abort(s)
    BY <2>9, <2>c, <2>e DEF CommitFails, Abort
  <2>10. CASE CheckPending(s) \/ InsertPayment(s) \/ ReadPayment(s) \/ ReadPaymentSub(s)
    <3>1. CASE CheckPending(s) \/ InsertPayment(s)
      BY <3>1, <2>a, <2>c, <2>e DEF CheckPending, InsertPayment, Session
    <3>2. CASE ReadPayment(s)
      BY <3>2, <2>a, <2>c, <2>e DEF ReadPayment, Session
    <3>3. CASE ReadPaymentSub(s)
      BY <3>3, <2>a, <2>c DEF ReadPaymentSub, Session
    <3> QED BY <2>10, <3>1, <3>2, <3>3
  <2>11. CASE CancelCommit(s)
    <3>1. sn.new.plan = sn.sub.plan
      BY <2>11, <2>a DEF CancelCommit, SessionShape, Writing
    <3>2. sub'.plan = sub.plan
      BY <2>11, <2>a, <3>1 DEF CancelCommit, WriteSub, Flush, FlushAttr, SubRow
    <3> QED BY <2>11, <2>c, <2>e, <3>2 DEF CancelCommit
  <2>12. CASE ChargeCommit(s)
    <3>1. PICK result \in GatewayResults :
            /\ sub' = Flush(sub, sn.sub, AfterCharge(sn.sub, sn.want, result))
            /\ granted' = IF result = "succeeded" THEN granted \cup {sn.want} ELSE granted
            /\ ses' = [ses EXCEPT ![s] = Idle]
            /\ UNCHANGED <<orgPlan, userPlan>>
      BY <2>12 DEF ChargeCommit
    <3>2. sub'.plan \in {sub.plan} \cup granted'
      <4>1. CASE result = "succeeded"
        BY <2>a, <3>1, <4>1 DEF AfterCharge, ApplyPlan, Flush, FlushAttr, SubRow
      <4>2. CASE result # "succeeded"
        BY <2>a, <3>1, <4>2 DEF AfterCharge, Flush, FlushAttr, SubRow
      <4> QED BY <4>1, <4>2
    <3>3. PlansAreDeserved'
      BY <3>1, <3>2 DEF PlansAreDeserved, Deserved, Members
    <3>4. JoinersDeserve'
      BY <2>a, <2>e, <3>1 DEF JoinersDeserve, Deserved
    <3> QED BY <3>3, <3>4
  <2>13. CASE JoinInsert(s)
    <3>1. PICK u \in Users \ Members : JoinInsert(s)!(u)
      BY <2>13 DEF JoinInsert
    <3>2. PlansAreDeserved'
      BY <2>a, <3>1 DEF PlansAreDeserved, Deserved, Members
    <3>3. JoinersDeserve'
      BY <2>a, <3>1 DEF JoinersDeserve, Deserved, Idle
    <3> QED BY <3>2, <3>3
  <2>14. CASE JoinRead(s)
    <3>1. [sn EXCEPT !.pc = "joincommit", !.org = orgPlan].org = orgPlan
      BY <2>a DEF Session
    <3> QED BY <2>14, <2>c, <3>1 DEF JoinRead, PlansAreDeserved
  <2>15. CASE JoinCommit(s)
    <3>1. \A u \in Users : userPlan'[u] \in {userPlan[u], sn.org}
      BY <2>15, <2>a DEF JoinCommit, FlushAttr
    <3>2. \A u \in Users : userPlan[u] = NoUser /\ userPlan'[u] # NoUser => userPlan'[u] = sn.org
      BY <3>1
    <3>3. PlansAreDeserved'
      BY <2>15, <3>1, <3>2 DEF JoinCommit, PlansAreDeserved, JoinersDeserve, Deserved, Members
    <3>4. JoinersDeserve'
      BY <2>15, <2>a, <2>e DEF JoinCommit, JoinersDeserve, Deserved
    <3> QED BY <3>3, <3>4
  <2>16. CASE Wipe(s)
    BY <2>16 DEF Wipe, NoSub, PlansAreDeserved, JoinersDeserve, Deserved, Members
  <2> QED
    BY <1>2, <2>1, <2>2, <2>3, <2>4, <2>5, <2>6, <2>7, <2>8, <2>9, <2>10, <2>11, <2>12,
       <2>13, <2>14, <2>15, <2>16
    DEF Step, Begin, Ensure, Checkout, Settle, Join
<1> QED BY <1>0, <1>1, <1>2 DEF Next

\* Business is the trial's; any other plan above Free, in the subscription, in
\* the organization or in a member, was paid for or set by an admin: checkout,
\* cancellation, expiry, a wipe and stale copies never bring one about.
THEOREM PlansAreDeservedThm == Spec => []PlansAreDeserved
<1> DEFINE Inv == TypeOK /\ Shape /\ PlansAreDeserved /\ JoinersDeserve
<1>1. Init => Inv
  <2>1. Init => TypeOK /\ Shape
    BY InitType, IdleShape DEF Init, Shape
  <2>2. Init => PlansAreDeserved /\ JoinersDeserve
    BY DEF Init, PlansAreDeserved, JoinersDeserve, Deserved, Members, Idle
  <2> QED BY <2>1, <2>2
<1>2. Inv /\ [Next]_vars => Inv'
  BY TypeStep, ShapeStep, DeservedStep
<1>3. Inv => PlansAreDeserved
  OBVIOUS
<1> HIDE DEF Inv
<1> QED BY <1>1, <1>2, <1>3, PTL DEF Spec

-----------------------------------------------------------------------------
(* What a request has in hand: the plan it is about, the row it read, and   *)
(* what it will write.                                                      *)

HandShape(sn) ==
    /\ sn.op = "checkout" => sn.want # Free
    /\ sn.pc \in {"refresh", "pending", "insert", "charge"} => sn.sub.id # 0
    /\ sn.pc \in Writing =>
          /\ sn.op \in Ensuring => sn.sub.id # 0
          /\ sn.op \in {"set_plan", "unlock"} /\ sn.new.status = "active" =>
                sn.new.plan = sn.want
          /\ sn.op = "confirm" => sn.new.plan \in {sn.want, sn.sub.plan}
          /\ sn.new.status = "trialing" => sn.sub.status = "trialing"
          /\ sn.new.trialEnds \in {sn.sub.trialEnds, NoTrial}
          /\ sn.sub.id = 0 => sn.new = sn.sub
Hands == \A s \in Sessions : HandShape(ses[s])

\* A subscription has a key, and a checkout that has inserted its payment locks
\* the row it read.
Keyed ==
    /\ sub.id = 0 => sub = NoSub
    /\ \A s \in Sessions : ses[s].pc = "charge" => ses[s].sub.id = sub.id

\* Whoever settles a payment has read which plan it is for.
KnownPlans ==
    \A s \in Sessions :
        ses[s].op \in Settling /\ ses[s].pc \in {"paysub"} \cup Writing =>
            ses[s].want = payments[ses[s].pay].plan

LEMMA IdleHand == HandShape(Idle)
BY DEF HandShape, Idle, Writing

LEMMA HandStep == TypeOK /\ Shape /\ Keyed /\ Hands /\ [Next]_vars => Hands'
<1> SUFFICES ASSUME TypeOK, Shape, Keyed, Hands, [Next]_vars PROVE Hands'
  OBVIOUS
<1>0. CASE UNCHANGED vars
  BY <1>0 DEF Hands, vars
<1>1. CASE Tick
  BY <1>1 DEF Tick, Hands
<1>2. ASSUME NEW s \in Sessions, Step(s) PROVE Hands'
  <2> DEFINE sn == ses[s]
  <2>a. ASSUME NEW new, ses' = [ses EXCEPT ![s] = new], HandShape(new) PROVE Hands'
    BY <2>a DEF Hands, TypeOK
  <2>b. SessionShape(sn) /\ HandShape(sn) /\ sn \in Session /\ sub \in SubRow
    BY DEF Hands, Shape, TypeOK
  <2>c. ASSUME ses' = [ses EXCEPT ![s] = Idle] PROVE Hands'
    BY <2>a, <2>c, IdleHand
  <2>d. ASSUME NEW row \in SubRow, sn.op \in Ensuring, row.id # 0
        PROVE  HandShape(Resume(sn, row))
    <3>1. CASE sn.op = "checkout" /\ row.plan # sn.want
      <4>1. Resume(sn, row) = [sn EXCEPT !.pc = "pending", !.sub = row]
        BY <3>1 DEF Resume
      <4> QED BY <2>b, <2>d, <3>1, <4>1 DEF HandShape, Session, Writing
    <3>2. CASE sn.op \in {"set_plan", "unlock"}
      <4>1. Resume(sn, row) =
              [sn EXCEPT !.pc = "sync", !.sub = row, !.new = ApplyPlan(row, sn.want)]
        BY <3>2 DEF Resume
      <4> DEFINE paid == ApplyPlan(row, sn.want)
      <4>2. paid.status = "active" /\ paid.plan = sn.want /\ paid.trialEnds = NoTrial
        BY DEF ApplyPlan, SubRow
      <4> HIDE DEF paid
      <4>3. HandShape([sn EXCEPT !.pc = "sync", !.sub = row, !.new = paid])
        BY <2>b, <2>d, <3>2, <4>2 DEF HandShape, Session, Ensuring, Writing
      <4> QED BY <4>1, <4>3 DEF paid
    <3>3. CASE ~(sn.op = "checkout" /\ row.plan # sn.want) /\ sn.op \notin {"set_plan", "unlock"}
      BY <3>3, IdleHand DEF Resume
    <3> QED BY <3>1, <3>2, <3>3
  <2>1. ASSUME NEW op, NEW u, NEW pay, NEW want, NEW pc, Enter(s, op, u, pay, want, pc),
               pc \in {"ensure", "pay"}, op = "checkout" => want # Free
        PROVE  Hands'
    <3>1. HandShape([Idle EXCEPT !.op = op, !.pc = pc, !.actor = u, !.pay = pay,
                       !.want = want, !.org = orgPlan, !.usr[u] = userPlan[u]])
      BY <2>1 DEF HandShape, Idle, Writing
    <3> QED BY <2>1, <2>a, <3>1 DEF Enter
  <2>2. CASE BeginMe(s)
    BY <2>1, <2>2 DEF BeginMe
  <2>3. CASE BeginCheckout(s)
    BY <2>1, <2>3 DEF BeginCheckout
  <2>4. CASE BeginCancel(s)
    BY <2>1, <2>4 DEF BeginCancel
  <2>5. CASE BeginSetPlan(s)
    BY <2>1, <2>5 DEF BeginSetPlan
  <2>6. CASE BeginUnlock(s)
    BY <2>1, <2>6 DEF BeginUnlock
  <2>7. CASE BeginConfirm(s)
    <3>1. ASSUME NEW p \in Payments
          PROVE  HandShape([Idle EXCEPT !.op = "confirm", !.pc = "pay", !.pay = p])
      BY DEF HandShape, Idle, Writing
    <3> QED BY <2>7, <2>a, <3>1 DEF BeginConfirm
  <2>8. CASE EnsureRead(s)
    <3>1. sn.op \in Ensuring /\ sn.pc = "ensure"
      BY <2>8, <2>b DEF EnsureRead, SessionShape
    <3>2. CASE sub = NoSub
      <4>1. HandShape([sn EXCEPT !.pc = "create"])
        BY <2>b, <3>1 DEF HandShape, Session, Writing
      <4>2. ~TrialDue(sub)
        BY <3>2 DEF TrialDue, NoSub
      <4>3. ses' = [ses EXCEPT ![s] = [sn EXCEPT !.pc = "create"]]
        BY <2>8, <3>2, <4>2 DEF EnsureRead
      <4> QED BY <2>a, <4>1, <4>3
    <3>3. CASE sub # NoSub /\ TrialDue(sub)
      <4>1. sub.id # 0
        BY <3>3 DEF Keyed
      <4> DEFINE late == Expired(sub)
      <4>2. late.status = "expired" /\ late.trialEnds = sub.trialEnds
        BY <2>b DEF Expired, SubRow
      <4> HIDE DEF late
      <4>3. HandShape([sn EXCEPT !.pc = "sync", !.sub = sub, !.new = late])
        BY <2>b, <3>1, <4>1, <4>2 DEF HandShape, Session, Ensuring, Writing
      <4>4. ses' = [ses EXCEPT ![s] = [sn EXCEPT !.pc = "sync", !.sub = sub, !.new = late]]
        BY <2>8, <3>3 DEF EnsureRead, late
      <4> QED BY <2>a, <4>3, <4>4
    <3>4. CASE sub # NoSub /\ ~TrialDue(sub)
      <4>1. sub.id # 0
        BY <3>4 DEF Keyed
      <4>2. ses' = [ses EXCEPT ![s] = Resume(sn, sub)]
        BY <2>8, <3>4 DEF EnsureRead
      <4> QED BY <2>a, <2>b, <2>d, <3>1, <4>1, <4>2
    <3> QED BY <3>2, <3>3, <3>4
  <2>9. CASE EnsureCreate(s)
    <3>1. sn.op \in Ensuring /\ sn.pc = "create"
      BY <2>9, <2>b DEF EnsureCreate, SessionShape
    <3>2. CASE sub = NoSub
      <4>1. sub'.id # 0
        BY <2>9, <3>2 DEF EnsureCreate, NewTrial, TypeOK
      <4>2. HandShape([sn EXCEPT !.pc = "refresh", !.sub = sub'])
        BY <2>b, <3>1, <4>1 DEF HandShape, Session, Writing
      <4>3. ses' = [ses EXCEPT ![s] = [sn EXCEPT !.pc = "refresh", !.sub = sub']]
        BY <2>9, <3>2 DEF EnsureCreate
      <4> QED BY <2>a, <4>2, <4>3
    <3>3. CASE sub # NoSub
      BY <2>9, <2>c, <3>3 DEF EnsureCreate
    <3> QED BY <3>2, <3>3
  <2>10. CASE Refresh(s)
    <3>1. sn.op \in Ensuring /\ sn.pc = "refresh" /\ sn.sub.id # 0
      BY <2>10, <2>b DEF Refresh, SessionShape, HandShape
    <3> QED BY <2>10, <2>a, <2>b, <2>c, <2>d, <3>1 DEF Refresh
  <2>11. CASE ExpireCommit(s)
    <3>1. sn.pc \in Writing /\ sn.op \in Ensuring
      BY <2>11 DEF ExpireCommit, Writing, Ensuring
    <3>2. HandShape(KeepOwn(sn))
      BY <2>b, <3>1 DEF KeepOwn, HandShape, Session, Writing
    <3> QED BY <2>11, <2>a, <3>2 DEF ExpireCommit
  <2>12. CASE Sync(s)
    <3>1. LoadCopies(sn).op = sn.op /\ LoadCopies(sn).want = sn.want
          /\ LoadCopies(sn).sub = sn.sub /\ LoadCopies(sn).new = sn.new
          /\ LoadCopies(sn).pc = "commit"
      BY <2>b DEF LoadCopies, Session
    <3>2. HandShape(LoadCopies(sn))
      BY <2>12, <2>b, <3>1 DEF Sync, HandShape, Writing
    <3> QED BY <2>12, <2>a, <3>2 DEF Sync
  <2>13. CASE CheckPending(s)
    <3>1. HandShape([sn EXCEPT !.pc = "insert"])
      BY <2>13, <2>b DEF CheckPending, HandShape, Session, Writing
    <3> QED BY <2>13, <2>a, <2>c, <3>1 DEF CheckPending
  <2>14. CASE InsertPayment(s)
    <3>1. HandShape([sn EXCEPT !.pc = "charge"])
      BY <2>14, <2>b DEF InsertPayment, HandShape, Session, Writing
    <3> QED BY <2>14, <2>a, <2>c, <3>1 DEF InsertPayment
  <2>15. CASE ReadPayment(s)
    <3>1. sn.op \in Settling
      BY <2>15, <2>b DEF ReadPayment, SessionShape
    <3>2. HandShape([sn EXCEPT !.pc = "paysub", !.paid = payments[sn.pay].status,
                               !.want = payments[sn.pay].plan])
      BY <2>b, <3>1 DEF HandShape, Session, Settling, Writing
    <3> QED BY <2>15, <2>a, <2>c, <3>2 DEF ReadPayment
  <2>16. CASE ReadPaymentSub(s)
    <3>1. sn.op \in Settling
      BY <2>16, <2>b DEF ReadPaymentSub, SessionShape
    <3> DEFINE paid == ApplyPlan(sub, sn.want)
               failed == AfterFail(sub)
    <3>2. paid.status = "active" /\ paid.plan = sn.want /\ paid.trialEnds = NoTrial
      BY <2>b DEF ApplyPlan, SubRow
    <3>3. failed.plan = sub.plan /\ failed.trialEnds = sub.trialEnds
          /\ (failed.status = "trialing" => sub.status = "trialing")
      BY <2>b DEF AfterFail, SubRow
    <3> HIDE DEF paid, failed
    <3>a. sub.id = 0 => sub = NoSub /\ failed = sub
      BY DEF Keyed, failed, AfterFail, NoSub
    <3>4. sub # NoSub => HandShape([sn EXCEPT !.pc = "sync", !.sub = sub, !.new = paid])
      BY <2>b, <3>1, <3>2, <3>a DEF HandShape, Session, Settling, Ensuring, Writing
    <3>5. HandShape([sn EXCEPT !.pc = "commit", !.sub = sub, !.new = failed])
      BY <2>b, <3>1, <3>3, <3>a DEF HandShape, Session, Settling, Ensuring, Writing
    <3> QED BY <2>16, <2>a, <3>4, <3>5 DEF ReadPaymentSub, paid, failed
  <2>17. CASE JoinInsert(s)
    <3>1. ASSUME NEW u
          PROVE  HandShape([Idle EXCEPT !.op = "join", !.pc = "joinread", !.actor = u,
                                        !.usr[u] = Free])
      BY DEF HandShape, Idle, Writing
    <3> QED BY <2>17, <2>a, <3>1 DEF JoinInsert
  <2>18. CASE JoinRead(s)
    <3>1. HandShape([sn EXCEPT !.pc = "joincommit", !.org = orgPlan])
      BY <2>18, <2>b DEF JoinRead, HandShape, Session, Writing
    <3> QED BY <2>18, <2>a, <3>1 DEF JoinRead
  <2>19. CASE Wipe(s)
    BY <2>19 DEF Wipe, Hands
  <2>20. CASE SetPlanCommit(s) \/ CommitFails(s) \/ ChargeCommit(s) \/ ConfirmCommit(s)
              \/ CancelCommit(s) \/ JoinCommit(s) \/ Abort(s)
    BY <2>20, <2>c DEF SetPlanCommit, CommitFails, ChargeCommit, ConfirmCommit,
                       CancelCommit, JoinCommit, Abort
  <2> QED
    BY <1>2, <2>2, <2>3, <2>4, <2>5, <2>6, <2>7, <2>8, <2>9, <2>10, <2>11, <2>12, <2>13,
       <2>14, <2>15, <2>16, <2>17, <2>18, <2>19, <2>20
    DEF Step, Begin, Ensure, Checkout, Settle, Join
<1> QED BY <1>0, <1>1, <1>2 DEF Next

\* What a flush does to the row: each attribute is the row's own or the new one.
LEMMA FlushIs ==
    ASSUME NEW row \in SubRow, NEW old \in SubRow, NEW new \in SubRow
    PROVE  /\ Flush(row, old, new) \in SubRow /\ Flush(row, old, new).id = row.id
           /\ Flush(row, old, new).plan = FlushAttr(row.plan, old.plan, new.plan)
           /\ Flush(row, old, new).status = FlushAttr(row.status, old.status, new.status)
           /\ Flush(row, old, new).trialEnds
                 = FlushAttr(row.trialEnds, old.trialEnds, new.trialEnds)
           /\ new = old => Flush(row, old, new) = row
<1>1. Flush(row, old, new) \in SubRow
  BY RowTypes
<1>2. /\ Flush(row, old, new).id = row.id
      /\ Flush(row, old, new).plan = FlushAttr(row.plan, old.plan, new.plan)
      /\ Flush(row, old, new).status = FlushAttr(row.status, old.status, new.status)
      /\ Flush(row, old, new).trialEnds = FlushAttr(row.trialEnds, old.trialEnds, new.trialEnds)
  BY DEF Flush, SubRow
<1>3. new = old => Flush(row, old, new) = row
  BY DEF Flush, FlushAttr, SubRow
<1> QED BY <1>1, <1>2, <1>3

LEMMA ChargedIs ==
    ASSUME NEW row \in SubRow, NEW plan \in Plans, NEW result \in PayStatus
    PROVE  LET new == AfterCharge(row, plan, result)
           IN  /\ new \in SubRow /\ new.id = row.id
               /\ new.plan = (IF result = "succeeded" THEN plan ELSE row.plan)
               /\ new.status \in {row.status, "active", "pending"}
               /\ new.trialEnds \in {row.trialEnds, NoTrial}
<1>1. CASE result = "succeeded"
  <2>1. AfterCharge(row, plan, result) = ApplyPlan(row, plan)
    BY <1>1 DEF AfterCharge, Open
  <2>2. ApplyPlan(row, plan) \in SubRow
    BY RowTypes
  <2> QED BY <1>1, <2>1, <2>2 DEF ApplyPlan, SubRow
<1>2. CASE result \in Open
  <2>1. AfterCharge(row, plan, result) = [row EXCEPT !.status = "pending"]
    BY <1>2 DEF AfterCharge, Open
  <2>2. [row EXCEPT !.status = "pending"] \in SubRow
    BY RowTypes
  <2> QED BY <1>2, <2>1, <2>2 DEF SubRow, Open
<1>3. CASE result # "succeeded" /\ result \notin Open
  <2>1. AfterCharge(row, plan, result) = row
    BY <1>3 DEF AfterCharge
  <2> QED BY <1>3, <2>1
<1> QED BY <1>1, <1>2, <1>3

LEMMA KeyedStep == TypeOK /\ Shape /\ Hands /\ Keyed /\ [Next]_vars => Keyed'
<1> SUFFICES ASSUME TypeOK, Shape, Hands, Keyed, [Next]_vars PROVE Keyed'
  OBVIOUS
<1>0. CASE UNCHANGED vars
  BY <1>0 DEF Keyed, vars
<1>1. CASE Tick
  BY <1>1 DEF Tick, Keyed
<1>2. ASSUME NEW s \in Sessions, Step(s) PROVE Keyed'
  <2> DEFINE sn == ses[s]
  <2>a. /\ sn \in Session /\ SessionShape(sn) /\ HandShape(sn) /\ ses \in [Sessions -> Session]
        /\ sub \in SubRow /\ sn.sub \in SubRow /\ sn.new \in SubRow /\ sn.want \in Plans
    BY DEF Shape, Hands, TypeOK, Session
  <2>b. ASSUME NEW new, ses' = [ses EXCEPT ![s] = new], new.pc # "charge" \/ new.sub.id = sub.id,
               sub'.id = sub.id, sub.id = 0 => sub' = sub
        PROVE  Keyed'
    BY <2>a, <2>b DEF Keyed
  <2>c. Idle.pc # "charge"
    BY DEF Idle
  <2>d. ASSUME NEW row PROVE Resume(sn, row).pc # "charge"
    BY <2>a, <2>c DEF Resume, Session
  <2>e. ASSUME WriteSub(s), ~Gone(s), sn.pc = "commit", NEW new,
               ses' = [ses EXCEPT ![s] = new], new.pc # "charge"
        PROVE  Keyed'
    <3>1. sub'.id = sub.id /\ sub.id = sn.sub.id
      BY <2>a, <2>e, FlushIs DEF WriteSub, Gone
    <3>2. sub.id = 0 => sub' = sub
      BY <2>a, <2>e, <3>1, FlushIs DEF WriteSub, HandShape, Writing
    <3> QED BY <2>b, <2>e, <3>1, <3>2
  <2>1. CASE BeginMe(s) \/ BeginSetPlan(s) \/ BeginUnlock(s) \/ BeginCheckout(s) \/ BeginCancel(s)
    <3>1. ASSUME NEW op, NEW u, NEW pay, NEW want, NEW pc \in {"ensure", "pay"},
                 Enter(s, op, u, pay, want, pc)
          PROVE  Keyed'
      <4>1. [Idle EXCEPT !.op = op, !.pc = pc, !.actor = u, !.pay = pay, !.want = want,
                         !.org = orgPlan, !.usr[u] = userPlan[u]].pc # "charge"
        BY DEF Idle
      <4> QED BY <2>b, <3>1, <4>1 DEF Enter
    <3>2. CASE BeginMe(s)
      BY <3>1, <3>2 DEF BeginMe
    <3>3. CASE BeginSetPlan(s)
      BY <3>1, <3>3 DEF BeginSetPlan
    <3>4. CASE BeginUnlock(s)
      BY <3>1, <3>4 DEF BeginUnlock
    <3>5. CASE BeginCheckout(s)
      BY <3>1, <3>5 DEF BeginCheckout
    <3>6. CASE BeginCancel(s)
      BY <3>1, <3>6 DEF BeginCancel
    <3> QED BY <2>1, <3>2, <3>3, <3>4, <3>5, <3>6
  <2>2. CASE BeginConfirm(s)
    BY <2>2, <2>b DEF BeginConfirm, Idle
  <2>3. CASE EnsureRead(s)
    BY <2>3, <2>a, <2>b, <2>d DEF EnsureRead, Session
  <2>4. CASE EnsureCreate(s)
    <3>1. CASE sub = NoSub
      <4>1. sub'.id = lastSub + 1 /\ lastSub + 1 # 0
        BY <2>4, <3>1 DEF EnsureCreate, NewTrial, TypeOK
      <4>2. \A t \in Sessions : ses[t].pc # "charge"
        BY <3>1 DEF Hands, HandShape, Keyed, NoSub
      <4>3. ses' = [ses EXCEPT ![s] = [sn EXCEPT !.pc = "refresh", !.sub = sub']]
        BY <2>4, <3>1 DEF EnsureCreate
      <4>4. [sn EXCEPT !.pc = "refresh", !.sub = sub'].pc = "refresh"
        BY <2>a DEF Session
      <4>5. \A t \in Sessions : ses'[t].pc # "charge"
        BY <2>a, <4>2, <4>3, <4>4
      <4> QED BY <4>1, <4>5 DEF Keyed
    <3>2. CASE sub # NoSub
      BY <2>4, <2>b, <2>c, <3>2 DEF EnsureCreate
    <3> QED BY <3>1, <3>2
  <2>5. CASE Refresh(s)
    BY <2>5, <2>b, <2>c, <2>d DEF Refresh
  <2>6. CASE ExpireCommit(s)
    <3>1. KeepOwn(sn).pc # "charge"
      BY <2>a DEF KeepOwn, Session
    <3> QED BY <2>6, <2>e, <3>1 DEF ExpireCommit
  <2>7. CASE Sync(s)
    BY <2>7, <2>a, <2>b DEF Sync, LoadCopies, Session
  <2>8. CASE SetPlanCommit(s) \/ ConfirmCommit(s) \/ CancelCommit(s)
    BY <2>8, <2>c, <2>e DEF SetPlanCommit, ConfirmCommit, CancelCommit
  <2>9. CASE CommitFails(s) \/ Abort(s) \/ JoinCommit(s)
    BY <2>9, <2>b, <2>c DEF CommitFails, Abort, JoinCommit
  <2>10. CASE CheckPending(s) \/ ReadPayment(s) \/ ReadPaymentSub(s)
    <3>1. CASE CheckPending(s)
      BY <3>1, <2>a, <2>b, <2>c DEF CheckPending, Session
    <3>2. CASE ReadPayment(s)
      BY <3>2, <2>a, <2>b, <2>c DEF ReadPayment, Session
    <3>3. CASE ReadPaymentSub(s)
      BY <3>3, <2>a, <2>b DEF ReadPaymentSub, Session
    <3> QED BY <2>10, <3>1, <3>2, <3>3
  <2>11. CASE InsertPayment(s)
    <3>1. [sn EXCEPT !.pc = "charge"].sub = sn.sub
      BY <2>a DEF Session
    <3> QED BY <2>11, <2>b, <2>c, <3>1 DEF InsertPayment
  <2>12. CASE ChargeCommit(s)
    <3>1. PICK result \in GatewayResults :
            sub' = Flush(sub, sn.sub, AfterCharge(sn.sub, sn.want, result))
      BY <2>12 DEF ChargeCommit
    <3>2. AfterCharge(sn.sub, sn.want, result) \in SubRow
      BY <2>a, ChargedIs
    <3>3. sub'.id = sub.id
      BY <2>a, <3>1, <3>2, FlushIs
    <3>4. sub.id # 0
      BY <2>12, <2>a DEF ChargeCommit, Keyed, HandShape
    <3> QED BY <2>12, <2>b, <2>c, <3>3, <3>4 DEF ChargeCommit
  <2>13. CASE JoinInsert(s)
    BY <2>13, <2>b DEF JoinInsert, Idle
  <2>14. CASE JoinRead(s)
    BY <2>14, <2>a, <2>b DEF JoinRead, Session
  <2>15. CASE Wipe(s)
    BY <2>15 DEF Wipe, Keyed
  <2> QED
    BY <1>2, <2>1, <2>2, <2>3, <2>4, <2>5, <2>6, <2>7, <2>8, <2>9, <2>10, <2>11, <2>12,
       <2>13, <2>14, <2>15
    DEF Step, Begin, Ensure, Checkout, Settle, Join
<1> QED BY <1>0, <1>1, <1>2 DEF Next
\* What is known of a payment being settled stays true: a row that is in the
\* table never changes its plan.
LEMMA KnownStep ==
    TypeOK /\ Shape /\ PaymentsInHand /\ KnownPlans /\ [Next]_vars => KnownPlans'
<1> SUFFICES ASSUME TypeOK, Shape, PaymentsInHand, KnownPlans, [Next]_vars PROVE KnownPlans'
  OBVIOUS
<1>0. CASE UNCHANGED vars
  BY <1>0 DEF KnownPlans, vars
<1>1. CASE Tick
  BY <1>1 DEF Tick, KnownPlans
<1>2. ASSUME NEW s \in Sessions, Step(s) PROVE KnownPlans'
  <2> DEFINE sn == ses[s]
             knows(new) == new.op \in Settling /\ new.pc \in {"paysub"} \cup Writing
  <2>a. /\ sn \in Session /\ SessionShape(sn) /\ ses \in [Sessions -> Session]
        /\ payments \in [Payments -> PayRow]
        /\ \A t \in Sessions : ses[t].op \in Settling => ses[t].pay \in Payments
    BY DEF Shape, SessionShape, TypeOK
  <2>b. ASSUME NEW new, ses' = [ses EXCEPT ![s] = new],
               \A p \in Payments : payments[p].status # "none" => payments'[p].plan = payments[p].plan,
               knows(new) => new.pay \in Payments /\ new.want = payments'[new.pay].plan
        PROVE  KnownPlans'
    BY <2>a, <2>b DEF KnownPlans, PaymentsInHand
  <2>c. ASSUME NEW new, ses' = [ses EXCEPT ![s] = new], payments' = payments,
               knows(new) => knows(sn) /\ new.pay = sn.pay /\ new.want = sn.want
        PROVE  KnownPlans'
    BY <2>a, <2>b, <2>c DEF KnownPlans
  <2>d. ~knows(Idle)
    BY DEF Idle, Settling
  <2>e. ASSUME ses' = [ses EXCEPT ![s] = Idle],
               \A p \in Payments : payments[p].status # "none" => payments'[p].plan = payments[p].plan
        PROVE  KnownPlans'
    <3> HIDE DEF knows
    <3> QED BY <2>b, <2>d, <2>e
  <2>f. ASSUME NEW row, sn.op \in Ensuring PROVE ~knows(Resume(sn, row))
    BY <2>a, <2>d, <2>f DEF Resume, Session, Ensuring, Settling
  <2>1. CASE BeginMe(s) \/ BeginSetPlan(s) \/ BeginUnlock(s) \/ BeginCheckout(s) \/ BeginCancel(s)
    <3>1. ASSUME NEW op, NEW u, NEW pay, NEW want, NEW pc \in {"ensure", "pay"},
                 Enter(s, op, u, pay, want, pc)
          PROVE  KnownPlans'
      <4>1. [Idle EXCEPT !.op = op, !.pc = pc, !.actor = u, !.pay = pay, !.want = want,
                         !.org = orgPlan, !.usr[u] = userPlan[u]].pc \in {"ensure", "pay"}
        BY DEF Idle
      <4> QED BY <2>c, <3>1, <4>1 DEF Enter, Writing
    <3>2. CASE BeginMe(s)
      BY <3>1, <3>2 DEF BeginMe
    <3>3. CASE BeginSetPlan(s)
      BY <3>1, <3>3 DEF BeginSetPlan
    <3>4. CASE BeginUnlock(s)
      BY <3>1, <3>4 DEF BeginUnlock
    <3>5. CASE BeginCheckout(s)
      BY <3>1, <3>5 DEF BeginCheckout
    <3>6. CASE BeginCancel(s)
      BY <3>1, <3>6 DEF BeginCancel
    <3> QED BY <2>1, <3>2, <3>3, <3>4, <3>5, <3>6
  <2>2. CASE BeginConfirm(s)
    BY <2>2, <2>c DEF BeginConfirm, Idle, Writing
  <2>3. CASE EnsureRead(s)
    <3>1. sn.op \in Ensuring
      BY <2>3, <2>a DEF EnsureRead, SessionShape
    <3>2. sn.op \notin Settling
      BY <3>1 DEF Ensuring, Settling
    <3>3. PICK new : ses' = [ses EXCEPT ![s] = new] /\ new \in
                       {[sn EXCEPT !.pc = "create"],
                        [sn EXCEPT !.pc = "sync", !.sub = sub, !.new = Expired(sub)],
                        Resume(sn, sub)}
      BY <2>3 DEF EnsureRead
    <3>4. ~knows(new)
      BY <2>a, <2>f, <3>1, <3>2, <3>3 DEF Session
    <3> QED BY <2>3, <2>c, <3>3, <3>4 DEF EnsureRead
  <2>4. CASE EnsureCreate(s)
    <3>1. sn.op \notin Settling
      BY <2>4, <2>a DEF EnsureCreate, SessionShape, Ensuring, Settling
    <3>2. ~knows([sn EXCEPT !.pc = "refresh", !.sub = sub'])
      BY <2>a, <3>1 DEF Session
    <3> QED BY <2>4, <2>c, <2>d, <3>2 DEF EnsureCreate
  <2>5. CASE Refresh(s)
    <3>1. sn.op \in Ensuring
      BY <2>5, <2>a DEF Refresh, SessionShape
    <3> QED BY <2>5, <2>c, <2>d, <2>f, <3>1 DEF Refresh
  <2>6. CASE ExpireCommit(s)
    <3>1. ~knows(KeepOwn(sn))
      BY <2>a DEF KeepOwn, Session, Writing
    <3> QED BY <2>6, <2>c, <3>1 DEF ExpireCommit
  <2>7. CASE Sync(s)
    BY <2>7, <2>a, <2>c DEF Sync, LoadCopies, Session, Writing
  <2>8. CASE SetPlanCommit(s) \/ CommitFails(s) \/ JoinCommit(s) \/ Abort(s)
    BY <2>8, <2>e DEF SetPlanCommit, CommitFails, JoinCommit, Abort
  <2>9. CASE CheckPending(s)
    BY <2>9, <2>a, <2>c, <2>d DEF CheckPending, Session, Writing
  <2>10. CASE InsertPayment(s)
    BY <2>10, <2>a, <2>c, <2>d DEF InsertPayment, Session, Writing
  <2>11. CASE ReadPayment(s)
    <3>1. sn.pay \in Payments
      BY <2>11, <2>a DEF ReadPayment, SessionShape
    <3>2. CASE ses' = [ses EXCEPT ![s] = Idle]
      BY <2>11, <2>e, <3>2 DEF ReadPayment
    <3>3. CASE ses' = [ses EXCEPT ![s] = [sn EXCEPT !.pc = "paysub", !.paid = payments[sn.pay].status,
                                                    !.want = payments[sn.pay].plan]]
      BY <2>11, <2>a, <2>b, <3>1, <3>3 DEF ReadPayment, Session
    <3> QED BY <2>11, <3>2, <3>3 DEF ReadPayment
  <2>12. CASE ReadPaymentSub(s)
    <3>1. knows(sn)
      BY <2>12, <2>a DEF ReadPaymentSub, SessionShape
    <3> QED BY <2>12, <2>a, <2>c, <3>1 DEF ReadPaymentSub, Session
  <2>13. CASE JoinInsert(s)
    BY <2>13, <2>c DEF JoinInsert, Idle, Settling
  <2>14. CASE JoinRead(s)
    BY <2>14, <2>a, <2>c DEF JoinRead, Session, Writing
  <2>15. CASE Wipe(s)
    <3>1. \A p \in Payments : payments'[p].plan = payments[p].plan
      BY <2>15, <2>a DEF Wipe, PayRow
    <3> QED BY <2>15, <2>a, <3>1 DEF Wipe, KnownPlans
  <2>16. CASE ChargeCommit(s)
    <3>1. sn.pay \in Payments /\ payments[sn.pay].status = "none"
      BY <2>16, <2>a DEF ChargeCommit, SessionShape, PaymentsInHand
    <3>2. \A p \in Payments \ {sn.pay} : payments'[p] = payments[p]
      BY <2>16, <2>a, <3>1 DEF ChargeCommit
    <3> QED BY <2>16, <2>e, <3>1, <3>2 DEF ChargeCommit
  <2>17. CASE ConfirmCommit(s) \/ CancelCommit(s)
    <3>1. sn.op \in Settling /\ sn.pay \in Payments
      BY <2>17, <2>a DEF ConfirmCommit, CancelCommit, SessionShape, Settling
    <3>2. \A p \in Payments : payments'[p].plan = payments[p].plan
      BY <2>17, <2>a, <3>1 DEF ConfirmCommit, CancelCommit, WritePayment, PayRow
    <3> QED BY <2>17, <2>e, <3>2 DEF ConfirmCommit, CancelCommit
  <2> QED
    BY <1>2, <2>1, <2>2, <2>3, <2>4, <2>5, <2>6, <2>7, <2>8, <2>9, <2>10, <2>11, <2>12,
       <2>13, <2>14, <2>15, <2>16, <2>17
    DEF Step, Begin, Ensure, Checkout, Settle, Join
<1> QED BY <1>0, <1>1, <1>2 DEF Next

HandInv == TypeOK /\ Shape /\ PaymentsInHand /\ Hands /\ Keyed /\ KnownPlans

LEMMA HandInvariant == Spec => []HandInv
<1>1. Init => HandInv
  <2>1. Init => TypeOK /\ Shape /\ PaymentsInHand
    BY InitType, IdleShape DEF Init, Shape, PaymentsInHand, Idle, Settling
  <2>2. Init => Hands
    BY IdleHand DEF Init, Hands
  <2>3. Init => Keyed /\ KnownPlans
    BY DEF Init, Keyed, KnownPlans, Idle, Settling
  <2> QED BY <2>1, <2>2, <2>3 DEF HandInv
<1>2. HandInv /\ [Next]_vars => HandInv'
  BY TypeStep, ShapeStep, PaymentsStep, HandStep, KeyedStep, KnownStep DEF HandInv
<1> QED BY <1>1, <1>2, PTL DEF Spec

\* What a commit makes of the row, when what it read is still there.
LEMMA CommitIs ==
    ASSUME HandInv, NEW s \in Sessions, ses[s].pc = "commit", ~Gone(s), WriteSub(s)
    PROVE  /\ sub' \in SubRow /\ sub'.id = sub.id
           /\ sub'.plan \in {sub.plan, ses[s].new.plan}
           /\ ses[s].new.plan = ses[s].sub.plan => sub'.plan = sub.plan
           /\ sub.id = 0 => sub' = sub
           /\ sub.status # "trialing" => sub'.status # "trialing"
           /\ sub'.trialEnds \in {sub.trialEnds, NoTrial}
<1> DEFINE sn == ses[s]
<1>1. /\ sn.sub \in SubRow /\ sn.new \in SubRow /\ sub \in SubRow
      /\ HandShape(sn) /\ sn.pc \in Writing /\ sn.sub.id = sub.id
  BY DEF HandInv, TypeOK, Session, Hands, Gone, Writing
<1>2. sub' = Flush(sub, sn.sub, sn.new)
  BY DEF WriteSub
<1>3. /\ sub' \in SubRow /\ sub'.id = sub.id
      /\ sub'.plan = FlushAttr(sub.plan, sn.sub.plan, sn.new.plan)
      /\ sub'.status = FlushAttr(sub.status, sn.sub.status, sn.new.status)
      /\ sub'.trialEnds = FlushAttr(sub.trialEnds, sn.sub.trialEnds, sn.new.trialEnds)
      /\ sn.new = sn.sub => sub' = sub
  BY <1>1, <1>2, FlushIs
<1>4. sub.id = 0 => sub' = sub
  BY <1>1, <1>3 DEF HandShape
<1>5. sub.status # "trialing" => sub'.status # "trialing"
  BY <1>1, <1>3 DEF HandShape, FlushAttr
<1>6. sub'.trialEnds \in {sub.trialEnds, NoTrial}
  BY <1>1, <1>3 DEF HandShape, FlushAttr
<1>7. /\ sub'.plan \in {sub.plan, sn.new.plan}
      /\ sn.new.plan = sn.sub.plan => sub'.plan = sub.plan
  BY <1>3 DEF FlushAttr
<1> QED BY <1>3, <1>4, <1>5, <1>6, <1>7

\* What the commit of a checkout makes of the row it has locked.
LEMMA ChargeIs ==
    ASSUME HandInv, NEW s \in Sessions, ses[s].pc = "charge", NEW result \in PayStatus,
           sub' = Flush(sub, ses[s].sub, AfterCharge(ses[s].sub, ses[s].want, result))
    PROVE  /\ sub' \in SubRow /\ sub'.id = sub.id /\ sub.id # 0
           /\ sub'.plan \in {sub.plan, ses[s].want}
           /\ result # "succeeded" => sub'.plan = sub.plan
           /\ sub.status # "trialing" => sub'.status # "trialing"
           /\ sub'.trialEnds \in {sub.trialEnds, NoTrial}
<1> DEFINE sn == ses[s]
           new == AfterCharge(sn.sub, sn.want, result)
<1>1. /\ sn.sub \in SubRow /\ sub \in SubRow /\ sn.want \in Plans
      /\ sn.sub.id # 0 /\ sn.sub.id = sub.id
  BY DEF HandInv, TypeOK, Session, Hands, HandShape, Keyed
<1>2. /\ new \in SubRow
      /\ new.plan = (IF result = "succeeded" THEN sn.want ELSE sn.sub.plan)
      /\ new.status \in {sn.sub.status, "active", "pending"}
      /\ new.trialEnds \in {sn.sub.trialEnds, NoTrial}
  BY <1>1, ChargedIs
<1>3. sub' = Flush(sub, sn.sub, new)
  OBVIOUS
<1> HIDE DEF new
<1>4. /\ sub' \in SubRow /\ sub'.id = sub.id
      /\ sub'.plan = FlushAttr(sub.plan, sn.sub.plan, new.plan)
      /\ sub'.status = FlushAttr(sub.status, sn.sub.status, new.status)
      /\ sub'.trialEnds = FlushAttr(sub.trialEnds, sn.sub.trialEnds, new.trialEnds)
  BY <1>1, <1>2, <1>3, FlushIs
<1> QED BY <1>1, <1>2, <1>4 DEF FlushAttr

LEMMA TrialStep ==
    HandInv /\ [Next]_vars =>
        [sub'.id = sub.id =>
            /\ sub'.trialEnds \in {sub.trialEnds, NoTrial}
            /\ sub'.status = "trialing" => sub.status = "trialing"]_vars
<1> DEFINE Kept == /\ sub'.trialEnds \in {sub.trialEnds, NoTrial}
                   /\ sub'.status = "trialing" => sub.status = "trialing"
<1> SUFFICES ASSUME HandInv, [Next]_vars, sub'.id = sub.id PROVE Kept
  OBVIOUS
<1>0. CASE UNCHANGED sub
  BY <1>0
<1>1. CASE Tick
  BY <1>0, <1>1 DEF Tick
<1>2. ASSUME NEW s \in Sessions, Step(s)
      PROVE  Kept
  <2>1. CASE ExpireCommit(s) \/ SetPlanCommit(s) \/ ConfirmCommit(s) \/ CancelCommit(s)
    BY <2>1, CommitIs DEF ExpireCommit, SetPlanCommit, ConfirmCommit, CancelCommit
  <2>2. CASE ChargeCommit(s)
    <3>1. PICK result \in GatewayResults :
            sub' = Flush(sub, ses[s].sub, AfterCharge(ses[s].sub, ses[s].want, result))
      BY <2>2 DEF ChargeCommit
    <3> QED BY <2>2, <3>1, ChargeIs DEF ChargeCommit
  <2>3. CASE EnsureCreate(s)
    <3>1. CASE sub = NoSub
      <4>1. sub'.id = lastSub + 1 /\ lastSub \in Nat
        BY <2>3, <3>1 DEF EnsureCreate, NewTrial, HandInv, TypeOK
      <4> QED BY <3>1, <4>1 DEF NoSub
    <3>2. CASE sub # NoSub
      BY <1>0, <2>3, <3>2 DEF EnsureCreate
    <3> QED BY <3>1, <3>2
  <2>4. CASE Wipe(s)
    BY <2>4 DEF Wipe, NoSub
  <2>5. CASE \/ Begin(s) \/ Sync(s) \/ CommitFails(s) \/ Join(s) \/ Abort(s)
             \/ EnsureRead(s) \/ Refresh(s) \/ CheckPending(s) \/ InsertPayment(s)
             \/ ReadPayment(s) \/ ReadPaymentSub(s)
    <3>1. UNCHANGED sub
      BY <2>5 DEF Begin, BeginMe, BeginCheckout, BeginCancel, BeginSetPlan, BeginUnlock,
                  BeginConfirm, Enter, Sync, CommitFails, Join, JoinInsert, JoinRead,
                  JoinCommit, Abort, EnsureRead, Refresh, CheckPending, InsertPayment,
                  ReadPayment, ReadPaymentSub
    <3> QED BY <1>0, <3>1
  <2> QED BY <1>2, <2>1, <2>2, <2>3, <2>4, <2>5 DEF Step, Ensure, Checkout, Settle
<1> QED BY <1>0, <1>1, <1>2 DEF Next, vars

\* A trial is given once, whichever of the requests that read it commits last:
\* none brings back its end, or the status to a row it has gone from.
THEOREM TrialIsGivenOnceThm == Spec => TrialIsGivenOnce
<1>1. HandInv /\ [Next]_vars =>
        [sub'.id = sub.id =>
            /\ sub'.trialEnds \in {sub.trialEnds, NoTrial}
            /\ sub'.status = "trialing" /\ sub.status # "trialing" =>
                  sub.status = "pending" /\ sub.trialEnds # NoTrial]_vars
  BY TrialStep
<1> QED BY <1>1, HandInvariant, PTL DEF Spec, TrialIsGivenOnce

-----------------------------------------------------------------------------
(* The requests keep the promise made of the plan (Entitlement).            *)

Held == IF sub = NoSub THEN NotRead ELSE sub.plan
Ordered == [p \in Payments |-> IF payments[p].status \in PayStatus
                               THEN payments[p].plan ELSE NoUser]

\* Each step is a step of the promise, or changes nothing of it.
LEMMA PromiseStep ==
    HandInv /\ [Next]_vars => [Promise!Next]_<<Held, granted, Ordered>>
<1> SUFFICES ASSUME HandInv, [Next]_vars
             PROVE  Promise!Next \/ UNCHANGED <<Held, granted, Ordered>>
  OBVIOUS
<1> USE DEF Held, Ordered
<1>0. ASSUME UNCHANGED <<sub, granted, payments>>
      PROVE  UNCHANGED <<Held, granted, Ordered>>
  BY <1>0
<1>1. CASE UNCHANGED vars \/ Tick
  BY <1>0, <1>1 DEF Tick, vars
<1>2. ASSUME NEW s \in Sessions, Step(s)
      PROVE  Promise!Next \/ UNCHANGED <<Held, granted, Ordered>>
  <2> DEFINE sn == ses[s]
  <2>a. /\ sn \in Session /\ SessionShape(sn) /\ HandShape(sn)
        /\ sub \in SubRow /\ sn.want \in Plans /\ payments \in [Payments -> PayRow]
        /\ sub.id = 0 <=> sub = NoSub
    BY DEF HandInv, Shape, Hands, Keyed, TypeOK, Session, NoSub
  <2>b. Held = NotRead <=> sub.id = 0
    BY <2>a DEF SubRow
  <2>c. ASSUME sub' \in SubRow, sub'.id = sub.id, sub.id # 0 PROVE Held = sub.plan /\ Held' = sub'.plan
    BY <2>a, <2>c DEF NoSub
  <2>d. ASSUME sn.op \in Settling, sn.pc = "commit", ~Gone(s), NEW status \in PayStatus,
               WritePayment(s, status)
        PROVE  sn.pay \in Payments /\ payments[sn.pay].status \in PayStatus /\ UNCHANGED Ordered
    <3>1. sn.pay \in Payments /\ payments[sn.pay].status \in PayStatus
      BY <2>a, <2>d DEF SessionShape, Gone, HandInv, PaymentsInHand, PayRow
    <3>2. \A p \in Payments : /\ payments'[p].plan = payments[p].plan
                              /\ payments'[p].status \in PayStatus <=> payments[p].status \in PayStatus
      BY <2>a, <2>d, <3>1 DEF WritePayment, FlushAttr, PayRow
    <3> QED BY <3>1, <3>2
  <2>e. ASSUME NEW p \in Payments, Promise!Place(p) \/ Promise!Settle(p) \/ Promise!PlaceSettled(p)
        PROVE  Promise!Next
    BY ZenonT(30), <2>e DEF Promise!Next
  <2>1. CASE EnsureCreate(s)
    <3>1. CASE sub = NoSub
      <4>1. sub'.plan = Business /\ sub' # NoSub
        BY <2>1, <3>1 DEF EnsureCreate, NewTrial, NoSub, HandInv, TypeOK
      <4> QED BY <2>1, <3>1, <4>1 DEF EnsureCreate, Promise!Next, Promise!StartTrial
    <3>2. CASE sub # NoSub
      BY <1>0, <2>1, <3>2 DEF EnsureCreate
    <3> QED BY <3>1, <3>2
  <2>2. CASE ExpireCommit(s)
    <3>1. sn.new.plan = Free /\ sn.sub.id # 0
      BY <2>2, <2>a DEF ExpireCommit, SessionShape, HandShape, Writing, Ensuring
    <3>2. sub.id # 0
      BY <2>2, <3>1 DEF ExpireCommit, Gone
    <3>3. Held = sub.plan /\ Held' = sub'.plan /\ sub'.plan \in {sub.plan, Free}
      BY <2>2, <2>c, <3>1, <3>2, CommitIs DEF ExpireCommit
    <3>4. granted' = granted /\ Ordered' = Ordered
      BY <2>2 DEF ExpireCommit
    <3> HIDE DEF Held, Ordered
    <3>5. CASE Held' = Free
      BY <2>b, <3>2, <3>4, <3>5 DEF Held, Ordered, Promise!Next, Promise!Lapse
    <3> QED BY <3>3, <3>4, <3>5
  <2>3. CASE SetPlanCommit(s)
    <3>1. sn.new.plan = sn.want /\ sn.sub.id # 0
      BY <2>3, <2>a DEF SetPlanCommit, HandShape, Writing, Ensuring
    <3>2. sub.id # 0
      BY <2>3, <3>1 DEF SetPlanCommit, Gone
    <3>3. Held = sub.plan /\ Held' = sub'.plan /\ sub'.plan \in {sub.plan, sn.want}
      BY <2>3, <2>c, <3>1, <3>2, CommitIs DEF SetPlanCommit
    <3>4. Promise!Grant(sn.want)
      BY <2>3, <2>b, <3>2, <3>3 DEF SetPlanCommit, Promise!Grant
    <3> QED BY <2>a, <3>4 DEF Promise!Next
  <2>4. CASE ConfirmCommit(s)
    <3>1. /\ sn.pay \in Payments /\ payments[sn.pay].status \in PayStatus
          /\ UNCHANGED Ordered
      BY <2>4, <2>d DEF ConfirmCommit, Settling, PayStatus
    <3>2. sn.want = payments[sn.pay].plan /\ sn.new.plan \in {sn.want, sn.sub.plan}
      BY <2>4, <2>a DEF ConfirmCommit, HandInv, KnownPlans, HandShape, Settling, Writing
    <3>3. Ordered[sn.pay] = sn.want /\ sn.want # NoUser
      BY <2>a, <3>1, <3>2
    <3>4. Held' \in {Held, sn.want}
      <4>1. CASE sub.id = 0
        BY <2>4, <4>1, CommitIs DEF ConfirmCommit
      <4>2. CASE sub.id # 0
        BY <2>4, <2>c, <3>2, <4>2, CommitIs DEF ConfirmCommit
      <4> QED BY <4>1, <4>2
    <3>5. granted' = granted \cup {sn.want}
      BY <2>4 DEF ConfirmCommit
    <3>6. Promise!Settle(sn.pay)
      <4> HIDE DEF Held, Ordered
      <4> QED BY <3>1, <3>3, <3>4, <3>5 DEF Held, Ordered, Promise!Settle
    <3> QED BY <2>e, <3>1, <3>6
  <2>5. CASE CancelCommit(s)
    <3>1. UNCHANGED Ordered
      BY <2>5, <2>d DEF CancelCommit, Settling, PayStatus
    <3>2. sn.new.plan = sn.sub.plan
      BY <2>5, <2>a DEF CancelCommit, SessionShape, Writing
    <3>3. Held' = Held
      <4>1. CASE sub.id = 0
        BY <2>5, <4>1, CommitIs DEF CancelCommit
      <4>2. CASE sub.id # 0
        BY <2>5, <2>c, <3>2, <4>2, CommitIs DEF CancelCommit
      <4> QED BY <4>1, <4>2
    <3> QED BY <2>5, <3>1, <3>3 DEF CancelCommit
  <2>6. CASE ChargeCommit(s)
    <3>1. PICK result \in GatewayResults :
            /\ payments' = [payments EXCEPT ![sn.pay] = [status |-> result, plan |-> sn.want]]
            /\ sub' = Flush(sub, sn.sub, AfterCharge(sn.sub, sn.want, result))
            /\ granted' = IF result = "succeeded" THEN granted \cup {sn.want} ELSE granted
      BY <2>6 DEF ChargeCommit
    <3>2. /\ sn.pay \in Payments /\ sn.want \in Plans \ {Free}
          /\ payments[sn.pay].status = "none" /\ result \in PayStatus
      BY <2>6, <2>a DEF ChargeCommit, SessionShape, HandShape, HandInv, PaymentsInHand
    <3>3. Ordered[sn.pay] = NoUser /\ Ordered' = [Ordered EXCEPT ![sn.pay] = sn.want]
      BY <2>a, <3>1, <3>2 DEF PayStatus, Open
    <3>4. /\ Held' \in {Held, sn.want}
          /\ result # "succeeded" => Held' = Held
      BY <2>6, <2>c, <3>1, <3>2, ChargeIs DEF ChargeCommit
    <3>5. PICK p \in Payments : p = sn.pay
      BY <3>2
    <3>6. ASSUME result = "succeeded" PROVE Promise!PlaceSettled(p)
      <4> HIDE DEF Held, Ordered
      <4> QED BY <3>1, <3>2, <3>3, <3>4, <3>5, <3>6 DEF Held, Ordered, Promise!PlaceSettled
    <3>7. ASSUME result # "succeeded" PROVE Promise!Place(p)
      <4> HIDE DEF Held, Ordered
      <4> QED BY <3>1, <3>2, <3>3, <3>4, <3>5, <3>7 DEF Held, Ordered, Promise!Place
    <3>8. Promise!Place(p) \/ Promise!PlaceSettled(p)
      BY <3>6, <3>7
    <3> QED BY <2>e, <3>8
  <2>7. CASE Wipe(s)
    <3>1. \A p \in Payments : payments'[p].status \notin PayStatus
      BY <2>7, <2>a DEF Wipe, PayRow, PayStatus, Open
    <3>2. Held' = NotRead /\ Ordered' \in [Payments -> {NoUser}] /\ granted' = granted
      BY <2>7, <3>1 DEF Wipe
    <3> QED BY <3>2 DEF Promise!Next, Promise!Wipe
  <2>8. CASE \/ Begin(s) \/ Sync(s) \/ CommitFails(s) \/ Join(s) \/ Abort(s)
             \/ EnsureRead(s) \/ Refresh(s) \/ CheckPending(s) \/ InsertPayment(s)
             \/ ReadPayment(s) \/ ReadPaymentSub(s)
    <3>1. UNCHANGED <<sub, granted, payments>>
      BY <2>8 DEF Begin, BeginMe, BeginCheckout, BeginCancel, BeginSetPlan, BeginUnlock,
                  BeginConfirm, Enter, Sync, CommitFails, Join, JoinInsert, JoinRead,
                  JoinCommit, Abort, EnsureRead, Refresh, CheckPending, InsertPayment,
                  ReadPayment, ReadPaymentSub
    <3> QED BY <1>0, <3>1
  <2> QED BY <1>2, <2>1, <2>2, <2>3, <2>4, <2>5, <2>6, <2>7, <2>8 DEF Step, Ensure, Checkout, Settle
<1> QED BY <1>1, <1>2 DEF Next

\* Requests, copies, races and crashes come to no more than Entitlement allows:
\* a checkout never changes the plan held, a settled payment or an admin's
\* grant gives the plan it is for or nothing, expiry takes it away, and only a
\* first subscription and one after a wipe start with a trial.
THEOREM ImplementsPromiseThm == Spec => ImplementsPromise
<1>1. Init => Promise!Init
  BY DEF Init, Promise!Init, NoSub, NoPayRow, PayStatus, Open
<1>2. HandInv /\ [Next]_vars => [Promise!Next]_Promise!vars
  BY PromiseStep DEF Promise!vars, Held, Ordered
<1> QED BY <1>1, <1>2, HandInvariant, PTL DEF Spec, ImplementsPromise, Promise!Spec
-----------------------------------------------------------------------------
(* How many payments wait at once, and what a request that lets a           *)
(* subscription lapse has read.                                             *)

Inserting == {"insert", "charge"}
Watched == Inserting \cup Writing

\* Every payment that waits can be given to the session that registered it, none
\* of which is registering another: a session that is, has seen that none waits.
Reserved ==
    \E f \in [OpenPayments -> Sessions] :
        \A p \in OpenPayments :
            /\ ses[f[p]].pc \notin Inserting
            /\ \A q \in OpenPayments : f[p] = f[q] => p = q

Due(row) == row.status = "trialing" /\ row.trialEnds \in 1..now
LapseShape(sn) ==
    sn.pc \in Writing /\ sn.new.status = "expired" =>
        sn.sub.status = "expired" \/ Due(sn.sub)

LapseInv == Reserved /\ \A s \in Sessions : LapseShape(ses[s])

LEMMA NoneReserved == ASSUME OpenPayments' = {} PROVE Reserved'
<1>1. [p \in {} |-> 0] \in [{} -> Sessions]
  OBVIOUS
<1> QED BY <1>1 DEF Reserved

LEMMA StillReserved ==
    ASSUME Reserved, OpenPayments' \subseteq OpenPayments,
           \A t \in Sessions : ses'[t].pc \in Inserting => ses[t].pc \in Inserting
    PROVE  Reserved'
<1>1. PICK f \in [OpenPayments -> Sessions] :
        \A p \in OpenPayments :
            /\ ses[f[p]].pc \notin Inserting
            /\ \A q \in OpenPayments : f[p] = f[q] => p = q
  BY DEF Reserved
<1> DEFINE g == [p \in OpenPayments' |-> f[p]]
<1>2. g \in [OpenPayments' -> Sessions]
  OBVIOUS
<1>3. \A p \in OpenPayments' :
        /\ ses'[g[p]].pc \notin Inserting
        /\ \A q \in OpenPayments' : g[p] = g[q] => p = q
  BY <1>1
<1> HIDE DEF g
<1> QED BY <1>2, <1>3 DEF Reserved

LEMMA OneMoreReserved ==
    ASSUME Reserved, NEW s \in Sessions, NEW pay, ses[s].pc \in Inserting,
           OpenPayments' \subseteq OpenPayments \cup {pay},
           ses \in [Sessions -> Session], ses' = [ses EXCEPT ![s] = Idle]
    PROVE  Reserved'
<1>1. PICK f \in [OpenPayments -> Sessions] :
        \A p \in OpenPayments :
            /\ ses[f[p]].pc \notin Inserting
            /\ \A q \in OpenPayments : f[p] = f[q] => p = q
  BY DEF Reserved
<1> DEFINE g == [p \in OpenPayments' |-> IF p \in OpenPayments THEN f[p] ELSE s]
<1>2. g \in [OpenPayments' -> Sessions]
  BY <1>1
<1>3. \A p \in OpenPayments : f[p] # s /\ f[p] \in Sessions
  BY <1>1
<1>4. \A t \in Sessions : ses'[t].pc \in Inserting => ses[t].pc \in Inserting /\ t # s
  BY DEF Idle, Inserting
<1>5. \A p \in OpenPayments' : ses'[g[p]].pc \notin Inserting
  BY <1>1, <1>3, <1>4
<1>6. \A p, q \in OpenPayments' : g[p] = g[q] => p = q
  BY <1>1, <1>3
<1> HIDE DEF g
<1> QED BY <1>2, <1>5, <1>6 DEF Reserved

LEMMA LapseStep ==
    ASSUME HandInv, LapseInv, [Next]_vars PROVE LapseInv'
<1>0. CASE UNCHANGED vars
  <2>1. OpenPayments' = OpenPayments /\ ses' = ses /\ now' = now
    BY <1>0 DEF OpenPayments, vars
  <2>2. Reserved'
    BY <2>1, StillReserved DEF LapseInv
  <2> QED BY <2>1, <2>2 DEF LapseInv, LapseShape, Due
<1>1. CASE Tick
  <2>1. OpenPayments' = OpenPayments /\ ses' = ses /\ now' = now + 1 /\ now \in Nat
    BY <1>1 DEF Tick, OpenPayments, HandInv, TypeOK
  <2>2. Reserved'
    BY <2>1, StillReserved DEF LapseInv
  <2>3. \A t \in Sessions : Due(ses[t].sub) => Due(ses[t].sub)'
    BY <2>1 DEF Due
  <2>4. \A t \in Sessions : LapseShape(ses[t])'
    BY <2>1, <2>3 DEF LapseInv, LapseShape
  <2> QED BY <2>2, <2>4 DEF LapseInv
<1>2. ASSUME NEW s \in Sessions, Step(s) PROVE LapseInv'
  <2> DEFINE sn == ses[s]
  <2>a. /\ sn \in Session /\ SessionShape(sn) /\ \A t \in Sessions : LapseShape(ses[t])
        /\ ses \in [Sessions -> Session] /\ payments \in [Payments -> PayRow]
        /\ sub \in SubRow /\ Reserved
    BY DEF HandInv, Shape, TypeOK, LapseInv
  <2>n. now' = now
    BY <1>2
    DEF Step, Begin, BeginMe, BeginCheckout, BeginCancel, BeginSetPlan, BeginUnlock, BeginConfirm,
        Enter, Ensure, EnsureRead, EnsureCreate, Refresh, ExpireCommit, Sync, SetPlanCommit,
        CommitFails, Checkout, CheckPending, InsertPayment, ChargeCommit, Settle, ReadPayment,
        ReadPaymentSub, ConfirmCommit, CancelCommit, Join, JoinInsert, JoinRead, JoinCommit,
        Wipe, Abort
  <2>b. ASSUME NEW new, ses' = [ses EXCEPT ![s] = new], LapseShape(new),
               new.pc \in Inserting => sn.pc \in Inserting,
               OpenPayments' \subseteq OpenPayments
        PROVE  LapseInv'
    <3>1. \A t \in Sessions : ses'[t] = (IF t = s THEN new ELSE ses[t])
      BY <2>a, <2>b
    <3>2. Reserved'
      BY <2>a, <2>b, <3>1, StillReserved
    <3>3. \A t \in Sessions : LapseShape(ses[t])'
      BY <2>a, <2>b, <2>n, <3>1 DEF LapseShape, Due
    <3> QED BY <3>2, <3>3 DEF LapseInv
  <2>c. ASSUME NEW new, ses' = [ses EXCEPT ![s] = new], new.pc \notin Watched,
               OpenPayments' \subseteq OpenPayments
        PROVE  LapseInv'
    BY <2>b, <2>c DEF LapseShape, Watched
  <2>d. ASSUME ses' = [ses EXCEPT ![s] = Idle], OpenPayments' \subseteq OpenPayments
        PROVE  LapseInv'
    BY <2>c, <2>d DEF Idle, Watched, Inserting, Writing
  <2>e. payments' = payments => OpenPayments' = OpenPayments
    BY DEF OpenPayments
  <2>f. ASSUME UNCHANGED <<sub, payments>>, NEW new, ses' = [ses EXCEPT ![s] = new],
               new.pc \notin Inserting, new.sub = sub,
               new.new.status = "expired" => sub.status = "expired" \/ Due(sub)
        PROVE  LapseInv'
    BY <2>b, <2>e, <2>f DEF LapseShape
  <2>g. ASSUME UNCHANGED <<sub, payments>>, ses' = [ses EXCEPT ![s] = Resume(sn, sub)]
        PROVE  LapseInv'
    <3>1. CASE sn.op = "checkout" /\ sub.plan # sn.want
      <4>1. Resume(sn, sub) = [sn EXCEPT !.pc = "pending", !.sub = sub]
        BY <3>1 DEF Resume
      <4>2. [sn EXCEPT !.pc = "pending", !.sub = sub].pc = "pending"
        BY <2>a DEF Session
      <4> QED BY <2>c, <2>e, <2>g, <4>1, <4>2 DEF Watched, Inserting, Writing
    <3>2. CASE sn.op \in {"set_plan", "unlock"}
      <4> DEFINE paid == ApplyPlan(sub, sn.want)
                 new == [sn EXCEPT !.pc = "sync", !.sub = sub, !.new = paid]
      <4>1. Resume(sn, sub) = new
        BY <3>2 DEF Resume
      <4>2. paid.status = "active"
        BY <2>a DEF ApplyPlan, SubRow
      <4> HIDE DEF paid
      <4>3. new.pc = "sync" /\ new.sub = sub /\ new.new = paid
        BY <2>a DEF Session
      <4> HIDE DEF new
      <4> QED BY <2>f, <2>g, <4>1, <4>2, <4>3 DEF Inserting
    <3>3. CASE ~(sn.op = "checkout" /\ sub.plan # sn.want) /\ sn.op \notin {"set_plan", "unlock"}
      <4>1. Resume(sn, sub) = Idle
        BY <3>3 DEF Resume
      <4> QED BY <2>d, <2>e, <2>g, <4>1
    <3> QED BY <3>1, <3>2, <3>3
  <2>1. CASE BeginMe(s) \/ BeginSetPlan(s) \/ BeginUnlock(s) \/ BeginCheckout(s) \/ BeginCancel(s)
    <3>1. ASSUME NEW op, NEW u, NEW pay, NEW want, NEW pc \in {"ensure", "pay"},
                 Enter(s, op, u, pay, want, pc)
          PROVE  LapseInv'
      <4>1. [Idle EXCEPT !.op = op, !.pc = pc, !.actor = u, !.pay = pay, !.want = want,
                         !.org = orgPlan, !.usr[u] = userPlan[u]].pc \in {"ensure", "pay"}
        BY DEF Idle
      <4> QED BY <2>c, <2>e, <3>1, <4>1 DEF Enter, Watched, Inserting, Writing
    <3>2. CASE BeginMe(s)
      BY <3>1, <3>2 DEF BeginMe
    <3>3. CASE BeginSetPlan(s)
      BY <3>1, <3>3 DEF BeginSetPlan
    <3>4. CASE BeginUnlock(s)
      BY <3>1, <3>4 DEF BeginUnlock
    <3>5. CASE BeginCheckout(s)
      BY <3>1, <3>5 DEF BeginCheckout
    <3>6. CASE BeginCancel(s)
      BY <3>1, <3>6 DEF BeginCancel
    <3> QED BY <2>1, <3>2, <3>3, <3>4, <3>5, <3>6
  <2>2. CASE BeginConfirm(s)
    BY <2>2, <2>c, <2>e DEF BeginConfirm, Idle, Watched, Inserting, Writing
  <2>3. CASE EnsureRead(s)
    <3>1. CASE sub = NoSub
      <4>1. ~TrialDue(sub)
        BY <3>1 DEF TrialDue, NoSub
      <4>2. ses' = [ses EXCEPT ![s] = [sn EXCEPT !.pc = "create"]]
        BY <2>3, <3>1, <4>1 DEF EnsureRead
      <4>3. [sn EXCEPT !.pc = "create"].pc \notin Watched
        BY <2>a DEF Session, Watched, Inserting, Writing
      <4> QED BY <2>3, <2>c, <2>e, <4>2, <4>3 DEF EnsureRead
    <3>2. CASE sub # NoSub /\ TrialDue(sub)
      <4> DEFINE late == Expired(sub)
                 new == [sn EXCEPT !.pc = "sync", !.sub = sub, !.new = late]
      <4>1. ses' = [ses EXCEPT ![s] = new]
        BY <2>3, <3>2 DEF EnsureRead
      <4> HIDE DEF late
      <4>2. new.pc = "sync" /\ new.sub = sub
        BY <2>a DEF Session
      <4>3. Due(sub)
        <5>1. now \in Nat /\ sub.trialEnds \in Nat
          BY <2>a DEF HandInv, TypeOK, SubRow
        <5> QED BY <3>2, <5>1 DEF TrialDue, Due, NoTrial
      <4> HIDE DEF new
      <4> QED BY <2>3, <2>f, <4>1, <4>2, <4>3 DEF EnsureRead, Inserting
    <3>3. CASE sub # NoSub /\ ~TrialDue(sub)
      BY <2>3, <2>g, <3>3 DEF EnsureRead
    <3> QED BY <3>1, <3>2, <3>3
  <2>4. CASE EnsureCreate(s)
    <3>1. CASE sub = NoSub
      <4>1. [sn EXCEPT !.pc = "refresh", !.sub = sub'].pc = "refresh"
        BY <2>a DEF Session
      <4>2. ses' = [ses EXCEPT ![s] = [sn EXCEPT !.pc = "refresh", !.sub = sub']]
        BY <2>4, <3>1 DEF EnsureCreate
      <4> QED BY <2>4, <2>c, <2>e, <4>1, <4>2 DEF EnsureCreate, Watched, Inserting, Writing
    <3>2. CASE sub # NoSub
      BY <2>4, <2>d, <2>e, <3>2 DEF EnsureCreate
    <3> QED BY <3>1, <3>2
  <2>5. CASE Refresh(s)
    BY <2>5, <2>d, <2>e, <2>g DEF Refresh
  <2>6. CASE ExpireCommit(s)
    <3>1. KeepOwn(sn).pc \notin Watched
      BY <2>a DEF KeepOwn, Session, Watched, Inserting, Writing
    <3> QED BY <2>6, <2>c, <2>e, <3>1 DEF ExpireCommit
  <2>7. CASE Sync(s)
    <3>1. /\ LoadCopies(sn).pc = "commit" /\ LoadCopies(sn).sub = sn.sub
          /\ LoadCopies(sn).new = sn.new
      BY <2>a DEF LoadCopies, Session
    <3>2. LapseShape(LoadCopies(sn))
      BY <2>7, <2>a, <3>1 DEF Sync, LapseShape, Writing
    <3> QED BY <2>7, <2>b, <2>e, <3>1, <3>2 DEF Sync, Inserting
  <2>8. CASE SetPlanCommit(s) \/ CommitFails(s) \/ JoinCommit(s) \/ Abort(s)
    BY <2>8, <2>d, <2>e DEF SetPlanCommit, CommitFails, JoinCommit, Abort
  <2>9. CASE CheckPending(s)
    <3>1. CASE OpenPayments # {}
      BY <2>9, <2>d, <2>e, <3>1 DEF CheckPending
    <3>2. CASE OpenPayments = {}
      <4>1. [sn EXCEPT !.pc = "insert"].pc = "insert"
        BY <2>a DEF Session
      <4>2. ses' = [ses EXCEPT ![s] = [sn EXCEPT !.pc = "insert"]] /\ OpenPayments' = {}
        BY <2>9, <2>e, <3>2 DEF CheckPending
      <4>3. \A t \in Sessions : LapseShape(ses[t])'
        BY <2>a, <2>n, <4>1, <4>2 DEF LapseShape, Due, Writing
      <4>4. Reserved'
        BY <4>2, NoneReserved
      <4> QED BY <4>3, <4>4 DEF LapseInv
    <3> QED BY <3>1, <3>2
  <2>10. CASE InsertPayment(s)
    <3>1. [sn EXCEPT !.pc = "charge"].pc = "charge"
      BY <2>a DEF Session
    <3>2. LapseShape([sn EXCEPT !.pc = "charge"])
      BY <3>1 DEF LapseShape, Writing
    <3> QED BY <2>10, <2>b, <2>d, <2>e, <3>1, <3>2 DEF InsertPayment, Inserting
  <2>11. CASE ReadPayment(s)
    BY <2>11, <2>a, <2>c, <2>d, <2>e DEF ReadPayment, Session, Watched, Inserting, Writing
  <2>12. CASE ReadPaymentSub(s)
    <3> DEFINE paid == ApplyPlan(sub, sn.want)
               failed == AfterFail(sub)
    <3>1. paid.status # "expired" /\ (failed.status = "expired" => sub.status = "expired")
      BY <2>a DEF ApplyPlan, AfterFail, SubRow
    <3> HIDE DEF paid, failed
    <3> DEFINE confirm == [sn EXCEPT !.pc = "sync", !.sub = sub, !.new = paid]
               cancel == [sn EXCEPT !.pc = "commit", !.sub = sub, !.new = failed]
    <3>2. /\ confirm.pc = "sync" /\ confirm.sub = sub /\ confirm.new = paid
          /\ cancel.pc = "commit" /\ cancel.sub = sub /\ cancel.new = failed
      BY <2>a DEF Session
    <3>3. ses' = [ses EXCEPT ![s] = confirm] \/ ses' = [ses EXCEPT ![s] = cancel]
      BY <2>12 DEF ReadPaymentSub, paid, failed
    <3> HIDE DEF confirm, cancel
    <3>4. UNCHANGED <<sub, payments>>
      BY <2>12 DEF ReadPaymentSub
    <3> QED BY <2>f, <3>1, <3>2, <3>3, <3>4 DEF Inserting
  <2>13. CASE JoinInsert(s)
    BY <2>13, <2>c, <2>e DEF JoinInsert, Idle, Watched, Inserting, Writing
  <2>14. CASE JoinRead(s)
    BY <2>14, <2>a, <2>c, <2>e DEF JoinRead, Session, Watched, Inserting, Writing
  <2>15. CASE Wipe(s)
    <3>1. ses' = [ses EXCEPT ![s] = sn] /\ sn.pc \notin Watched
      BY <2>15, <2>a DEF Wipe, Watched, Inserting, Writing
    <3>2. OpenPayments' \subseteq OpenPayments
      BY <2>15, <2>a DEF Wipe, OpenPayments, PayRow, Open
    <3> QED BY <2>c, <3>1, <3>2
  <2>16. CASE ChargeCommit(s)
    <3>1. sn.pay \in Payments /\ sn.pc = "charge"
      BY <2>16, <2>a DEF ChargeCommit, SessionShape
    <3>2. \A p \in Payments \ {sn.pay} : payments'[p] = payments[p]
      BY <2>16, <2>a, <3>1 DEF ChargeCommit
    <3>3. OpenPayments' \subseteq OpenPayments \cup {sn.pay}
      BY <3>2 DEF OpenPayments
    <3>4. ses' = [ses EXCEPT ![s] = Idle]
      BY <2>16 DEF ChargeCommit
    <3>5. Reserved'
      <4>1. ses[s].pc \in Inserting
        BY <3>1 DEF Inserting
      <4> QED BY <2>a, <3>3, <3>4, <4>1, OneMoreReserved
    <3>6. \A t \in Sessions : LapseShape(ses[t])'
      BY <2>a, <2>n, <3>4 DEF LapseShape, Due, Idle, Writing
    <3> QED BY <3>5, <3>6 DEF LapseInv
  <2>17. CASE ConfirmCommit(s) \/ CancelCommit(s)
    <3>1. sn.op \in Settling /\ sn.pay \in Payments
      BY <2>17, <2>a DEF ConfirmCommit, CancelCommit, SessionShape, Settling
    <3>2. OpenPayments' \subseteq OpenPayments
      BY <2>17, <2>a, <3>1
      DEF ConfirmCommit, CancelCommit, WritePayment, FlushAttr, PayRow, OpenPayments, Open
    <3> QED BY <2>17, <2>d, <3>2 DEF ConfirmCommit, CancelCommit
  <2> QED
    BY <1>2, <2>1, <2>2, <2>3, <2>4, <2>5, <2>6, <2>7, <2>8, <2>9, <2>10, <2>11, <2>12,
       <2>13, <2>14, <2>15, <2>16, <2>17
    DEF Step, Begin, Ensure, Checkout, Settle, Join
<1> QED BY <1>0, <1>1, <1>2 DEF Next

LEMMA LapseInvariant == Spec => [](HandInv /\ LapseInv)
<1>1. Init => LapseInv
  <2> SUFFICES ASSUME Init PROVE LapseInv
    OBVIOUS
  <2>1. OpenPayments = {} /\ \A s \in Sessions : ses[s] = Idle
    BY DEF Init, OpenPayments, NoPayRow, Open
  <2>2. [p \in {} |-> 0] \in [{} -> Sessions]
    OBVIOUS
  <2>3. Reserved
    BY <2>1, <2>2 DEF Reserved
  <2>4. \A s \in Sessions : LapseShape(ses[s])
    BY <2>1 DEF LapseShape, Idle, Writing
  <2> QED BY <2>3, <2>4 DEF LapseInv
<1>2. HandInv /\ LapseInv /\ [Next]_vars => LapseInv'
  BY LapseStep
<1> QED BY <1>1, <1>2, HandInvariant, PTL DEF Spec

\* However checkouts overlap, there are never more payments that wait than
\* requests served at a time: whoever registers a payment saw that none waited,
\* and registers no more before it has seen so again.
THEOREM OpenWithinRequestsThm ==
    ASSUME IsFiniteSet(Sessions) PROVE Spec => []OpenWithinRequests
<1>1. LapseInv => OpenWithinRequests
  <2> SUFFICES ASSUME LapseInv PROVE Cardinality(OpenPayments) <= Cardinality(Sessions)
    BY DEF OpenWithinRequests
  <2>1. PICK f \in [OpenPayments -> Sessions] :
          \A p, q \in OpenPayments : f[p] = f[q] => p = q
    BY DEF LapseInv, Reserved
  <2>2. f \in Injection(OpenPayments, Sessions)
    BY <2>1 DEF Injection, IsInjective
  <2> QED BY <2>2, FS_Injection
<1> QED BY <1>1, LapseInvariant, PTL

\* However requests overlap, a subscription expires only by one that read it on
\* trial with its end passed: no other commit of a request makes it 'expired'.
THEOREM OnlyTrialsExpireThm == Spec => OnlyTrialsExpire
<1>1. HandInv /\ LapseInv /\ [Next]_vars =>
        [sub'.id = sub.id /\ sub.status # "expired" /\ sub'.status = "expired" =>
            \E s \in Sessions : SawTrialEnd(s)]_vars
  <2> SUFFICES ASSUME HandInv, LapseInv, [Next]_vars, sub'.id = sub.id,
                      sub.status # "expired", sub'.status = "expired"
               PROVE  \E s \in Sessions : SawTrialEnd(s)
    OBVIOUS
  <2>0. sub' # sub
    OBVIOUS
  <2>1. CASE Tick \/ UNCHANGED vars
    BY <2>0, <2>1 DEF Tick, vars
  <2>2. ASSUME NEW s \in Sessions, Step(s) PROVE \E t \in Sessions : SawTrialEnd(t)
    <3> DEFINE sn == ses[s]
    <3>a. /\ sn.sub \in SubRow /\ sn.new \in SubRow /\ sn.want \in Plans /\ sub \in SubRow
          /\ LapseShape(sn)
      BY DEF HandInv, TypeOK, Session, LapseInv
    <3>1. CASE ExpireCommit(s) \/ SetPlanCommit(s) \/ ConfirmCommit(s) \/ CancelCommit(s)
      <4>1. sn.pc = "commit" /\ sn.sub.id = sub.id /\ sub' = Flush(sub, sn.sub, sn.new)
        BY <3>1 DEF ExpireCommit, SetPlanCommit, ConfirmCommit, CancelCommit, WriteSub, Gone
      <4>2. sub'.status = FlushAttr(sub.status, sn.sub.status, sn.new.status)
        BY <3>a, <4>1, FlushIs
      <4>3. sn.new.status = "expired" /\ sn.sub.status # "expired"
        BY <4>2 DEF FlushAttr
      <4> QED BY <3>a, <4>1, <4>3 DEF LapseShape, Due, SawTrialEnd, Writing
    <3>2. CASE ChargeCommit(s)
      <4>1. PICK result \in GatewayResults :
              sub' = Flush(sub, sn.sub, AfterCharge(sn.sub, sn.want, result))
        BY <3>2 DEF ChargeCommit
      <4> DEFINE new == AfterCharge(sn.sub, sn.want, result)
      <4>2. new \in SubRow /\ new.status \in {sn.sub.status, "active", "pending"}
        BY <3>a, ChargedIs
      <4>3. sub' = Flush(sub, sn.sub, new)
        BY <4>1
      <4> HIDE DEF new
      <4>4. sub'.status = FlushAttr(sub.status, sn.sub.status, new.status)
        BY <3>a, <4>2, <4>3, FlushIs
      <4> QED BY <4>2, <4>4 DEF FlushAttr
    <3>3. CASE EnsureCreate(s)
      BY <2>0, <3>3 DEF EnsureCreate, NewTrial
    <3>4. CASE Wipe(s)
      BY <3>4 DEF Wipe, NoSub
    <3>5. CASE \/ Begin(s) \/ Sync(s) \/ CommitFails(s) \/ Join(s) \/ Abort(s)
               \/ EnsureRead(s) \/ Refresh(s) \/ CheckPending(s) \/ InsertPayment(s)
               \/ ReadPayment(s) \/ ReadPaymentSub(s)
      <4>1. UNCHANGED sub
        BY <3>5 DEF Begin, BeginMe, BeginCheckout, BeginCancel, BeginSetPlan, BeginUnlock,
                    BeginConfirm, Enter, Sync, CommitFails, Join, JoinInsert, JoinRead,
                    JoinCommit, Abort, EnsureRead, Refresh, CheckPending, InsertPayment,
                    ReadPayment, ReadPaymentSub
      <4> QED BY <2>0, <4>1
    <3> QED BY <2>2, <3>1, <3>2, <3>3, <3>4, <3>5 DEF Step, Ensure, Checkout, Settle
  <2> QED BY <2>1, <2>2 DEF Next
<1> QED BY <1>1, LapseInvariant, PTL DEF Spec, OnlyTrialsExpire

-----------------------------------------------------------------------------
(* The copies.                                                              *)

\* However requests overlap, one that writes a plan before anything it loaded has
\* changed leaves it in the subscription and in every copy.
THEOREM CopiesFollowThm == Spec => CopiesFollow
<1>1. HandInv /\ [Next]_vars =>
        [\A s \in Sessions :
            /\ ses[s].pc = "commit" /\ ses[s].op # "cancel" /\ AsLoaded(s)
            /\ ses'[s] # ses[s] /\ sub' # sub
            => orgPlan' = sub'.plan /\ \A u \in Members : userPlan'[u] = sub'.plan]_vars
  <2> SUFFICES ASSUME HandInv, Next, NEW s \in Sessions,
                      ses[s].pc = "commit", ses[s].op # "cancel", AsLoaded(s),
                      ses'[s] # ses[s], sub' # sub
               PROVE  orgPlan' = sub'.plan /\ \A u \in Members : userPlan'[u] = sub'.plan
    OBVIOUS
  <2> DEFINE sn == ses[s]
  <2>1. /\ ses \in [Sessions -> Session] /\ sn \in Session /\ sub \in SubRow
        /\ sn.sub \in SubRow /\ sn.new \in SubRow
    BY DEF HandInv, TypeOK, Session
  <2>2. ~Tick
    BY DEF Tick
  <2>3. PICK t \in Sessions : Step(t)
    BY <2>2 DEF Next
  <2>4. t = s
    <3>1. \A z \in Sessions \ {t} : ses'[z] = ses[z]
      BY <2>1, <2>3
      DEF Step, Begin, BeginMe, BeginCheckout, BeginCancel, BeginSetPlan, BeginUnlock, BeginConfirm,
          Enter, Ensure, EnsureRead, EnsureCreate, Refresh, ExpireCommit, Sync, SetPlanCommit,
          CommitFails, Checkout, CheckPending, InsertPayment, ChargeCommit, Settle, ReadPayment,
          ReadPaymentSub, ConfirmCommit, CancelCommit, Join, JoinInsert, JoinRead, JoinCommit,
          Wipe, Abort
    <3> QED BY <3>1
  <2>5. ExpireCommit(s) \/ SetPlanCommit(s) \/ ConfirmCommit(s)
    BY <2>3, <2>4
    DEF Step, Begin, BeginMe, BeginCheckout, BeginCancel, BeginSetPlan, BeginUnlock, BeginConfirm,
        Enter, Ensure, EnsureRead, EnsureCreate, Refresh, Sync, CommitFails, Checkout,
        CheckPending, InsertPayment, ChargeCommit, Settle, ReadPayment, ReadPaymentSub,
        CancelCommit, Join, JoinInsert, JoinRead, JoinCommit, Wipe, Abort
  <2>6. WriteSub(s) /\ WriteCopies(s)
    BY <2>5 DEF ExpireCommit, SetPlanCommit, ConfirmCommit
  <2>7. sub'.plan = FlushAttr(sub.plan, sn.sub.plan, sn.new.plan)
    BY <2>1, <2>6, FlushIs DEF WriteSub
  <2>8. sub'.plan = sn.new.plan /\ orgPlan' = sn.new.plan
    BY <2>6, <2>7 DEF WriteCopies, FlushAttr, AsLoaded
  <2>9. \A u \in Members : userPlan'[u] = sn.new.plan
    BY <2>6 DEF WriteCopies, FlushAttr, AsLoaded, Members
  <2> QED BY <2>8, <2>9
<1> QED BY <1>1, HandInvariant, PTL DEF Spec, CopiesFollow
=============================================================================
