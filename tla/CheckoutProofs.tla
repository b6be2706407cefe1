--------------------------- MODULE CheckoutProofs ---------------------------
(***************************************************************************)
(* Proofs about Checkout, for every number of sessions, threads, returns   *)
(* and orders, every bound and every set of faults.                        *)
(***************************************************************************)
EXTENDS Checkout, WellFoundedInduction, TLAPS

\* The int computation of an amount always gives an integer.
LEMMA AmountType == \A vo \in OrderProjectVO : AmountOf(vo) \in Int
<1> SUFFICES ASSUME NEW vo \in OrderProjectVO PROVE AmountOf(vo) \in Int
  OBVIOUS
<1>1. /\ SupportPrice[vo.ret] \in Int /\ Freight[vo.ret] \in Int /\ vo.returnCount \in Int
  BY CatalogueAssumption DEF OrderProjectVO
<1>2. \A x \in Int : ToInt(x) \in Int
  BY NumberAssumption DEF ToInt
<1> QED BY <1>1, <1>2 DEF AmountOf

-----------------------------------------------------------------------------
(***************************************************************************)
(* Types.  A handler step uses locals an earlier step set, and the session *)
(* of a payment, so TypeOK is inductive only together with LocalsDefined   *)
(* and PaymentsOwned.                                                      *)
(***************************************************************************)
TypedRequest(req) == req \in RequestRecord /\ LocalsOf(req)
TypeInv == TypeOK /\ LocalsDefined

\* A thread that goes idle, and one whose record is replaced by a typed one.
LEMMA IdleTyped == TypedRequest(Idle)
BY DEF TypedRequest, RequestRecord, LocalsOf, Idle, PC

LEMMA RequestTyped ==
    ASSUME TypeInv, NEW t \in Thread, NEW req, TypedRequest(req),
           request' = [request EXCEPT ![t] = req]
    PROVE  request' \in [Thread -> RequestRecord] /\ LocalsDefined'
BY DEF TypeInv, TypeOK, LocalsDefined, TypedRequest

LEMMA EndTyped ==
    ASSUME TypeInv, NEW t \in Thread, End(t)
    PROVE  request' \in [Thread -> RequestRecord] /\ LocalsDefined'
BY IdleTyped, RequestTyped DEF End

\* Going on to a step whose locals are there.
LEMMA GotoTyped ==
    ASSUME TypeInv, NEW t \in Thread, NEW pc \in PC, Goto(t, pc),
           LocalsOf([request[t] EXCEPT !.pc = pc])
    PROVE  request' \in [Thread -> RequestRecord] /\ LocalsDefined'
<1>1. request[t] \in RequestRecord
  BY DEF TypeInv, TypeOK
<1>2. [request[t] EXCEPT !.pc = pc] \in RequestRecord
  BY <1>1 DEF RequestRecord
<1>3. request' = [request EXCEPT ![t] = [request[t] EXCEPT !.pc = pc]]
  BY DEF Goto
<1> QED BY <1>2, <1>3, RequestTyped DEF TypedRequest

\* A payment whose state changes.
LEMMA PaymentTyped ==
    ASSUME TypeInv, NEW o \in OrderNum, NEW state \in PaymentState,
           payment' = [payment EXCEPT ![o].state = state]
    PROVE  payment' \in [OrderNum -> PaymentRecord]
BY DEF TypeInv, TypeOK, PaymentRecord

LEMMA NotifyTyped ==
    ASSUME TypeInv, NEW o \in OrderNum, NEW sale, Notify(o, sale)
    PROVE  notification' \in [OrderNum -> [Kind -> NotificationState]]
BY FaultAssumption DEF TypeInv, TypeOK, Notify, NotificationState

LEMMA NotifiedTyped ==
    ASSUME TypeInv, NEW o \in OrderNum, NEW k \in Kind, NEW from,
           NEW to \in NotificationState, Notified(o, k, from, to)
    PROVE  notification' \in [OrderNum -> [Kind -> NotificationState]]
BY DEF TypeInv, TypeOK, Notified

LEMMA CaptureTyped ==
    ASSUME TypeInv, NEW o \in OrderNum, NEW sale \in {"pending", "completed"}, Capture(o, sale)
    PROVE  /\ payment' \in [OrderNum -> PaymentRecord]
           /\ notification' \in [OrderNum -> [Kind -> NotificationState]]
           /\ applied' = applied
BY PaymentTyped, NotifyTyped DEF Capture, PaymentState, Captured

LEMMA TypeInit == Init => TypeInv
<1> SUFFICES ASSUME Init PROVE TypeInv
  OBVIOUS
<1>1. EmptySession \in SessionRecord
  BY DEF EmptySession, SessionRecord
<1>2. [state |-> "none", sid |-> None, total |-> 0, custom |-> None] \in PaymentRecord
  BY DEF PaymentRecord, PaymentState
<1>3. [supportmoney |-> 0, supporter |-> 0] \in ProjectRow
  BY DEF ProjectRow
<1>4. "none" \in NotificationState
  BY DEF NotificationState
<1> QED BY <1>1, <1>2, <1>3, <1>4, IdleTyped
        DEF Init, TypeInv, TypeOK, LocalsDefined, TypedRequest

LEMMA TypeStep == TypeInv /\ PaymentsOwned /\ [Next]_vars => TypeInv'
<1> SUFFICES ASSUME TypeInv, PaymentsOwned, [Next]_vars PROVE TypeInv'
  OBVIOUS
<1> USE DEF TypeInv, TypeOK, At, paypal, tables
<1>1. CASE UNCHANGED vars
  BY <1>1 DEF vars, LocalsDefined
<1>2. ASSUME NEW t \in Thread, NEW s \in Session, NEW r \in Return,
             showReturnConfirmInfo(t, s, r)
      PROVE  TypeInv'
  <2>1. [session[s] EXCEPT !.orderProjectVO = [ret |-> r, returnCount |-> Limit[r]],
                           !.projectId = ProjectOf[r]] \in SessionRecord
    <3>1. session[s] \in SessionRecord /\ ProjectOf[r] \in Project
      BY CatalogueAssumption
    <3>2. [ret |-> r, returnCount |-> Limit[r]] \in OrderProjectVO
      BY CatalogueAssumption DEF OrderProjectVO
    <3> QED BY <3>1, <3>2 DEF SessionRecord
  <2>2. session' \in [Session -> SessionRecord]
    BY <1>2, <2>1 DEF showReturnConfirmInfo
  <2> QED BY <1>2, <2>2 DEF showReturnConfirmInfo, LocalsDefined
<1>3. ASSUME NEW t \in Thread, NEW s \in Session, saveAddress(t, s)
      PROVE  TypeInv'
  BY <1>3 DEF saveAddress, LocalsDefined
<1>4. ASSUME NEW t \in Thread, NEW s \in Session, NEW n \in Count,
             showConfirmOrderInfo(t, s, n)
      PROVE  TypeInv'
  <2> DEFINE vo == [session[s].orderProjectVO EXCEPT !.returnCount = n]
             req == [Idle EXCEPT !.pc = "confirmOrder", !.sid = s,
                       !.orderProjectVO = vo, !.addressVOList = t_address[s]]
  <2>1. session[s].orderProjectVO \in OrderProjectVO
    BY <1>4 DEF showConfirmOrderInfo, SessionRecord
  <2>2. vo \in OrderProjectVO
    BY <2>1, CatalogueAssumption DEF OrderProjectVO
  <2>3. TypedRequest(req)
    BY <2>2 DEF TypedRequest, RequestRecord, LocalsOf, Idle, PC
  <2>4. request' = [request EXCEPT ![t] = req]
    BY <1>4 DEF showConfirmOrderInfo
  <2> QED BY <1>4, <2>3, <2>4, RequestTyped DEF showConfirmOrderInfo
<1>5. ASSUME NEW t \in Thread, commitConfirmOrder(t) PROVE TypeInv'
  <2>1. request[t] \in RequestRecord /\ request[t].sid \in Session
    BY <1>5 DEF commitConfirmOrder, LocalsDefined, LocalsOf
  <2>2. session' \in [Session -> SessionRecord]
    <3>1. /\ request[t].orderProjectVO \in OrderProjectVO \cup {None}
          /\ request[t].addressVOList \in Nat
      BY <2>1 DEF RequestRecord
    <3> QED BY <1>5, <2>1, <3>1, ZenonT(60) DEF commitConfirmOrder, SessionRecord
  <2> QED BY <1>5, <2>2, EndTyped DEF commitConfirmOrder
<1>6. ASSUME NEW t \in Thread, NEW s \in Session, NEW o \in OrderNum, generateOrder(t, s, o)
      PROVE  TypeInv'
  <2> DEFINE vo == session[s].orderProjectVO
             order == [orderNum |-> o, orderAmount |-> AmountOf(vo), orderProjectVO |-> vo]
             req == [Idle EXCEPT !.pc = "createPayment", !.sid = s, !.orderVO = order]
  <2>1. session[s] \in SessionRecord /\ vo \in OrderProjectVO
    BY <1>6 DEF generateOrder, SessionRecord
  <2>2. order \in OrderVO /\ AmountOf(vo) \in Int
    BY <2>1, AmountType DEF OrderVO
  <2>3. TypedRequest(req)
    BY <2>2 DEF TypedRequest, RequestRecord, LocalsOf, Idle, PC
  <2>4. request' = [request EXCEPT ![t] = req]
    BY <1>6 DEF generateOrder
  <2>5. [state |-> "assembled", sid |-> s, total |-> AmountOf(vo),
         custom |-> session[s].projectId] \in PaymentRecord
    BY <2>1, <2>2 DEF PaymentRecord, PaymentState, SessionRecord
  <2>6. payment' \in [OrderNum -> PaymentRecord]
    BY <1>6, <2>5 DEF generateOrder
  <2> QED BY <1>6, <2>3, <2>4, <2>6, RequestTyped DEF generateOrder
<1>7. ASSUME NEW t \in Thread, createPayment(t) PROVE TypeInv'
  <2>1. /\ request[t].pc = "createPayment" /\ request[t] \in RequestRecord
        /\ request[t].sid \in Session /\ request[t].orderVO \in OrderVO
    BY <1>7 DEF createPayment, LocalsDefined, LocalsOf
  <2>2. request[t].orderVO.orderNum \in OrderNum
    BY <2>1 DEF OrderVO
  <2>3. LocalsOf([request[t] EXCEPT !.pc = "redirect"])
    BY <2>1 DEF LocalsOf, RequestRecord
  <2>4. request' \in [Thread -> RequestRecord] /\ LocalsDefined'
    BY <1>7, <2>3, GotoTyped DEF createPayment, PC
  <2>5. payment' \in [OrderNum -> PaymentRecord]
    BY <1>7, <2>2, PaymentTyped DEF createPayment, PaymentState
  <2> QED BY <1>7, <2>4, <2>5 DEF createPayment
<1>8. ASSUME NEW t \in Thread, commitOrder(t) PROVE TypeInv'
  <2>1. /\ request[t].sid \in Session /\ request[t].orderVO \in OrderVO
    BY <1>8 DEF commitOrder, LocalsDefined, LocalsOf
  <2>2. session' \in [Session -> SessionRecord]
    BY <1>8, <2>1 DEF commitOrder, SessionRecord
  <2>3. payment' \in [OrderNum -> PaymentRecord]
    <3> DEFINE o == request[t].orderVO.orderNum
               state == IF payment[o].state = "created" THEN "redirected" ELSE payment[o].state
    <3>1. o \in OrderNum
      BY <2>1 DEF OrderVO
    <3>2. state \in PaymentState
      BY <3>1 DEF PaymentRecord, PaymentState
    <3>3. payment' = [payment EXCEPT ![o].state = state]
      BY <1>8 DEF commitOrder
    <3> QED BY <3>1, <3>2, <3>3, PaymentTyped
  <2> QED BY <1>8, <2>2, <2>3, EndTyped DEF commitOrder
<1>9. ASSUME NEW o \in OrderNum, approve(o) PROVE TypeInv'
  BY <1>9, PaymentTyped DEF approve, PaymentState, LocalsDefined
<1>10. ASSUME NEW t \in Thread, NEW o \in OrderNum, returnUrlMethod(t, o) PROVE TypeInv'
  <2> DEFINE sid == payment[o].sid
             req == [Idle EXCEPT !.pc = "execute", !.sid = sid,
                       !.orderVO = session[sid].orderVO, !.pay = o]
  <2>1. sid \in Session
    BY <1>10 DEF returnUrlMethod, PaymentsOwned, Captured
  <2>2. session[sid].orderVO \in OrderVO \cup {None}
    BY <2>1 DEF SessionRecord
  <2>3. TypedRequest(req)
    BY <2>1, <2>2 DEF TypedRequest, RequestRecord, LocalsOf, Idle, PC
  <2>4. request' = [request EXCEPT ![t] = req]
    BY <1>10 DEF returnUrlMethod
  <2> QED BY <1>10, <2>3, <2>4, RequestTyped DEF returnUrlMethod
<1>11. ASSUME NEW t \in Thread, NEW sale \in {"pending", "completed"}, executePayment(t, sale)
       PROVE  TypeInv'
  <2>1. /\ request[t].pc = "execute" /\ request[t] \in RequestRecord
        /\ request[t].pay \in OrderNum
    BY <1>11 DEF executePayment, LocalsDefined, LocalsOf
  <2>2. request' \in [Thread -> RequestRecord] /\ LocalsDefined'
    <3>1. CASE request[t].orderVO = None
      BY <1>11, <3>1, EndTyped DEF executePayment
    <3>2. CASE request[t].orderVO # None
      <4>1. LocalsOf([request[t] EXCEPT !.pc = "insertOrder"])
        BY <2>1, <3>2 DEF LocalsOf, RequestRecord
      <4> QED BY <1>11, <3>2, <4>1, GotoTyped DEF executePayment, PC
    <3> QED BY <3>1, <3>2
  <2> QED BY <1>11, <2>1, <2>2, CaptureTyped DEF executePayment
<1>12. ASSUME NEW t \in Thread, executeRefused(t) PROVE TypeInv'
  BY <1>12, EndTyped DEF executeRefused
<1>13. ASSUME NEW t \in Thread, NEW sale \in {"pending", "completed"}, executeReplyLost(t, sale)
       PROVE  TypeInv'
  <2>1. request[t].pay \in OrderNum
    BY <1>13 DEF executeReplyLost, LocalsDefined, LocalsOf
  <2> QED BY <1>13, <2>1, EndTyped, CaptureTyped DEF executeReplyLost
<1>14. ASSUME NEW t \in Thread, insertOrder(t) PROVE TypeInv'
  <2> DEFINE order == request[t].orderVO
             row == [orderNum |-> order.orderNum, orderAmount |-> order.orderAmount,
                     payOrderNum |-> request[t].pay]
             req == [request[t] EXCEPT !.pc = "insertOrderProject", !.orderId = Len(t_order')]
  <2>1. /\ request[t].pc = "insertOrder" /\ request[t] \in RequestRecord
        /\ request[t].pay \in OrderNum /\ order \in OrderVO /\ order # None
    BY <1>14 DEF insertOrder, LocalsDefined, LocalsOf
  <2>2. row \in OrderRow
    BY <2>1 DEF OrderRow, OrderVO
  <2>3. t_order' \in Seq(OrderRow) /\ Len(t_order') \in Nat
    BY <1>14, <2>2 DEF insertOrder
  <2>4. TypedRequest(req)
    BY <2>1, <2>3 DEF TypedRequest, RequestRecord, LocalsOf, PC
  <2>5. request' = [request EXCEPT ![t] = req]
    BY <1>14 DEF insertOrder
  <2> QED BY <1>14, <2>3, <2>4, <2>5, RequestTyped DEF insertOrder
<1>15. ASSUME NEW t \in Thread, insertOrderProject(t) PROVE TypeInv'
  <2>1. request[t] \in RequestRecord /\ request[t].orderVO \in OrderVO
    BY <1>15 DEF insertOrderProject, LocalsDefined, LocalsOf
  <2>2. [ret |-> request[t].orderVO.orderProjectVO.ret,
         returnCount |-> request[t].orderVO.orderProjectVO.returnCount,
         orderId |-> request[t].orderId] \in OrderProjectRow
    BY <2>1 DEF OrderProjectRow, OrderVO, OrderProjectVO, RequestRecord
  <2>3. t_order_project' \in Seq(OrderProjectRow)
    BY <1>15, <2>2 DEF insertOrderProject
  <2> QED BY <1>15, <2>3, EndTyped DEF insertOrderProject
<1>16. ASSUME NEW t \in Thread, insertFails(t) PROVE TypeInv'
  BY <1>16, EndTyped DEF insertFails
<1>17. ASSUME NEW t \in Thread, crash(t) PROVE TypeInv'
  BY <1>17, EndTyped DEF crash
<1>18. ASSUME NEW s \in Session, expire(s) PROVE TypeInv'
  <2>1. EmptySession \in SessionRecord
    BY DEF EmptySession, SessionRecord
  <2> QED BY <1>18, <2>1 DEF expire, LocalsDefined
<1>19. ASSUME NEW o \in OrderNum, NEW sale \in {"completed", "denied"}, settle(o, sale)
       PROVE  TypeInv'
  BY <1>19, PaymentTyped, NotifyTyped DEF settle, PaymentState, Captured, LocalsDefined
<1>20. ASSUME NEW o \in OrderNum, NEW k \in Kind, Webhook(o, k) PROVE TypeInv'
  <2> USE NotifiedTyped DEF NotificationState, LocalsDefined
  <2>1. CASE notifyUrlMethod(o, k)
    BY <2>1 DEF notifyUrlMethod
  <2>2. CASE notifyIgnored(o, k)
    BY <2>2 DEF notifyIgnored
  <2>3. CASE updateProjectMoney(o, k)
    <3>1. payment[o].total \in Int
      BY DEF PaymentRecord
    <3>2. t_project' \in [Project -> ProjectRow]
      <4> DEFINE p == payment[o].custom
                 row == [t_project[p] EXCEPT !.supportmoney = @ + payment[o].total,
                                             !.supporter = @ + 1]
      <4>1. t_project' = [t_project EXCEPT ![p] = row]
        BY <2>3 DEF updateProjectMoney
      <4>2. ASSUME p \in Project PROVE row \in ProjectRow
        <5>1. /\ t_project[p] \in ProjectRow
              /\ t_project[p].supportmoney \in Int /\ t_project[p].supporter \in Nat
          BY <4>2 DEF ProjectRow
        <5>2. /\ t_project[p].supportmoney + payment[o].total \in Int
              /\ t_project[p].supporter + 1 \in Nat
          BY <3>1, <5>1
        <5> QED BY <5>1, <5>2 DEF ProjectRow
      <4> QED BY <4>1, <4>2
    <3>3. applied' \in [OrderNum -> Nat]
      BY <2>3 DEF updateProjectMoney
    <3> QED BY <2>3, <3>2, <3>3 DEF updateProjectMoney
  <2>4. CASE updateFails(o, k)
    BY <2>4 DEF updateFails
  <2>5. CASE notifyAnswered(o, k)
    BY <2>5 DEF notifyAnswered
  <2>6. CASE notifyAnswerLost(o, k)
    BY <2>6 DEF notifyAnswerLost
  <2> QED BY <1>20, <2>1, <2>2, <2>3, <2>4, <2>5, <2>6 DEF Webhook
<1> QED
  BY <1>1, <1>2, <1>3, <1>4, <1>5, <1>6, <1>7, <1>8, <1>9, <1>10, <1>11, <1>12, <1>13,
     <1>14, <1>15, <1>16, <1>17, <1>18, <1>19, <1>20
  DEF Next, Receive, Handle, Disturb

\* Only generateOrder takes an order number, and no step gives it back.
LEMMA OwnedStep == TypeInv /\ PaymentsOwned /\ [Next]_vars => PaymentsOwned'
<1> SUFFICES ASSUME TypeInv, PaymentsOwned, [Next]_vars PROVE PaymentsOwned'
  OBVIOUS
<1> USE DEF TypeInv, TypeOK, At
<1> DEFINE Live(req) == req.pc \in {"createPayment", "redirect"}
           Keep == /\ \A o \in OrderNum : payment[o].state # "none" => payment'[o].state # "none"
                   /\ \A o \in OrderNum : payment'[o].state # "none" => payment'[o].sid \in Session
           Continue == \A t \in Thread : Live(request'[t]) =>
                         Live(request[t]) /\ request'[t].orderVO = request[t].orderVO
<1>1. \A t \in Thread : Live(request[t]) => request[t].orderVO.orderNum \in OrderNum
  BY DEF LocalsDefined, LocalsOf, OrderVO
<1>2. Keep /\ Continue => PaymentsOwned'
  BY <1>1 DEF PaymentsOwned
<1>3. payment' = payment => Keep
  BY DEF PaymentsOwned
<1>4. request' = request => Continue
  OBVIOUS
<1>5. ASSUME NEW t \in Thread, NEW req, request' = [request EXCEPT ![t] = req], ~ Live(req)
      PROVE  Continue
  BY <1>5
<1>6. ASSUME NEW t \in Thread, End(t) PROVE Continue
  BY <1>5, <1>6 DEF End, Idle
<1>7. ASSUME NEW o \in OrderNum, payment[o].state # "none", NEW state, state # "none",
             payment' = [payment EXCEPT ![o].state = state]
      PROVE  Keep
  BY <1>7 DEF PaymentsOwned, PaymentRecord
<1>8. ASSUME NEW t \in Thread, NEW s \in Session, NEW o \in OrderNum, generateOrder(t, s, o)
      PROVE  PaymentsOwned'
  <2>1. /\ payment'[o].state = "assembled" /\ payment'[o].sid = s
        /\ \A q \in OrderNum \ {o} : payment'[q] = payment[q]
    BY <1>8 DEF generateOrder
  <2>2. /\ Live(request'[t]) => request'[t].orderVO.orderNum = o
        /\ \A u \in Thread \ {t} : request'[u] = request[u]
    BY <1>8 DEF generateOrder, Idle
  <2> QED BY <1>1, <2>1, <2>2, ZenonT(60) DEF PaymentsOwned
<1>9. ASSUME NEW t \in Thread, createPayment(t) PROVE PaymentsOwned'
  <2>1. Live(request[t]) /\ request[t].orderVO.orderNum \in OrderNum
    BY <1>1, <1>9 DEF createPayment
  <2>2. Continue
    BY <1>9, <2>1 DEF createPayment, Goto, RequestRecord
  <2>3. Keep
    BY <1>7, <1>9, <2>1 DEF createPayment, PaymentsOwned
  <2> QED BY <1>2, <2>2, <2>3
<1>10. ASSUME NEW t \in Thread, commitOrder(t) PROVE PaymentsOwned'
  <2> DEFINE o == request[t].orderVO.orderNum
  <2>1. o \in OrderNum /\ payment[o].state # "none"
    BY <1>1, <1>10 DEF commitOrder, PaymentsOwned
  <2>2. Keep
    BY <1>7, <1>10, <2>1 DEF commitOrder
  <2> QED BY <1>2, <1>6, <1>10, <2>2 DEF commitOrder
<1>11. ASSUME NEW o \in OrderNum, approve(o) PROVE PaymentsOwned'
  BY <1>2, <1>4, <1>7, <1>11 DEF approve
<1>12. ASSUME NEW t \in Thread, NEW sale \in {"pending", "completed"},
              executePayment(t, sale) \/ executeReplyLost(t, sale)
       PROVE  PaymentsOwned'
  <2>1. request[t].pc = "execute" /\ request[t].pay \in OrderNum
    BY <1>12 DEF executePayment, executeReplyLost, LocalsDefined, LocalsOf
  <2>2. Keep
    BY <1>7, <1>12, <2>1 DEF executePayment, executeReplyLost, Capture
  <2>3. CASE End(t)
    BY <1>2, <1>6, <2>2, <2>3
  <2>4. CASE Goto(t, "insertOrder")
    <3>1. request' = [request EXCEPT ![t] = [request[t] EXCEPT !.pc = "insertOrder"]]
      BY <2>4 DEF Goto
    <3>2. ~ Live([request[t] EXCEPT !.pc = "insertOrder"])
      BY DEF RequestRecord
    <3> QED BY <1>2, <1>5, <2>2, <3>1, <3>2
  <2> QED BY <1>12, <2>3, <2>4 DEF executePayment, executeReplyLost
<1>13. ASSUME NEW o \in OrderNum, NEW sale \in {"completed", "denied"}, settle(o, sale)
       PROVE  PaymentsOwned'
  BY <1>2, <1>4, <1>7, <1>13 DEF settle
<1>14. ASSUME NEW t \in Thread, NEW s \in Session, NEW n \in Count,
              showConfirmOrderInfo(t, s, n)
       PROVE  PaymentsOwned'
  <2>1. Continue
    BY <1>14 DEF showConfirmOrderInfo, Idle
  <2> QED BY <1>2, <1>3, <1>14, <2>1 DEF showConfirmOrderInfo, paypal
<1>15. ASSUME NEW t \in Thread, NEW o \in OrderNum, returnUrlMethod(t, o)
       PROVE  PaymentsOwned'
  <2>1. Continue
    BY <1>15 DEF returnUrlMethod, Idle
  <2> QED BY <1>2, <1>3, <1>15, <2>1 DEF returnUrlMethod, paypal
<1>16. ASSUME NEW t \in Thread, insertOrder(t) PROVE PaymentsOwned'
  <2>1. Continue
    BY <1>16 DEF insertOrder, RequestRecord
  <2> QED BY <1>2, <1>3, <1>16, <2>1 DEF insertOrder, paypal
<1>17. ASSUME NEW t \in Thread,
              \/ commitConfirmOrder(t)
              \/ executeRefused(t)
              \/ insertOrderProject(t)
              \/ insertFails(t)
              \/ crash(t)
       PROVE  PaymentsOwned'
  <2>1. End(t) /\ payment' = payment
    BY <1>17 DEF commitConfirmOrder, executeRefused, insertOrderProject, insertFails, crash, paypal
  <2> QED BY <1>2, <1>3, <1>6, <2>1
<1>18. ASSUME NEW s \in Session,
              \/ \E t \in Thread, r \in Return : showReturnConfirmInfo(t, s, r)
              \/ \E t \in Thread : saveAddress(t, s)
              \/ expire(s)
       PROVE  PaymentsOwned'
  BY <1>2, <1>3, <1>4, <1>18 DEF showReturnConfirmInfo, saveAddress, expire, paypal
<1>19. ASSUME NEW o \in OrderNum, NEW k \in Kind, Webhook(o, k) PROVE PaymentsOwned'
  <2>1. request' = request /\ payment' = payment
    BY <1>19 DEF Webhook, notifyUrlMethod, notifyIgnored, updateProjectMoney, updateFails,
                 notifyAnswered, notifyAnswerLost
  <2> QED BY <1>2, <1>3, <1>4, <2>1
<1>20. CASE UNCHANGED vars
  BY <1>2, <1>3, <1>4, <1>20 DEF vars, paypal
<1> QED
  BY <1>8, <1>9, <1>10, <1>11, <1>12, <1>13, <1>14, <1>15, <1>16, <1>17, <1>18, <1>19, <1>20
  DEF Next, Receive, Handle, Disturb

\* Every variable of the checkout keeps its type.
THEOREM TypeCorrect == Spec => []TypeOK
<1>1. Init => PaymentsOwned
  BY DEF Init, PaymentsOwned, Idle
<1>2. Spec => [](TypeInv /\ PaymentsOwned)
  BY <1>1, TypeInit, TypeStep, OwnedStep, PTL DEF Spec
<1> QED BY <1>2, PTL DEF TypeInv

-----------------------------------------------------------------------------
(***************************************************************************)
(* Steps grouped by what they leave alone.                                 *)
(***************************************************************************)

\* Steps that change no payment, except the starting ones.
Quiet ==
    \/ \E t \in Thread :
         \/ \E s \in Session, r \in Return : showReturnConfirmInfo(t, s, r)
         \/ \E s \in Session, n \in Count : showConfirmOrderInfo(t, s, n)
         \/ \E s \in Session : saveAddress(t, s)
         \/ \E o \in OrderNum : returnUrlMethod(t, o)
         \/ commitConfirmOrder(t) \/ executeRefused(t) \/ insertFails(t) \/ crash(t)
         \/ insertOrder(t) \/ insertOrderProject(t)
    \/ \E s \in Session : expire(s)
    \/ \E o \in OrderNum, k \in Kind : Webhook(o, k)
    \/ UNCHANGED vars

\* Steps that change the state of a payment the request or PayPal holds.
Advance(o) ==
    \/ approve(o)
    \/ \E t \in Thread : commitOrder(t) /\ o = request[t].orderVO.orderNum
    \/ \E t \in Thread, sale \in {"pending", "completed"} :
         /\ o = request[t].pay
         /\ executePayment(t, sale) \/ executeReplyLost(t, sale)
    \/ \E sale \in {"completed", "denied"} : settle(o, sale)

LEMMA StepKinds ==
    ASSUME TypeInv, [Next]_vars
    PROVE  \/ Quiet
           \/ \E o \in OrderNum : Advance(o)
           \/ \E t \in Thread : createPayment(t)
           \/ \E t \in Thread, s \in Session, o \in OrderNum : generateOrder(t, s, o)
<1>1. ASSUME NEW t \in Thread, commitOrder(t) PROVE request[t].orderVO.orderNum \in OrderNum
  BY <1>1 DEF commitOrder, At, TypeInv, LocalsDefined, LocalsOf, OrderVO
<1>2. ASSUME NEW t \in Thread, NEW sale \in {"pending", "completed"},
             executePayment(t, sale) \/ executeReplyLost(t, sale)
      PROVE  request[t].pay \in OrderNum
  BY <1>2 DEF executePayment, executeReplyLost, At, TypeInv, LocalsDefined, LocalsOf
<1>3. ASSUME NEW t \in Thread, Receive(t) \/ Handle(t) \/ Disturb(t)
      PROVE  \/ Quiet
             \/ \E o \in OrderNum : Advance(o)
             \/ createPayment(t)
             \/ \E s \in Session, o \in OrderNum : generateOrder(t, s, o)
  <2>1. CASE Receive(t)
    <3>1. ASSUME NEW s \in Session, NEW r \in Return, showReturnConfirmInfo(t, s, r) PROVE Quiet
      BY <3>1 DEF Quiet
    <3>3. ASSUME NEW s \in Session, NEW n \in Count, showConfirmOrderInfo(t, s, n) PROVE Quiet
      BY <3>3 DEF Quiet
    <3>4. ASSUME NEW s \in Session, saveAddress(t, s) PROVE Quiet
      BY <3>4 DEF Quiet
    <3>2. ASSUME NEW o \in OrderNum, returnUrlMethod(t, o) PROVE Quiet
      BY <3>2 DEF Quiet
    <3> QED BY <2>1, <3>1, <3>2, <3>3, <3>4 DEF Receive
  <2>2. CASE Handle(t)
    BY <1>1, <1>2, <2>2 DEF Handle, Quiet, Advance
  <2>3. CASE Disturb(t)
    BY <1>2, <2>3 DEF Disturb, Quiet, Advance
  <2> QED BY <1>3, <2>1, <2>2, <2>3
<1>4. ASSUME NEW o \in OrderNum,
             \/ approve(o)
             \/ \E sale \in {"completed", "denied"} : settle(o, sale)
             \/ \E k \in Kind : Webhook(o, k)
      PROVE  Quiet \/ Advance(o)
  BY <1>4 DEF Quiet, Advance
<1>5. CASE \E s \in Session : expire(s)
  BY <1>5 DEF Quiet
<1>6. CASE UNCHANGED vars
  BY <1>6 DEF Quiet
<1> QED BY <1>3, <1>4, <1>5, <1>6 DEF Next

\* A quiet step starts, continues or ends handlers that create no payment.
LEMMA QuietStep ==
    ASSUME TypeInv, Quiet
    PROVE  /\ payment' = payment
           /\ \A t \in Thread : request'[t].pc = "createPayment" => request'[t] = request[t]
<1> USE DEF TypeInv, TypeOK, At, End, Idle, paypal
<1>1. ASSUME NEW t \in Thread, NEW s \in Session,
             \/ \E r \in Return : showReturnConfirmInfo(t, s, r)
             \/ saveAddress(t, s)
             \/ expire(s)
      PROVE  payment' = payment /\ request' = request
  BY <1>1 DEF showReturnConfirmInfo, saveAddress, expire
<1>2. ASSUME NEW t \in Thread, NEW s \in Session, NEW n \in Count, showConfirmOrderInfo(t, s, n)
      PROVE  /\ payment' = payment /\ request'[t].pc = "confirmOrder"
             /\ \A u \in Thread \ {t} : request'[u] = request[u]
  BY <1>2 DEF showConfirmOrderInfo
<1>3. ASSUME NEW t \in Thread, NEW o \in OrderNum, returnUrlMethod(t, o)
      PROVE  /\ payment' = payment /\ request'[t].pc = "execute"
             /\ \A u \in Thread \ {t} : request'[u] = request[u]
  BY <1>3 DEF returnUrlMethod
<1>4. ASSUME NEW t \in Thread,
             \/ commitConfirmOrder(t) \/ executeRefused(t) \/ insertFails(t) \/ crash(t)
             \/ insertOrderProject(t)
      PROVE  /\ payment' = payment /\ request'[t].pc = "idle"
             /\ \A u \in Thread \ {t} : request'[u] = request[u]
  <2>1. End(t) /\ payment' = payment
    BY <1>4 DEF commitConfirmOrder, executeRefused, insertFails, crash, insertOrderProject
  <2> QED BY <2>1
<1>5. ASSUME NEW t \in Thread, insertOrder(t)
      PROVE  /\ payment' = payment /\ request'[t].pc = "insertOrderProject"
             /\ \A u \in Thread \ {t} : request'[u] = request[u]
  BY <1>5 DEF insertOrder, RequestRecord
<1>6. ASSUME NEW o \in OrderNum, NEW k \in Kind, Webhook(o, k)
      PROVE  payment' = payment /\ request' = request
  BY <1>6 DEF Webhook, notifyUrlMethod, notifyIgnored, updateProjectMoney, updateFails,
              notifyAnswered, notifyAnswerLost
<1>7. ASSUME UNCHANGED vars PROVE payment' = payment /\ request' = request
  BY <1>7 DEF vars
<1>8. ASSUME NEW s \in Session, expire(s) PROVE payment' = payment /\ request' = request
  BY <1>8 DEF expire
<1> QED BY <1>1, <1>2, <1>3, <1>4, <1>5, <1>6, <1>7, <1>8 DEF Quiet

\* An advancing step moves one payment forward, and no request to createPayment.
LEMMA AdvanceStep ==
    ASSUME TypeInv, NEW o \in OrderNum, Advance(o)
    PROVE  /\ payment[o].state \notin {"none", "assembled", "completed", "denied"} \/ payment' = payment
           /\ payment[o].state \in Captured => payment'[o].state \in Captured
           /\ \A q \in OrderNum \ {o} : payment'[q] = payment[q]
           /\ \A t \in Thread : request'[t].pc = "createPayment" => request'[t] = request[t]
<1> USE DEF TypeInv, TypeOK, At, Captured
<1>1. CASE approve(o)
  BY <1>1 DEF approve
<1>2. ASSUME NEW t \in Thread, commitOrder(t), o = request[t].orderVO.orderNum
      PROVE  /\ payment[o].state = "created" \/ payment' = payment
             /\ \A q \in OrderNum \ {o} : payment'[q] = payment[q]
             /\ \A u \in Thread : request'[u].pc = "createPayment" => request'[u] = request[u]
  <2>1. payment[o].state # "created" => payment' = payment
    BY <1>2 DEF commitOrder, PaymentRecord
  <2>2. \A q \in OrderNum \ {o} : payment'[q] = payment[q]
    BY <1>2 DEF commitOrder
  <2>3. \A u \in Thread : request'[u].pc = "createPayment" => request'[u] = request[u]
    BY <1>2 DEF commitOrder, End, Idle
  <2> QED BY <2>1, <2>2, <2>3
<1>3. ASSUME NEW t \in Thread, NEW sale \in {"pending", "completed"}, o = request[t].pay,
             executePayment(t, sale) \/ executeReplyLost(t, sale)
      PROVE  /\ payment[o].state = "approved"
             /\ \A q \in OrderNum \ {o} : payment'[q] = payment[q]
             /\ \A u \in Thread : request'[u].pc = "createPayment" => request'[u] = request[u]
  <2>1. Capture(o, sale) /\ (End(t) \/ Goto(t, "insertOrder"))
    BY <1>3 DEF executePayment, executeReplyLost
  <2>2. \A u \in Thread : request'[u].pc = "createPayment" => request'[u] = request[u]
    BY <2>1 DEF End, Goto, Idle, RequestRecord
  <2> QED BY <2>1, <2>2 DEF Capture
<1>4. ASSUME NEW sale \in {"completed", "denied"}, settle(o, sale)
      PROVE  /\ payment[o].state = "pending" /\ payment'[o].state = sale /\ request' = request
             /\ \A q \in OrderNum \ {o} : payment'[q] = payment[q]
  BY <1>4 DEF settle, PaymentRecord
<1> QED BY <1>1, <1>2, <1>3, <1>4 DEF Advance

-----------------------------------------------------------------------------
LEMMA CreationStep == TypeInv /\ CreationExclusive /\ [Next]_vars => CreationExclusive'
<1> SUFFICES ASSUME TypeInv, CreationExclusive, [Next]_vars PROVE CreationExclusive'
  OBVIOUS
<1> USE DEF At
<1> DEFINE num(t) == request[t].orderVO.orderNum
<1>1. \A t \in Thread : request[t].pc = "createPayment" => num(t) \in OrderNum
  BY DEF TypeInv, LocalsDefined, LocalsOf, OrderVO
<1>2. CASE Quiet
  BY <1>2, QuietStep DEF CreationExclusive
<1>3. ASSUME NEW o \in OrderNum, Advance(o) PROVE CreationExclusive'
  BY <1>1, <1>3, AdvanceStep DEF CreationExclusive
<1>4. ASSUME NEW t \in Thread, createPayment(t) PROVE CreationExclusive'
  <2>1. request'[t].pc = "redirect" /\ \A u \in Thread \ {t} : request'[u] = request[u]
    BY <1>4 DEF createPayment, Goto, TypeInv, TypeOK, RequestRecord
  <2>2. \A q \in OrderNum \ {num(t)} : payment'[q] = payment[q]
    BY <1>4 DEF createPayment, TypeInv, TypeOK
  <2>3. \A u \in Thread \ {t} : request[u].pc = "createPayment" => num(u) # num(t)
    BY <1>4 DEF createPayment, CreationExclusive
  <2> QED BY <1>1, <2>1, <2>2, <2>3 DEF CreationExclusive
<1>5. ASSUME NEW t \in Thread, NEW s \in Session, NEW o \in OrderNum, generateOrder(t, s, o)
      PROVE  CreationExclusive'
  <2>1. payment[o].state = "none" /\ payment'[o].state = "assembled"
    BY <1>5 DEF generateOrder, NextOrderNum, TypeInv, TypeOK
  <2>2. \A q \in OrderNum \ {o} : payment'[q] = payment[q]
    BY <1>5 DEF generateOrder, TypeInv, TypeOK
  <2>3. /\ request'[t].orderVO.orderNum = o
        /\ \A u \in Thread \ {t} : request'[u] = request[u]
    BY <1>5 DEF generateOrder, TypeInv, TypeOK, Idle
  <2> QED BY <1>1, <2>1, <2>2, <2>3 DEF CreationExclusive
<1> QED BY <1>2, <1>3, <1>4, <1>5, StepKinds

\* Money taken stays taken.
LEMMA CapturedStays ==
    ASSUME TypeInv, CreationExclusive, [Next]_vars, NEW o \in OrderNum,
           payment[o].state \in Captured
    PROVE  payment'[o].state \in Captured
<1>1. CASE Quiet
  BY <1>1, QuietStep
<1>2. ASSUME NEW q \in OrderNum, Advance(q) PROVE payment'[o].state \in Captured
  BY <1>2, AdvanceStep
<1>3. ASSUME NEW t \in Thread, createPayment(t) PROVE payment'[o].state \in Captured
  <2>1. o # request[t].orderVO.orderNum
    BY <1>3 DEF createPayment, At, CreationExclusive, Captured
  <2> QED BY <1>3, <2>1 DEF createPayment, TypeInv, TypeOK
<1>4. ASSUME NEW t \in Thread, NEW s \in Session, NEW q \in OrderNum, generateOrder(t, s, q)
      PROVE  payment'[o].state \in Captured
  BY <1>4 DEF generateOrder, NextOrderNum, TypeInv, TypeOK, Captured
<1> QED BY <1>1, <1>2, <1>3, <1>4, StepKinds

-----------------------------------------------------------------------------
(***************************************************************************)
(* The amount of an order is computed once and travels with its return.    *)
(***************************************************************************)
Consistent(vo) == vo # None => vo.orderAmount = AmountOf(vo.orderProjectVO)

LEMMA AmountsStep == TypeInv /\ PaymentsOwned /\ AmountsComputed /\ [Next]_vars => AmountsComputed'
<1> SUFFICES ASSUME TypeInv, PaymentsOwned, AmountsComputed, [Next]_vars PROVE AmountsComputed'
  OBVIOUS
<1> USE DEF TypeInv, TypeOK, At
<1> DEFINE Sessions == \A s \in Session : Consistent(session'[s].orderVO)
           Requests == \A t \in Thread : Consistent(request'[t].orderVO)
<1>0. /\ \A s \in Session : Consistent(session[s].orderVO)
      /\ \A t \in Thread : Consistent(request[t].orderVO)
  BY DEF AmountsComputed, Consistent
<1>1. Sessions /\ Requests => AmountsComputed'
  BY DEF AmountsComputed, Consistent, AmountOf, ToInt
<1>2. session' = session => Sessions
  BY <1>0
<1>3. request' = request => Requests
  BY <1>0
<1>4. ASSUME NEW t \in Thread, NEW req, Consistent(req.orderVO),
             request' = [request EXCEPT ![t] = req]
      PROVE  Requests
  BY <1>0, <1>4
<1>5. ASSUME NEW t \in Thread, End(t) PROVE Requests
  <2>1. Consistent(Idle.orderVO)
    BY DEF Consistent, Idle
  <2> QED BY <1>4, <1>5, <2>1 DEF End
<1>6. ASSUME NEW t \in Thread, NEW pc, Goto(t, pc) PROVE Requests
  <2>1. \A u \in Thread : request'[u].orderVO = request[u].orderVO
    BY <1>6 DEF Goto, RequestRecord
  <2> QED BY <1>0, <2>1
<1>7. ASSUME NEW t \in Thread, NEW s \in Session, NEW r \in Return, showReturnConfirmInfo(t, s, r)
      PROVE  AmountsComputed'
  <2>1. \A u \in Session : session'[u].orderVO = session[u].orderVO
    BY <1>7 DEF showReturnConfirmInfo, SessionRecord
  <2> QED BY <1>0, <1>1, <1>3, <1>7, <2>1 DEF showReturnConfirmInfo
<1>8. ASSUME NEW t \in Thread, NEW s \in Session, saveAddress(t, s) PROVE AmountsComputed'
  BY <1>1, <1>2, <1>3, <1>8 DEF saveAddress
<1>9. ASSUME NEW t \in Thread, NEW s \in Session, NEW n \in Count, showConfirmOrderInfo(t, s, n)
      PROVE  AmountsComputed'
  <2> DEFINE req == [Idle EXCEPT !.pc = "confirmOrder", !.sid = s,
                       !.orderProjectVO = [session[s].orderProjectVO EXCEPT !.returnCount = n],
                       !.addressVOList = t_address[s]]
  <2>1. Consistent(req.orderVO)
    BY DEF Consistent, Idle
  <2>2. request' = [request EXCEPT ![t] = req]
    BY <1>9 DEF showConfirmOrderInfo
  <2>3. Requests
    BY <1>4, <2>1, <2>2
  <2> QED BY <1>1, <1>2, <1>9, <2>3 DEF showConfirmOrderInfo
<1>10. ASSUME NEW t \in Thread, commitConfirmOrder(t) PROVE AmountsComputed'
  <2>1. \A u \in Session : session'[u].orderVO = session[u].orderVO
    BY <1>10 DEF commitConfirmOrder, SessionRecord
  <2>2. Sessions
    BY <1>0, <2>1
  <2> QED BY <1>1, <1>5, <1>10, <2>2 DEF commitConfirmOrder
<1>11. ASSUME NEW t \in Thread, NEW s \in Session, NEW o \in OrderNum, generateOrder(t, s, o)
       PROVE  AmountsComputed'
  <2> DEFINE vo == session[s].orderProjectVO
             order == [orderNum |-> o, orderAmount |-> AmountOf(vo), orderProjectVO |-> vo]
             req == [Idle EXCEPT !.pc = "createPayment", !.sid = s, !.orderVO = order]
  <2>1. Consistent(req.orderVO)
    BY DEF Consistent, Idle
  <2>2. request' = [request EXCEPT ![t] = req]
    BY <1>11 DEF generateOrder
  <2>3. Requests
    BY <1>4, <2>1, <2>2
  <2> QED BY <1>1, <1>2, <1>11, <2>3 DEF generateOrder
<1>12. ASSUME NEW t \in Thread, commitOrder(t) PROVE AmountsComputed'
  <2>1. /\ session'[request[t].sid].orderVO = request[t].orderVO
        /\ \A u \in Session \ {request[t].sid} : session'[u] = session[u]
    BY <1>12 DEF commitOrder, SessionRecord, LocalsDefined, LocalsOf
  <2>2. Sessions
    BY <1>0, <2>1
  <2> QED BY <1>1, <1>5, <1>12, <2>2 DEF commitOrder
<1>13. ASSUME NEW t \in Thread, NEW o \in OrderNum, returnUrlMethod(t, o) PROVE AmountsComputed'
  <2> DEFINE sid == payment[o].sid
             req == [Idle EXCEPT !.pc = "execute", !.sid = sid,
                       !.orderVO = session[sid].orderVO, !.pay = o]
  <2>1. sid \in Session
    BY <1>13 DEF returnUrlMethod, PaymentsOwned, Captured
  <2>2. Consistent(req.orderVO)
    BY <1>0, <2>1 DEF Idle
  <2>3. request' = [request EXCEPT ![t] = req]
    BY <1>13 DEF returnUrlMethod
  <2>4. Requests
    BY <1>4, <2>2, <2>3
  <2> QED BY <1>1, <1>2, <1>13, <2>4 DEF returnUrlMethod
<1>14. ASSUME NEW t \in Thread, insertOrder(t) PROVE AmountsComputed'
  <2>1. \A u \in Thread : request'[u].orderVO = request[u].orderVO
    BY <1>14 DEF insertOrder, RequestRecord
  <2> QED BY <1>0, <1>1, <1>2, <1>14, <2>1 DEF insertOrder
<1>15. ASSUME NEW s \in Session, expire(s) PROVE AmountsComputed'
  <2>1. Sessions
    BY <1>0, <1>15 DEF expire, EmptySession, Consistent
  <2> QED BY <1>1, <1>3, <1>15, <2>1 DEF expire
<1>16. ASSUME NEW t \in Thread, NEW sale \in {"pending", "completed"},
              \/ createPayment(t) \/ executePayment(t, sale) \/ executeReplyLost(t, sale)
              \/ executeRefused(t) \/ insertOrderProject(t) \/ insertFails(t) \/ crash(t)
       PROVE  AmountsComputed'
  <2>1. /\ session' = session
        /\ End(t) \/ Goto(t, "redirect") \/ Goto(t, "insertOrder")
    BY <1>16 DEF createPayment, executePayment, executeReplyLost, executeRefused,
                 insertOrderProject, insertFails, crash
  <2> QED BY <1>1, <1>2, <1>5, <1>6, <2>1
<1>17. ASSUME NEW o \in OrderNum,
              \/ approve(o)
              \/ \E sale \in {"completed", "denied"} : settle(o, sale)
              \/ \E k \in Kind : Webhook(o, k)
       PROVE  AmountsComputed'
  <2>1. session' = session /\ request' = request
    BY <1>17 DEF approve, settle, Webhook, notifyUrlMethod, notifyIgnored, updateProjectMoney,
                 updateFails, notifyAnswered, notifyAnswerLost
  <2> QED BY <1>1, <1>2, <1>3, <2>1
<1>18. CASE UNCHANGED vars
  BY <1>1, <1>2, <1>3, <1>18 DEF vars
<1> QED
  BY <1>7, <1>8, <1>9, <1>10, <1>11, <1>12, <1>13, <1>14, <1>15, <1>16, <1>17, <1>18
  DEF Next, Receive, Handle, Disturb

-----------------------------------------------------------------------------
(***************************************************************************)
(* A completed sale is announced and credited only after it, and stays so. *)
(***************************************************************************)
LEMMA NotifiedStep ==
    TypeInv /\ CreationExclusive /\ NotifiedIsCompleted /\ [Next]_vars => NotifiedIsCompleted'
<1> SUFFICES ASSUME TypeInv, CreationExclusive, NotifiedIsCompleted, [Next]_vars
             PROVE  NotifiedIsCompleted'
  OBVIOUS
<1> USE DEF TypeInv, TypeOK, At, paypal
<1> DEFINE Stays == \A o \in OrderNum : payment[o].state = "completed" => payment'[o].state = "completed"
<1>1. Stays
  <2>1. CASE Quiet
    BY <2>1, QuietStep
  <2>2. ASSUME NEW q \in OrderNum, Advance(q) PROVE Stays
    BY <2>2, AdvanceStep
  <2>3. ASSUME NEW t \in Thread, createPayment(t) PROVE Stays
    <3>1. /\ request[t].orderVO.orderNum \in OrderNum
          /\ payment[request[t].orderVO.orderNum].state = "assembled"
      BY <2>3 DEF createPayment, CreationExclusive, LocalsDefined, LocalsOf, OrderVO
    <3> QED BY <2>3, <3>1 DEF createPayment
  <2>4. ASSUME NEW t \in Thread, NEW s \in Session, NEW q \in OrderNum, generateOrder(t, s, q)
        PROVE  Stays
    BY <2>4 DEF generateOrder, NextOrderNum
  <2> QED BY <2>1, <2>2, <2>3, <2>4, StepKinds
<1>2. CASE notification' = notification /\ applied' = applied
  BY <1>1, <1>2 DEF NotifiedIsCompleted
<1>3. ASSUME NEW o \in OrderNum, NEW sale \in {"pending", "completed", "denied"}, Notify(o, sale),
             payment'[o].state = sale, applied' = applied
      PROVE  NotifiedIsCompleted'
  <2>1. CASE sale \in Subscribed
    <3>1. sale \in Kind
      BY <2>1, FaultAssumption
    <3>2. \A q \in OrderNum : notification'[q]["completed"] # "none" =>
             notification[q]["completed"] # "none" \/ (q = o /\ sale = "completed")
      BY <1>3, <2>1, <3>1 DEF Notify, Kind
    <3> QED BY <1>1, <1>3, <3>2 DEF NotifiedIsCompleted
  <2>2. CASE sale \notin Subscribed
    BY <1>2, <1>3, <2>2 DEF Notify
  <2> QED BY <2>1, <2>2
<1>4. ASSUME NEW t \in Thread, NEW sale \in {"pending", "completed"},
             executePayment(t, sale) \/ executeReplyLost(t, sale)
      PROVE  NotifiedIsCompleted'
  <2>1. request[t].pay \in OrderNum /\ Capture(request[t].pay, sale)
    BY <1>4 DEF executePayment, executeReplyLost, LocalsDefined, LocalsOf
  <2>2. payment'[request[t].pay].state = sale
    BY <2>1 DEF Capture, PaymentRecord
  <2> QED BY <1>3, <2>1, <2>2 DEF Capture
<1>5. ASSUME NEW o \in OrderNum, NEW sale \in {"completed", "denied"}, settle(o, sale)
      PROVE  NotifiedIsCompleted'
  <2>1. payment'[o].state = sale
    BY <1>5 DEF settle, PaymentRecord
  <2> QED BY <1>3, <1>5, <2>1 DEF settle
<1>6. ASSUME NEW o \in OrderNum, NEW k \in Kind, Webhook(o, k) PROVE NotifiedIsCompleted'
  <2>1. PICK from \in NotificationState \ {"none"}, to \in NotificationState : Notified(o, k, from, to)
    BY <1>6 DEF Webhook, notifyUrlMethod, notifyIgnored, updateProjectMoney, updateFails,
                notifyAnswered, notifyAnswerLost, NotificationState, Notified
  <2>2. \A q \in OrderNum : notification'[q]["completed"] # "none" =>
           notification[q]["completed"] # "none"
    BY <2>1 DEF Notified, Kind
  <2>3. \A q \in OrderNum : applied'[q] > 0 =>
           applied[q] > 0 \/ notification[q]["completed"] # "none"
    <3>1. CASE applied' = applied
      BY <3>1
    <3>2. CASE updateProjectMoney(o, k)
      BY <3>2 DEF updateProjectMoney, Notified
    <3> QED BY <1>6, <3>1, <3>2 DEF Webhook, notifyUrlMethod, notifyIgnored, updateFails,
                                    notifyAnswered, notifyAnswerLost
  <2> QED BY <1>1, <2>2, <2>3 DEF NotifiedIsCompleted
<1>7. ASSUME NEW t \in Thread, Receive(t) PROVE notification' = notification /\ applied' = applied
  BY <1>7 DEF Receive, showReturnConfirmInfo, saveAddress, showConfirmOrderInfo, generateOrder,
              returnUrlMethod
<1>8. ASSUME NEW t \in Thread,
             \/ commitConfirmOrder(t) \/ createPayment(t) \/ commitOrder(t) \/ executeRefused(t)
             \/ insertOrder(t) \/ insertOrderProject(t) \/ insertFails(t) \/ crash(t)
      PROVE  notification' = notification /\ applied' = applied
  BY <1>8 DEF commitConfirmOrder, createPayment, commitOrder, executeRefused, insertOrder,
              insertOrderProject, insertFails, crash
<1>9. ASSUME NEW o \in OrderNum, approve(o) PROVE notification' = notification /\ applied' = applied
  BY <1>9 DEF approve
<1>10. ASSUME NEW s \in Session, expire(s) PROVE notification' = notification /\ applied' = applied
  BY <1>10 DEF expire
<1>11. CASE UNCHANGED vars
  BY <1>2, <1>11 DEF vars
<1> QED
  BY <1>2, <1>4, <1>5, <1>6, <1>7, <1>8, <1>9, <1>10, <1>11 DEF Next, Handle, Disturb

-----------------------------------------------------------------------------
(***************************************************************************)
(* The two tables.                                                         *)
(***************************************************************************)
TableInv == /\ SavingExclusive
            /\ DetailPending
            /\ OrderRecordedOncePerPayment
            /\ DetailMatchesOrder

LEMMA IntervalGrows == \A n \in Nat : \A i \in 1..(n + 1) : i \in 1..n \/ i = n + 1
OBVIOUS

LEMMA RowsTyped ==
    ASSUME TypeInv
    PROVE  /\ DOMAIN t_order = 1..Len(t_order) /\ Len(t_order) \in Nat
           /\ \A i \in DOMAIN t_order : t_order[i].payOrderNum \in OrderNum
<1>1. t_order \in Seq(OrderRow)
  BY DEF TypeInv, TypeOK
<1>2. DOMAIN t_order = 1..Len(t_order) /\ Len(t_order) \in Nat
  BY <1>1
<1>3. \A i \in 1..Len(t_order) : t_order[i] \in OrderRow
  BY <1>1
<1> QED BY <1>2, <1>3 DEF OrderRow

\* A step that writes neither table and lets no thread start to save.
LEMMA TableFrame ==
    ASSUME TypeInv, CreationExclusive, TableInv, [Next]_vars,
           t_order' = t_order, t_order_project' = t_order_project,
           \A t \in Thread : Saving(t)' => request'[t] = request[t]
    PROVE  TableInv'
<1>1. \A t \in Thread : Saving(t) => request[t].pay \in OrderNum
  BY DEF TypeInv, LocalsDefined, LocalsOf, Saving
<1>2. \A i \in DOMAIN t_order : t_order[i].payOrderNum \in OrderNum
  BY RowsTyped
<1>3. \A o \in OrderNum : payment[o].state \in Captured => payment'[o].state \in Captured
  BY CapturedStays
<1>4. \A t \in Thread : Saving(t)' => Saving(t) /\ request'[t] = request[t]
  BY DEF Saving
<1>5. SavingExclusive'
  BY <1>1, <1>3, <1>4 DEF TableInv, SavingExclusive, At
<1>6. DetailPending'
  BY DEF TableInv, DetailPending, At, Saving
<1>7. OrderRecordedOncePerPayment'
  BY <1>2, <1>3 DEF TableInv, OrderRecordedOncePerPayment
<1>8. DetailMatchesOrder'
  BY DEF TableInv, DetailMatchesOrder, AmountOf, ToInt
<1> QED BY <1>5, <1>6, <1>7, <1>8 DEF TableInv

LEMMA TableStep ==
    TypeInv /\ AmountsComputed /\ CreationExclusive /\ TableInv /\ [Next]_vars => TableInv'
<1> SUFFICES ASSUME TypeInv, AmountsComputed, CreationExclusive, TableInv, [Next]_vars
             PROVE  TableInv'
  OBVIOUS
<1> USE DEF TypeInv, TypeOK, At, Saving, tables
<1>1. ASSUME NEW t \in Thread, End(t), t_order' = t_order, t_order_project' = t_order_project
      PROVE  TableInv'
  BY <1>1, TableFrame DEF End, Idle
<1>2. CASE request' = request /\ t_order' = t_order /\ t_order_project' = t_order_project
  BY <1>2, TableFrame
<1>3. ASSUME NEW t \in Thread, Receive(t) PROVE TableInv'
  <2>1. /\ t_order' = t_order /\ t_order_project' = t_order_project
        /\ request'[t].pc \in {"confirmOrder", "createPayment", "execute"} \/ request' = request
        /\ \A u \in Thread \ {t} : request'[u] = request[u]
    <3>1. ASSUME NEW s \in Session, NEW n \in Count, showConfirmOrderInfo(t, s, n)
          PROVE  request'[t].pc = "confirmOrder" /\ \A u \in Thread \ {t} : request'[u] = request[u]
      BY <3>1 DEF showConfirmOrderInfo, Idle
    <3>2. ASSUME NEW s \in Session, NEW o \in OrderNum, generateOrder(t, s, o)
          PROVE  request'[t].pc = "createPayment" /\ \A u \in Thread \ {t} : request'[u] = request[u]
      BY <3>2 DEF generateOrder, Idle
    <3>3. ASSUME NEW o \in OrderNum, returnUrlMethod(t, o)
          PROVE  request'[t].pc = "execute" /\ \A u \in Thread \ {t} : request'[u] = request[u]
      BY <3>3 DEF returnUrlMethod, Idle
    <3>4. t_order' = t_order /\ t_order_project' = t_order_project
      BY <1>3 DEF Receive, showReturnConfirmInfo, saveAddress, showConfirmOrderInfo,
                  generateOrder, returnUrlMethod
    <3>5. ASSUME NEW s \in Session,
                 saveAddress(t, s) \/ \E r \in Return : showReturnConfirmInfo(t, s, r)
          PROVE  request' = request
      BY <3>5 DEF saveAddress, showReturnConfirmInfo
    <3> QED BY <1>3, <3>1, <3>2, <3>3, <3>4, <3>5 DEF Receive
  <2> QED BY <2>1, TableFrame
<1>4. ASSUME NEW t \in Thread,
             \/ commitConfirmOrder(t) \/ commitOrder(t) \/ executeRefused(t)
             \/ (\E sale \in {"pending", "completed"} : executeReplyLost(t, sale))
             \/ insertFails(t) \/ crash(t)
      PROVE  TableInv'
  BY <1>1, <1>4 DEF commitConfirmOrder, commitOrder, executeRefused, executeReplyLost,
                    insertFails, crash
<1>5. ASSUME NEW t \in Thread, createPayment(t) PROVE TableInv'
  <2>1. \A u \in Thread : Saving(u)' => request'[u] = request[u]
    BY <1>5 DEF createPayment, Goto, RequestRecord
  <2> QED BY <1>5, <2>1, TableFrame DEF createPayment
<1>6. ASSUME NEW t \in Thread, NEW sale \in {"pending", "completed"}, executePayment(t, sale)
      PROVE  TableInv'
  <2> DEFINE o == request[t].pay
  <2>1. CASE request[t].orderVO = None
    BY <1>1, <1>6, <2>1 DEF executePayment
  <2>2. CASE request[t].orderVO # None
    <3>1. o \in OrderNum /\ payment[o].state = "approved" /\ payment'[o].state \in Captured
      BY <1>6 DEF executePayment, Capture, LocalsDefined, LocalsOf, PaymentRecord, Captured
    <3>2. /\ request'[t].pc = "insertOrder" /\ request'[t].pay = o
          /\ \A u \in Thread \ {t} : request'[u] = request[u]
          /\ t_order' = t_order /\ t_order_project' = t_order_project
      BY <1>6, <2>2 DEF executePayment, Goto, RequestRecord
    <3>3. /\ \A u \in Thread : Saving(u) => request[u].pay \in OrderNum /\ request[u].pay # o
          /\ \A i \in DOMAIN t_order : /\ t_order[i].payOrderNum \in OrderNum
                                      /\ t_order[i].payOrderNum # o
      <4>1. payment[o].state \notin Captured
        BY <3>1 DEF Captured
      <4>2. \A u \in Thread : Saving(u) => request[u].pay \in OrderNum /\ request[u].pay # o
        BY <4>1 DEF TableInv, SavingExclusive, LocalsDefined, LocalsOf
      <4>3. \A i \in DOMAIN t_order : t_order[i].payOrderNum \in OrderNum /\ t_order[i].payOrderNum # o
        BY <4>1, RowsTyped DEF TableInv, OrderRecordedOncePerPayment
      <4> QED BY <4>2, <4>3
    <3>4. \A q \in OrderNum : payment[q].state \in Captured => payment'[q].state \in Captured
      BY CapturedStays
    <3>5. SavingExclusive'
      <4> SUFFICES ASSUME NEW u \in Thread, Saving(u)'
                   PROVE  /\ payment'[request'[u].pay].state \in Captured
                          /\ \A v \in Thread \ {u} : Saving(v)' => request'[v].pay # request'[u].pay
                          /\ request'[u].pc = "insertOrder" =>
                               \A i \in DOMAIN t_order' : t_order'[i].payOrderNum # request'[u].pay
        BY DEF SavingExclusive
      <4>1. CASE u = t
        BY <3>1, <3>2, <3>3, <4>1
      <4>2. CASE u # t
        <5>1. Saving(u) /\ request'[u] = request[u]
          BY <3>2, <4>2
        <5>2. payment'[request'[u].pay].state \in Captured
          BY <3>3, <3>4, <5>1 DEF TableInv, SavingExclusive
        <5>3. ASSUME NEW v \in Thread \ {u}, Saving(v)' PROVE request'[v].pay # request'[u].pay
          BY <3>2, <3>3, <5>1, <5>3, ZenonT(60) DEF TableInv, SavingExclusive
        <5>4. request'[u].pc = "insertOrder" =>
                \A i \in DOMAIN t_order' : t_order'[i].payOrderNum # request'[u].pay
          BY <3>2, <5>1 DEF TableInv, SavingExclusive
        <5> QED BY <5>2, <5>3, <5>4
      <4> QED BY <4>1, <4>2
    <3>6. DetailPending'
      BY <3>2 DEF TableInv, DetailPending
    <3>7. OrderRecordedOncePerPayment'
      BY <3>2, <3>3, <3>4 DEF TableInv, OrderRecordedOncePerPayment
    <3>8. DetailMatchesOrder'
      BY <3>2 DEF TableInv, DetailMatchesOrder, AmountOf, ToInt
    <3> QED BY <3>5, <3>6, <3>7, <3>8 DEF TableInv
  <2> QED BY <2>1, <2>2
<1>7. ASSUME NEW t \in Thread, insertOrder(t) PROVE TableInv'
  <2> DEFINE n == Len(t_order) + 1
  <2>1. /\ request[t] \in RequestRecord /\ request[t].pc = "insertOrder"
        /\ request[t].pay \in OrderNum
        /\ \A i \in DOMAIN t_order : t_order[i].payOrderNum # request[t].pay
    BY <1>7 DEF insertOrder, TableInv, SavingExclusive, LocalsDefined, LocalsOf
  <2>2. /\ DOMAIN t_order = 1..Len(t_order) /\ Len(t_order) \in Nat
        /\ DOMAIN t_order' = 1..n /\ Len(t_order') = n
        /\ \A i \in DOMAIN t_order : t_order'[i] = t_order[i]
        /\ t_order'[n].payOrderNum = request[t].pay
        /\ t_order'[n].orderAmount = request[t].orderVO.orderAmount
    BY <1>7 DEF insertOrder
  <2>3. /\ request'[t].pc = "insertOrderProject" /\ request'[t].orderId = n
        /\ request'[t].pay = request[t].pay /\ request'[t].orderVO = request[t].orderVO
        /\ \A u \in Thread \ {t} : request'[u] = request[u]
    BY <1>7, <2>1, <2>2 DEF insertOrder, RequestRecord
  <2>4. payment' = payment /\ t_order_project' = t_order_project
    BY <1>7 DEF insertOrder, paypal
  <2>5. \A i \in DOMAIN t_order_project : t_order_project[i].orderId \in DOMAIN t_order
    BY DEF TableInv, DetailMatchesOrder
  <2>6. SavingExclusive'
    <3>1. ASSUME NEW u \in Thread \ {t}, request[u].pc = "insertOrder"
          PROVE  \A i \in DOMAIN t_order' : t_order'[i].payOrderNum # request[u].pay
      <4>1. request[u].pay # request[t].pay
        BY <2>1, <3>1 DEF TableInv, SavingExclusive
      <4>2. \A i \in DOMAIN t_order : t_order[i].payOrderNum # request[u].pay
        BY <3>1 DEF TableInv, SavingExclusive
      <4>3. \A i \in DOMAIN t_order' : i \in DOMAIN t_order \/ i = n
        BY <2>2
      <4> QED BY <2>2, <4>1, <4>2, <4>3
    <3>2. \A u \in Thread : Saving(u)' => Saving(u) /\ request'[u].pay = request[u].pay
      BY <2>1, <2>3
    <3>3. \A u \in Thread : request'[u].pc = "insertOrder" => u # t /\ request'[u] = request[u]
      BY <2>3
    <3> QED BY <2>4, <3>1, <3>2, <3>3 DEF TableInv, SavingExclusive
  <2>7. DetailPending'
    <3>1. ASSUME NEW u \in Thread \ {t}, request[u].pc = "insertOrderProject"
          PROVE  /\ request[u].orderId \in DOMAIN t_order'
                 /\ t_order'[request[u].orderId] = t_order[request[u].orderId]
                 /\ t_order[request[u].orderId].payOrderNum = request[u].pay
                 /\ t_order[request[u].orderId].orderAmount = request[u].orderVO.orderAmount
                 /\ \A i \in DOMAIN t_order_project : t_order_project[i].orderId # request[u].orderId
      BY <2>2, <3>1 DEF TableInv, DetailPending
    <3>2. n \in DOMAIN t_order' /\ n \notin DOMAIN t_order
      BY <2>2
    <3>3. \A i \in DOMAIN t_order_project : t_order_project[i].orderId # n
      BY <2>5, <3>2
    <3>4. ASSUME NEW u \in Thread, request'[u].pc = "insertOrderProject"
          PROVE  /\ request'[u].orderId \in DOMAIN t_order'
                 /\ t_order'[request'[u].orderId].payOrderNum = request'[u].pay
                 /\ t_order'[request'[u].orderId].orderAmount = request'[u].orderVO.orderAmount
                 /\ \A i \in DOMAIN t_order_project' :
                      t_order_project'[i].orderId # request'[u].orderId
      <4>1. CASE u = t
        BY <2>2, <2>3, <2>4, <3>2, <3>3, <4>1
      <4>2. CASE u # t
        <5>1. request'[u] = request[u] /\ request[u].pc = "insertOrderProject"
          BY <2>3, <3>4, <4>2
        <5> QED BY <2>4, <3>1, <4>2, <5>1
      <4> QED BY <4>1, <4>2
    <3> QED BY <3>4 DEF DetailPending
  <2>8. OrderRecordedOncePerPayment'
    <3>1. payment[request[t].pay].state \in Captured
      BY <2>1 DEF TableInv, SavingExclusive
    <3>2. ASSUME NEW i \in DOMAIN t_order' PROVE payment'[t_order'[i].payOrderNum].state \in Captured
      BY <2>2, <2>4, <3>1 DEF TableInv, OrderRecordedOncePerPayment
    <3>3. ASSUME NEW i \in DOMAIN t_order', NEW j \in DOMAIN t_order',
                 t_order'[i].payOrderNum = t_order'[j].payOrderNum
          PROVE  i = j
      BY <2>1, <2>2, <3>3 DEF TableInv, OrderRecordedOncePerPayment
    <3> QED BY <3>2, <3>3 DEF OrderRecordedOncePerPayment
  <2>9. DetailMatchesOrder'
    BY <2>2, <2>4 DEF TableInv, DetailMatchesOrder, AmountOf, ToInt
  <2> QED BY <2>6, <2>7, <2>8, <2>9 DEF TableInv
<1>8. ASSUME NEW t \in Thread, insertOrderProject(t) PROVE TableInv'
  <2> DEFINE n == Len(t_order_project) + 1
             vo == request[t].orderVO.orderProjectVO
             id == request[t].orderId
  <2>1. /\ request[t].pc = "insertOrderProject"
        /\ request[t].pay \in OrderNum /\ request[t].orderVO \in OrderVO
        /\ id \in DOMAIN t_order
        /\ t_order[id].payOrderNum = request[t].pay
        /\ t_order[id].orderAmount = request[t].orderVO.orderAmount
        /\ \A i \in DOMAIN t_order_project : t_order_project[i].orderId # id
    BY <1>8 DEF insertOrderProject, TableInv, DetailPending, LocalsDefined, LocalsOf
  <2>2. /\ DOMAIN t_order_project = 1..Len(t_order_project) /\ Len(t_order_project) \in Nat
        /\ DOMAIN t_order_project' = 1..n
        /\ \A i \in DOMAIN t_order_project : t_order_project'[i] = t_order_project[i]
        /\ t_order_project'[n] = [ret |-> vo.ret, returnCount |-> vo.returnCount, orderId |-> id]
    BY <1>8 DEF insertOrderProject
  <2>3. /\ request'[t].pc = "idle" /\ payment' = payment /\ t_order' = t_order
        /\ \A u \in Thread \ {t} : request'[u] = request[u]
    BY <1>8 DEF insertOrderProject, End, Idle, paypal
  <2>4. SavingExclusive'
    BY <2>3 DEF TableInv, SavingExclusive
  <2>5. DetailPending'
    <3>1. ASSUME NEW u \in Thread \ {t}, request[u].pc = "insertOrderProject"
          PROVE  request[u].orderId # id
      <4>1. request[u].pay # request[t].pay
        BY <2>1, <3>1 DEF TableInv, SavingExclusive
      <4>2. t_order[request[u].orderId].payOrderNum = request[u].pay
        BY <3>1 DEF TableInv, DetailPending
      <4> QED BY <2>1, <4>1, <4>2
    <3>2. ASSUME NEW u \in Thread \ {t}, request[u].pc = "insertOrderProject"
          PROVE  \A i \in DOMAIN t_order_project' :
                   t_order_project'[i].orderId # request[u].orderId
      <4>1. \A i \in DOMAIN t_order_project' : i \in DOMAIN t_order_project \/ i = n
        BY <2>2, IntervalGrows
      <4>2. \A i \in DOMAIN t_order_project : t_order_project[i].orderId # request[u].orderId
        BY <3>2 DEF TableInv, DetailPending
      <4>3. t_order_project'[n].orderId = id
        BY <2>2
      <4>4. \A i \in DOMAIN t_order_project : t_order_project'[i].orderId = t_order_project[i].orderId
        BY <2>2
      <4>5. request[u].orderId # id
        BY <3>1, <3>2
      <4> HIDE DEF n, id
      <4> QED BY <4>1, <4>2, <4>3, <4>4, <4>5
    <3> QED BY <2>3, <3>2 DEF TableInv, DetailPending
  <2>6. OrderRecordedOncePerPayment'
    BY <2>3 DEF TableInv, OrderRecordedOncePerPayment
  <2>7. DetailMatchesOrder'
    <3> DEFINE Amount(row) == AmountOf(row)
    <3>1. request[t].orderVO.orderAmount = AmountOf(vo)
      <4>1. request[t].orderVO # None => request[t].orderVO.orderAmount = AmountOf(vo)
        BY DEF AmountsComputed
      <4>2. request[t].orderVO # None
        BY <2>1 DEF LocalsDefined, LocalsOf
      <4> QED BY <4>1, <4>2
    <3>2. t_order[id].orderAmount = AmountOf(t_order_project'[n]) /\ t_order_project'[n].orderId = id
      BY <2>1, <2>2, <3>1 DEF AmountOf
    <3>3. \A i \in DOMAIN t_order_project' : i \in DOMAIN t_order_project \/ i = n
      BY <2>2, IntervalGrows
    <3>4. ASSUME NEW i \in DOMAIN t_order_project'
          PROVE  /\ t_order_project'[i].orderId \in DOMAIN t_order'
                 /\ t_order'[t_order_project'[i].orderId].orderAmount = AmountOf(t_order_project'[i])
      <4>1. CASE i = n
        BY <2>1, <2>3, <3>2, <4>1
      <4>2. CASE i \in DOMAIN t_order_project
        BY <2>2, <2>3, <4>2 DEF TableInv, DetailMatchesOrder
      <4> QED BY <3>3, <4>1, <4>2
    <3>5. ASSUME NEW i \in DOMAIN t_order_project', NEW j \in DOMAIN t_order_project',
                 t_order_project'[i].orderId = t_order_project'[j].orderId
          PROVE  i = j
      BY <2>1, <2>2, <3>2, <3>3, <3>5, SMTT(30) DEF TableInv, DetailMatchesOrder
    <3> QED BY <3>4, <3>5 DEF DetailMatchesOrder, AmountOf, ToInt
  <2> QED BY <2>4, <2>5, <2>6, <2>7 DEF TableInv
<1>9. ASSUME NEW o \in OrderNum,
             \/ approve(o)
             \/ \E sale \in {"completed", "denied"} : settle(o, sale)
             \/ \E k \in Kind : Webhook(o, k)
      PROVE  TableInv'
  <2>1. request' = request /\ t_order' = t_order /\ t_order_project' = t_order_project
    BY <1>9 DEF approve, settle, Webhook, notifyUrlMethod, notifyIgnored, updateProjectMoney,
                updateFails, notifyAnswered, notifyAnswerLost
  <2> QED BY <1>2, <2>1
<1>10. ASSUME NEW s \in Session, expire(s) PROVE TableInv'
  BY <1>2, <1>10 DEF expire
<1>11. CASE UNCHANGED vars
  BY <1>2, <1>11 DEF vars
<1> QED
  BY <1>3, <1>4, <1>5, <1>6, <1>7, <1>8, <1>9, <1>10, <1>11 DEF Next, Handle, Disturb

-----------------------------------------------------------------------------
(***************************************************************************)
(* The results.                                                            *)
(***************************************************************************)

LEMMA OrderInvInit == Init => OrderInv
<1> SUFFICES ASSUME Init PROVE OrderInv
  OBVIOUS
<1>1. TypeInv
  BY TypeInit
<1>2. PaymentsOwned /\ AmountsComputed /\ NotifiedIsCompleted
  BY DEF Init, PaymentsOwned, AmountsComputed, NotifiedIsCompleted, Idle, EmptySession, Kind
<1>3. CreationExclusive /\ SavingExclusive /\ DetailPending
  BY DEF Init, CreationExclusive, SavingExclusive, DetailPending, Idle, At, Saving
<1>4. OrderRecordedOncePerPayment /\ DetailMatchesOrder
  BY DEF Init, OrderRecordedOncePerPayment, DetailMatchesOrder
<1> QED BY <1>1, <1>2, <1>3, <1>4 DEF OrderInv, TypeInv

LEMMA OrderInvStep == OrderInv /\ [Next]_vars => OrderInv'
<1> SUFFICES ASSUME OrderInv, [Next]_vars PROVE OrderInv'
  OBVIOUS
<1>1. TypeInv /\ TableInv
  BY DEF OrderInv, TypeInv, TableInv
<1>2. TypeInv' /\ PaymentsOwned' /\ AmountsComputed' /\ CreationExclusive'
      /\ NotifiedIsCompleted' /\ TableInv'
  BY <1>1, TypeStep, OwnedStep, AmountsStep, CreationStep, NotifiedStep, TableStep DEF OrderInv
<1> QED BY <1>2 DEF OrderInv, TypeInv, TableInv

\* The inductive invariant holds in every reachable state.
THEOREM OrderInvHolds == Spec => []OrderInv
BY OrderInvInit, OrderInvStep, PTL DEF Spec

\* However tabs, reloads, crashes and lost answers interleave, an executed
\* payment gives at most one t_order row, and only an executed payment does.
THEOREM OrdersOncePerPayment == Spec => []OrderRecordedOncePerPayment
BY OrderInvHolds, PTL DEF OrderInv

\* Although saveOrder's inserts are two transactions, no detail row is without
\* its order, none is doubled, and the order's amount is the detail's.
THEOREM DetailsMatchOrders == Spec => []DetailMatchesOrder
BY OrderInvHolds, PTL DEF OrderInv

\* Only a completed sale is ever credited to a project.
THEOREM CreditsOnlyCompleted == Spec => []CreditOnlyCompleted
<1>1. OrderInv => CreditOnlyCompleted
  BY DEF OrderInv, NotifiedIsCompleted, CreditOnlyCompleted
<1> QED BY <1>1, OrderInvHolds, PTL

-----------------------------------------------------------------------------
(***************************************************************************)
(* The refinement of Funding: a capture is its Take, PayPal's later word   *)
(* its Settle, each of saveOrder's inserts a Book, an applied notification *)
(* a Credit, and no other step is seen by it.                              *)
(***************************************************************************)
LEMMA SaleKept ==
    ASSUME \A o \in OrderNum : \/ payment'[o].state = payment[o].state
                               \/ /\ payment[o].state \notin Captured
                                  /\ payment'[o].state \notin Captured
    PROVE  Sale' = Sale
BY DEF Sale

LEMMA SaleSet ==
    ASSUME NEW o \in OrderNum, payment'[o].state \in Captured,
           \A q \in OrderNum \ {o} : payment'[q] = payment[q]
    PROVE  Sale' = [Sale EXCEPT ![o] = payment'[o].state]
BY DEF Sale

LEMMA BookingKept ==
    ASSUME UNCHANGED <<t_order, t_order_project>> PROVE Booking' = Booking
BY DEF Booking, Booked, Recorded

LEMMA InitFunds == Init => F!Init
<1> SUFFICES ASSUME Init PROVE F!Init
  OBVIOUS
<1>1. Sale = [o \in OrderNum |-> "none"]
  BY DEF Init, Sale, Captured
<1>2. Booking = [o \in OrderNum |-> "no"]
  BY DEF Init, Booking, Booked, Recorded
<1> QED BY <1>1, <1>2 DEF Init, F!Init

LEMMA CaptureTakes ==
    ASSUME OrderInv, NEW o \in OrderNum, NEW sale \in {"pending", "completed"}, Capture(o, sale),
           UNCHANGED <<t_order, t_order_project>>
    PROVE  F!Take(o)
<1>1. /\ payment[o].state \notin Captured /\ payment'[o].state = sale /\ sale \in Captured
      /\ \A q \in OrderNum \ {o} : payment'[q] = payment[q]
  BY DEF Capture, Captured, OrderInv, TypeOK, PaymentRecord
<1>2. Sale[o] = "none" /\ Sale' = [Sale EXCEPT ![o] = sale]
  BY <1>1, SaleSet DEF Sale
<1>3. Booking' = Booking /\ applied' = applied
  BY BookingKept DEF Capture
<1> QED BY <1>2, <1>3 DEF F!Take

LEMMA SettleSettles ==
    ASSUME OrderInv, NEW o \in OrderNum, NEW sale \in {"completed", "denied"}, settle(o, sale)
    PROVE  F!Settle(o)
<1>1. /\ payment[o].state = "pending" /\ payment'[o].state = sale /\ sale \in Captured
      /\ \A q \in OrderNum \ {o} : payment'[q] = payment[q]
  BY DEF settle, Captured, OrderInv, TypeOK, PaymentRecord
<1>2. Sale[o] = "pending" /\ Sale' = [Sale EXCEPT ![o] = sale]
  BY <1>1, SaleSet DEF Sale, Captured
<1>3. Booking' = Booking /\ applied' = applied
  BY BookingKept DEF settle, tables
<1> QED BY <1>2, <1>3 DEF F!Settle

LEMMA InsertOrderBooks ==
    ASSUME OrderInv, NEW t \in Thread, insertOrder(t), NEW o, o = request[t].pay
    PROVE  o \in OrderNum /\ F!Book(o)
<1> DEFINE n == Len(t_order) + 1
<1>1. /\ o \in OrderNum /\ payment[o].state \in Captured
      /\ \A i \in DOMAIN t_order : t_order[i].payOrderNum # o
  BY DEF insertOrder, At, OrderInv, SavingExclusive, Saving, LocalsDefined, LocalsOf
<1>2. /\ DOMAIN t_order = 1..Len(t_order) /\ Len(t_order) \in Nat
      /\ DOMAIN t_order' = 1..n
      /\ \A i \in DOMAIN t_order : t_order'[i] = t_order[i]
      /\ t_order'[n].payOrderNum = o
  BY DEF insertOrder, OrderInv, TypeOK
<1>3. n \notin DOMAIN t_order /\ DOMAIN t_order' = DOMAIN t_order \cup {n}
  BY <1>2
<1>4. t_order_project' = t_order_project /\ payment' = payment /\ applied' = applied
  BY DEF insertOrder, paypal
<1> HIDE DEF n
<1>5. \A j \in DOMAIN t_order_project : t_order_project[j].orderId \in DOMAIN t_order
  BY DEF OrderInv, DetailMatchesOrder
<1>6. ~ Recorded(o) /\ ~ Booked(o)
  BY <1>1 DEF Recorded, Booked
<1>7. Recorded(o)' /\ ~ Booked(o)'
  BY <1>1, <1>2, <1>3, <1>4, <1>5 DEF Recorded, Booked
<1>8. ASSUME NEW q \in OrderNum \ {o}
      PROVE  (Recorded(q)' <=> Recorded(q)) /\ (Booked(q)' <=> Booked(q))
  BY <1>2, <1>3, <1>4 DEF Recorded, Booked
<1>9. Booking[o] = "no" /\ Booking' = [Booking EXCEPT ![o] = "order"]
  BY <1>1, <1>6, <1>7, <1>8 DEF Booking
<1>10. Sale[o] # "none" /\ Sale' = Sale
  BY <1>1, <1>4, SaleKept DEF Sale, Captured
<1> QED BY <1>1, <1>4, <1>9, <1>10 DEF F!Book

LEMMA InsertDetailBooks ==
    ASSUME OrderInv, NEW t \in Thread, insertOrderProject(t), NEW o, o = request[t].pay
    PROVE  o \in OrderNum /\ F!Book(o)
<1> DEFINE n == Len(t_order_project) + 1
           id == request[t].orderId
<1>1. /\ o \in OrderNum /\ payment[o].state \in Captured
      /\ id \in DOMAIN t_order /\ t_order[id].payOrderNum = o
      /\ \A j \in DOMAIN t_order_project : t_order_project[j].orderId # id
  BY DEF insertOrderProject, At, OrderInv, SavingExclusive, Saving, DetailPending,
         LocalsDefined, LocalsOf
<1>2. /\ DOMAIN t_order_project = 1..Len(t_order_project) /\ Len(t_order_project) \in Nat
      /\ DOMAIN t_order_project' = 1..n
      /\ \A j \in DOMAIN t_order_project : t_order_project'[j] = t_order_project[j]
      /\ t_order_project'[n].orderId = id
  BY DEF insertOrderProject, OrderInv, TypeOK
<1>3. DOMAIN t_order_project' = DOMAIN t_order_project \cup {n}
  BY <1>2
<1>4. t_order' = t_order /\ payment' = payment /\ applied' = applied
  BY DEF insertOrderProject, paypal
<1>5. \A i \in DOMAIN t_order : t_order[i].payOrderNum = o => i = id
  BY <1>1 DEF OrderInv, OrderRecordedOncePerPayment
<1> HIDE DEF n, id
<1>6. Recorded(o) /\ ~ Booked(o)
  BY <1>1, <1>5 DEF Recorded, Booked
<1>7. Booked(o)'
  BY <1>1, <1>2, <1>3, <1>4 DEF Booked
<1>8. ASSUME NEW q \in OrderNum \ {o}
      PROVE  (Recorded(q)' <=> Recorded(q)) /\ (Booked(q)' <=> Booked(q))
  BY <1>1, <1>2, <1>3, <1>4, ZenonT(60) DEF Recorded, Booked
<1>9. Booking[o] = "order" /\ Booking' = [Booking EXCEPT ![o] = "detail"]
  BY <1>1, <1>6, <1>7, <1>8 DEF Booking
<1>10. Sale[o] # "none" /\ Sale' = Sale
  BY <1>1, <1>4, SaleKept DEF Sale, Captured
<1> QED BY <1>1, <1>4, <1>9, <1>10 DEF F!Book

LEMMA UpdateCredits ==
    ASSUME OrderInv, NEW o \in OrderNum, NEW k \in Kind, updateProjectMoney(o, k)
    PROVE  F!Credit(o)
<1>1. /\ notification[o]["completed"] # "none" /\ payment' = payment
      /\ applied' = [applied EXCEPT ![o] = @ + 1]
      /\ UNCHANGED <<t_order, t_order_project>>
  BY DEF updateProjectMoney, Notified
<1>2. payment[o].state = "completed"
  BY <1>1 DEF OrderInv, NotifiedIsCompleted
<1>3. Sale[o] = "completed" /\ Sale' = Sale /\ Booking' = Booking
  BY <1>1, <1>2, SaleKept, BookingKept DEF Sale, Captured
<1> QED BY <1>1, <1>3 DEF F!Credit

LEMMA StepFunds == ASSUME OrderInv, [Next]_vars PROVE [F!Next]_(F!vars)
<1> DEFINE Same == UNCHANGED <<Sale, Booking, applied>>
<1>0. /\ Same => [F!Next]_(F!vars)
      /\ \A o \in OrderNum : F!Take(o) \/ F!Settle(o) \/ F!Book(o) \/ F!Credit(o)
                               => [F!Next]_(F!vars)
  BY DEF F!Next, F!vars
<1>1. TypeInv
  BY DEF OrderInv, TypeInv
<1>2. ASSUME UNCHANGED <<payment, t_order, t_order_project, applied>> PROVE Same
  BY <1>2, SaleKept, BookingKept
<1>3. ASSUME NEW t \in Thread, NEW s \in Session, NEW o \in OrderNum, generateOrder(t, s, o)
      PROVE  Same
  <2>1. /\ payment[o].state = "none" /\ payment'[o].state = "assembled"
        /\ \A q \in OrderNum \ {o} : payment'[q] = payment[q]
        /\ UNCHANGED <<t_order, t_order_project, applied>>
    BY <1>3 DEF generateOrder, NextOrderNum, OrderInv, TypeOK, tables
  <2> QED BY <2>1, SaleKept, BookingKept DEF Captured
<1>4. ASSUME NEW t \in Thread, createPayment(t) PROVE Same
  <2> DEFINE o == request[t].orderVO.orderNum
  <2>1. o \in OrderNum /\ payment[o].state = "assembled"
    BY <1>4 DEF createPayment, At, OrderInv, CreationExclusive, LocalsDefined, LocalsOf, OrderVO
  <2>2. /\ payment'[o].state \in {"created", "refused"}
        /\ \A q \in OrderNum \ {o} : payment'[q] = payment[q]
        /\ UNCHANGED <<t_order, t_order_project, applied>>
    BY <1>4, <2>1 DEF createPayment, OrderInv, TypeOK, PaymentRecord, tables
  <2> QED BY <2>1, <2>2, SaleKept, BookingKept DEF Captured
<1>5. ASSUME NEW t \in Thread, commitOrder(t) PROVE Same
  <2> DEFINE o == request[t].orderVO.orderNum
  <2>1. o \in OrderNum
    BY <1>5 DEF commitOrder, At, OrderInv, LocalsDefined, LocalsOf, OrderVO
  <2>2. /\ payment'[o].state = payment[o].state
           \/ (payment[o].state = "created" /\ payment'[o].state = "redirected")
        /\ \A q \in OrderNum \ {o} : payment'[q] = payment[q]
        /\ UNCHANGED <<t_order, t_order_project, applied>>
    <3> DEFINE next == IF payment[o].state = "created" THEN "redirected" ELSE payment[o].state
    <3>0. payment' = [payment EXCEPT ![o].state = next]
      BY <1>5 DEF commitOrder
    <3>1. payment \in [OrderNum -> PaymentRecord] /\ UNCHANGED <<t_order, t_order_project, applied>>
      BY <1>5 DEF commitOrder, OrderInv, TypeOK, tables
    <3>2. next = payment[o].state \/ (payment[o].state = "created" /\ next = "redirected")
      OBVIOUS
    <3> HIDE DEF o, next
    <3>3. payment'[o].state = next /\ \A q \in OrderNum \ {o} : payment'[q] = payment[q]
      BY <2>1, <3>0, <3>1 DEF PaymentRecord
    <3> QED BY <3>1, <3>2, <3>3
  <2> HIDE DEF o
  <2> QED BY <2>1, <2>2, SaleKept, BookingKept DEF Captured
<1>6. ASSUME NEW o \in OrderNum, approve(o) PROVE Same
  <2>1. /\ payment[o].state = "redirected" /\ payment'[o].state = "approved"
        /\ \A q \in OrderNum \ {o} : payment'[q] = payment[q]
        /\ UNCHANGED <<t_order, t_order_project, applied>>
    BY <1>6 DEF approve, OrderInv, TypeOK, PaymentRecord, tables
  <2> QED BY <2>1, SaleKept, BookingKept DEF Captured
<1>7. ASSUME NEW t \in Thread, NEW sale \in {"pending", "completed"},
             executePayment(t, sale) \/ executeReplyLost(t, sale)
      PROVE  \E o \in OrderNum : F!Take(o)
  <2>1. request[t].pay \in OrderNum /\ Capture(request[t].pay, sale)
    BY <1>7 DEF executePayment, executeReplyLost, At, OrderInv, LocalsDefined, LocalsOf
  <2>2. UNCHANGED <<t_order, t_order_project>>
    BY <1>7 DEF executePayment, executeReplyLost, tables
  <2> QED BY <2>1, <2>2, CaptureTakes
<1>8. ASSUME NEW t \in Thread, Receive(t) PROVE Same
  <2>1. CASE \E s \in Session, o \in OrderNum : generateOrder(t, s, o)
    BY <1>3, <2>1
  <2>2. CASE \/ \E s \in Session, r \in Return : showReturnConfirmInfo(t, s, r)
             \/ \E s \in Session : saveAddress(t, s)
             \/ \E s \in Session, n \in Count : showConfirmOrderInfo(t, s, n)
             \/ \E o \in OrderNum : returnUrlMethod(t, o)
    BY <1>2, <2>2 DEF showReturnConfirmInfo, saveAddress, showConfirmOrderInfo,
                      returnUrlMethod, paypal, tables
  <2> QED BY <1>8, <2>1, <2>2 DEF Receive
<1>9. ASSUME NEW t \in Thread,
             commitConfirmOrder(t) \/ executeRefused(t) \/ insertFails(t) \/ crash(t)
      PROVE  Same
  BY <1>2, <1>9 DEF commitConfirmOrder, executeRefused, insertFails, crash, paypal, tables
<1>10. ASSUME NEW t \in Thread, Handle(t) \/ Disturb(t)
       PROVE  Same \/ \E o \in OrderNum : F!Take(o) \/ F!Book(o)
  <2> HIDE DEF Same
  <2>1. insertOrder(t) \/ insertOrderProject(t) => \E o \in OrderNum : F!Book(o)
    BY InsertOrderBooks, InsertDetailBooks
  <2> QED BY <1>4, <1>5, <1>7, <1>9, <1>10, <2>1 DEF Handle, Disturb
<1>11. ASSUME NEW o \in OrderNum, NEW k \in Kind, Webhook(o, k) PROVE Same \/ F!Credit(o)
  BY <1>2, <1>11, UpdateCredits DEF Webhook, notifyUrlMethod, notifyIgnored, updateFails,
                                    notifyAnswered, notifyAnswerLost, tables
<1>12. ASSUME NEW s \in Session, expire(s) PROVE Same
  BY <1>2, <1>12 DEF expire, paypal, tables
<1>13. ASSUME UNCHANGED vars PROVE Same
  BY <1>2, <1>13 DEF vars
<1> HIDE DEF Same
<1>14. CASE \E t \in Thread : Receive(t) \/ Handle(t) \/ Disturb(t)
  BY <1>0, <1>8, <1>10, <1>14
<1>15. ASSUME NEW o \in OrderNum,
              \/ approve(o)
              \/ \E sale \in {"completed", "denied"} : settle(o, sale)
              \/ \E k \in Kind : Webhook(o, k)
       PROVE  [F!Next]_(F!vars)
  BY <1>0, <1>6, <1>11, <1>15, SettleSettles
<1> QED BY <1>0, <1>12, <1>13, <1>14, <1>15 DEF Next

\* Every behaviour of the checkout is one Funding allows: no step takes money
\* twice, books an order twice or without money, or credits what was not
\* completed, whatever interleaves, fails or is sent again.
THEOREM ImplementsFunding == Spec => RefinesFunding
BY InitFunds, StepFunds, OrderInvHolds, PTL DEF Spec, RefinesFunding, F!Safety

-----------------------------------------------------------------------------
(***************************************************************************)
(* Totals over the order numbers.  The running sums that Total is defined  *)
(* by exist, are integers and are the only ones; the induction on the      *)
(* order number is by a least counterexample.                              *)
(***************************************************************************)
LEMMA Least ==
    ASSUME NEW T \in SUBSET Nat, T # {}
    PROVE  \E n \in T : \A m \in T : n <= m
<1> DEFINE R == OpToRel(<, Nat)
<1>1. IsWellFoundedOn(R, Nat)
  BY NatLessThanWellFounded
<1>2. \A x, y \in Nat : x < y => <<x, y>> \in R
  BY DEF OpToRel
<1> HIDE DEF R
<1>3. PICK x \in T : \A y \in T : ~(<<y, x>> \in R)
  BY <1>1, WFMin
<1>4. ASSUME NEW y \in T PROVE x <= y
  <2>1. x \in Nat /\ y \in Nat
    OBVIOUS
  <2>2. ~(y < x)
    BY <1>2, <1>3, <2>1
  <2> QED BY <2>1, <2>2
<1> QED BY <1>4

RunningSum(f, k, sum) ==
    /\ sum \in [0..k -> Int]
    /\ sum[0] = 0
    /\ \A n \in 1..k : sum[n] = sum[n - 1] + f[n]

LEMMA RunningSumExists ==
    ASSUME NEW f \in [OrderNum -> Int]
    PROVE  \E sum : RunningSum(f, MaxOrders, sum)
<1> DEFINE Missing == {k \in 0..MaxOrders : ~ \E sum : RunningSum(f, k, sum)}
<1>1. SUFFICES ASSUME Missing # {} PROVE FALSE
  BY NumberAssumption
<1>2. Missing \in SUBSET Nat
  BY NumberAssumption
<1>3. PICK k \in Missing : \A m \in Missing : k <= m
  BY <1>1, <1>2, Least
<1>4. k \in Nat /\ k <= MaxOrders /\ ~ \E sum : RunningSum(f, k, sum)
  BY <1>2, <1>3, NumberAssumption
<1>5. CASE k = 0
  <2> DEFINE sum == [n \in 0..0 |-> 0]
  <2>1. sum \in [0..0 -> Int] /\ sum[0] = 0 /\ 1..0 = {}
    OBVIOUS
  <2> HIDE DEF sum
  <2>2. RunningSum(f, 0, sum)
    BY <2>1 DEF RunningSum
  <2> QED BY <1>4, <1>5, <2>2
<1>6. CASE k # 0
  <2>1. k - 1 \in 0..MaxOrders /\ ~(k <= k - 1) /\ k \in OrderNum
    BY <1>4, <1>6, NumberAssumption DEF OrderNum
  <2>2. PICK before : RunningSum(f, k - 1, before)
    BY <1>3, <2>1
  <2> DEFINE sum == [n \in 0..k |-> IF n = k THEN before[k - 1] + f[k] ELSE before[n]]
  <2>3. before \in [0..(k - 1) -> Int] /\ f[k] \in Int
    BY <2>1, <2>2 DEF RunningSum
  <2>4. sum \in [0..k -> Int] /\ sum[0] = before[0]
    BY <1>4, <1>6, <2>3
  <2>5. ASSUME NEW n \in 1..k PROVE sum[n] = sum[n - 1] + f[n]
    <3>1. CASE n = k
      BY <1>4, <1>6, <3>1
    <3>2. CASE n # k
      <4>1. n \in 1..(k - 1) /\ n \in 0..k /\ n - 1 \in 0..k /\ n - 1 # k
        BY <1>4, <3>2
      <4> QED BY <2>2, <3>2, <4>1 DEF RunningSum
    <3> QED BY <3>1, <3>2
  <2> HIDE DEF sum
  <2>6. RunningSum(f, k, sum)
    BY <2>2, <2>4, <2>5 DEF RunningSum
  <2> QED BY <1>4, <2>6
<1> QED BY <1>5, <1>6

IsTotal(f, sum) == sum = [n \in 0..MaxOrders |-> IF n = 0 THEN 0 ELSE sum[n - 1] + f[n]]

LEMMA RunningSumIsTotal ==
    ASSUME NEW f, NEW sum, RunningSum(f, MaxOrders, sum) PROVE IsTotal(f, sum)
<1>1. \A n \in 0..MaxOrders : n # 0 => n \in 1..MaxOrders
  BY NumberAssumption
<1>2. sum = [n \in 0..MaxOrders |-> sum[n]]
  BY DEF RunningSum
<1>3. \A n \in 0..MaxOrders : sum[n] = IF n = 0 THEN 0 ELSE sum[n - 1] + f[n]
  BY <1>1 DEF RunningSum
<1> QED BY <1>2, <1>3 DEF IsTotal

LEMMA TotalUnique ==
    ASSUME NEW f, NEW a, NEW b, IsTotal(f, a), IsTotal(f, b)
    PROVE  a = b
<1> DEFINE T == {n \in 0..MaxOrders : a[n] # b[n]}
<1>1. a = [n \in 0..MaxOrders |-> a[n]] /\ b = [n \in 0..MaxOrders |-> b[n]]
  BY DEF IsTotal
<1>2. SUFFICES ASSUME T # {} PROVE FALSE
  BY <1>1
<1>3. T \in SUBSET Nat
  BY NumberAssumption
<1>4. PICK n \in T : \A m \in T : n <= m
  BY <1>2, <1>3, Least
<1>5. n # 0 /\ n \in 0..MaxOrders
  BY NumberAssumption DEF IsTotal
<1>6. n - 1 \in 0..MaxOrders /\ ~(n <= n - 1)
  BY <1>5, NumberAssumption
<1>7. a[n - 1] = b[n - 1]
  BY <1>4, <1>6
<1>8. a[n] = a[n - 1] + f[n] /\ b[n] = b[n - 1] + f[n]
  BY <1>5 DEF IsTotal
<1> QED BY <1>7, <1>8

LEMMA TotalIs ==
    ASSUME NEW f, NEW sum, RunningSum(f, MaxOrders, sum)
    PROVE  Total(f) = sum[MaxOrders]
<1> DEFINE b == CHOOSE a : a = [n \in 0..MaxOrders |-> IF n = 0 THEN 0 ELSE a[n - 1] + f[n]]
<1>1. Total(f) = b[MaxOrders]
  BY DEF Total
<1>2. \E a : a = [n \in 0..MaxOrders |-> IF n = 0 THEN 0 ELSE a[n - 1] + f[n]]
  BY RunningSumIsTotal DEF IsTotal
<1>3. b = [n \in 0..MaxOrders |-> IF n = 0 THEN 0 ELSE b[n - 1] + f[n]]
  BY <1>2
<1>4. IsTotal(f, b)
  BY <1>3 DEF IsTotal
<1> HIDE DEF b
<1> QED BY <1>1, <1>4, RunningSumIsTotal, TotalUnique

LEMMA TotalOfNothing ==
    ASSUME NEW f \in [OrderNum -> Int], \A o \in OrderNum : f[o] = 0 PROVE Total(f) = 0
<1> DEFINE sum == [n \in 0..MaxOrders |-> 0]
<1>1. sum \in [0..MaxOrders -> Int] /\ sum[0] = 0 /\ sum[MaxOrders] = 0
  BY NumberAssumption
<1>2. ASSUME NEW n \in 1..MaxOrders PROVE sum[n] = sum[n - 1] + f[n]
  <2>1. n \in 0..MaxOrders /\ n - 1 \in 0..MaxOrders /\ f[n] = 0
    BY NumberAssumption DEF OrderNum
  <2> QED BY <2>1
<1> HIDE DEF sum
<1>3. RunningSum(f, MaxOrders, sum)
  BY <1>1, <1>2 DEF RunningSum
<1> QED BY <1>1, <1>3, TotalIs

\* One summand changes by d.
LEMMA TotalAdds ==
    ASSUME NEW f \in [OrderNum -> Int], NEW g \in [OrderNum -> Int],
           NEW o \in OrderNum, NEW d \in Int, g[o] = f[o] + d,
           \A q \in OrderNum \ {o} : g[q] = f[q]
    PROVE  Total(g) = Total(f) + d
<1>1. PICK a : RunningSum(f, MaxOrders, a)
  BY RunningSumExists
<1>2. a \in [0..MaxOrders -> Int] /\ o \in Nat /\ 1 <= o /\ o <= MaxOrders /\ MaxOrders \in Nat
  BY <1>1, NumberAssumption DEF RunningSum, OrderNum
<1> DEFINE b == [n \in 0..MaxOrders |-> IF n < o THEN a[n] ELSE a[n] + d]
<1>3. b \in [0..MaxOrders -> Int] /\ b[0] = a[0] /\ b[MaxOrders] = a[MaxOrders] + d
  BY <1>2
<1>4. ASSUME NEW n \in 1..MaxOrders PROVE b[n] = b[n - 1] + g[n]
  <2>1. /\ n \in OrderNum /\ n \in 0..MaxOrders /\ n - 1 \in 0..MaxOrders
        /\ n \in Int /\ a[n] \in Int /\ a[n - 1] \in Int /\ f[n] \in Int /\ g[n] \in Int
    BY <1>2 DEF OrderNum
  <2>2. a[n] = a[n - 1] + f[n]
    BY <1>1 DEF RunningSum
  <2>3. CASE n < o
    BY <1>2, <2>1, <2>2, <2>3
  <2>4. CASE n = o
    BY <1>2, <2>1, <2>2, <2>4
  <2>5. CASE n > o
    <3>1. ~(n < o) /\ ~(n - 1 < o) /\ n # o
      BY <1>2, <2>1, <2>5
    <3>2. b[n] = a[n] + d /\ b[n - 1] = a[n - 1] + d /\ g[n] = f[n]
      BY <2>1, <3>1
    <3> QED BY <2>1, <2>2, <3>2
  <2> QED BY <1>2, <2>1, <2>3, <2>4, <2>5
<1> HIDE DEF b
<1>5. RunningSum(g, MaxOrders, b)
  BY <1>1, <1>3, <1>4 DEF RunningSum
<1> QED BY <1>1, <1>3, <1>5, TotalIs

-----------------------------------------------------------------------------
(***************************************************************************)
(* The selection in the session and its project.  saveReturnConfirm's two  *)
(* attributes are always there together (SelectionKnown), so a payment     *)
(* always has a project.  It is the project of the return (SelectionInv)   *)
(* unless a page that selects another return is handled between the load   *)
(* and the commit of a showConfirmOrderInfo of the same session, which     *)
(* then puts its own return back beside the new project.                   *)
(***************************************************************************)
SelectionKnown ==
    /\ \A s \in Session : session[s].orderProjectVO # None => session[s].projectId \in Project
    /\ \A t \in Thread : At(t, "confirmOrder") => session[request[t].sid].projectId \in Project
    /\ \A o \in OrderNum : payment[o].state # "none" => payment[o].custom \in Project

SelectionInv ==
    /\ \A s \in Session : session[s].orderProjectVO # None =>
         session[s].projectId = ProjectOf[session[s].orderProjectVO.ret]
    /\ \A t \in Thread : At(t, "confirmOrder") =>
         session[request[t].sid].projectId = ProjectOf[request[t].orderProjectVO.ret]
    /\ PaidToProjectOfReturn

\* No return is selected while a request that confirms one is running.
SelectsAlone ==
    \A t \in Thread, s \in Session, r \in Return : showReturnConfirmInfo(t, s, r) =>
        \A u \in Thread : At(u, "confirmOrder") => request[u].sid # s

\* Both are kept, the second one only by steps that select alone.
SelectionKept ==
    /\ SelectionKnown => SelectionKnown'
    /\ SelectionInv /\ SelectsAlone => SelectionInv'

LEMMA SelectionFrame ==
    ASSUME TypeInv,
           \A s \in Session : /\ session'[s].orderProjectVO = session[s].orderProjectVO
                              /\ session'[s].projectId = session[s].projectId,
           \A t \in Thread : request'[t].pc \in {"confirmOrder", "createPayment"} =>
               request'[t] = request[t],
           \A o \in OrderNum : /\ payment'[o].custom = payment[o].custom
                               /\ payment'[o].state # "none" => payment[o].state # "none"
    PROVE  SelectionKept
<1>1. \A t \in Thread : /\ At(t, "confirmOrder") => request[t].sid \in Session
                        /\ At(t, "createPayment") => request[t].orderVO.orderNum \in OrderNum
  BY DEF TypeInv, LocalsDefined, LocalsOf, OrderVO, At
<1>2. SelectionKnown => SelectionKnown'
  BY <1>1 DEF SelectionKnown, At
<1>3. SelectionInv => SelectionInv'
  BY <1>1 DEF SelectionInv, PaidToProjectOfReturn, At
<1> QED BY <1>2, <1>3 DEF SelectionKept

LEMMA ShowReturnSelects ==
    ASSUME TypeInv, NEW t \in Thread, NEW s \in Session, NEW r \in Return,
           showReturnConfirmInfo(t, s, r)
    PROVE  SelectionKept
<1>1. /\ session'[s].orderProjectVO.ret = r /\ session'[s].projectId = ProjectOf[r]
      /\ \A x \in Session \ {s} : session'[x] = session[x]
      /\ request' = request /\ payment' = payment
  BY DEF showReturnConfirmInfo, paypal, TypeInv, TypeOK, SessionRecord
<1>2. ProjectOf[r] \in Project
  BY CatalogueAssumption
<1>3. \A u \in Thread : At(u, "confirmOrder") => request[u].sid \in Session
  BY DEF TypeInv, LocalsDefined, LocalsOf, At
<1>4. SelectionKnown => SelectionKnown'
  BY <1>1, <1>2, <1>3 DEF SelectionKnown, At
<1>5. ASSUME SelectionInv, SelectsAlone PROVE SelectionInv'
  <2>1. \A u \in Thread : At(u, "confirmOrder") => request[u].sid # s
    BY <1>5 DEF SelectsAlone
  <2> QED BY <1>1, <1>3, <1>5, <2>1 DEF SelectionInv, PaidToProjectOfReturn, At
<1> QED BY <1>4, <1>5 DEF SelectionKept

LEMMA ConfirmKeepsSelection ==
    ASSUME TypeInv, NEW t \in Thread, NEW s \in Session, NEW n \in Count,
           showConfirmOrderInfo(t, s, n)
    PROVE  SelectionKept
<1> DEFINE vo == [session[s].orderProjectVO EXCEPT !.returnCount = n]
           req == [Idle EXCEPT !.pc = "confirmOrder", !.sid = s,
                     !.orderProjectVO = vo, !.addressVOList = t_address[s]]
<1>1. session[s].orderProjectVO \in OrderProjectVO /\ session[s].orderProjectVO # None
  BY DEF showConfirmOrderInfo, TypeInv, TypeOK, SessionRecord
<1>2. vo.ret = session[s].orderProjectVO.ret
  BY <1>1 DEF OrderProjectVO
<1>3. request' = [request EXCEPT ![t] = req] /\ session' = session /\ payment' = payment
  BY DEF showConfirmOrderInfo, paypal
<1> HIDE DEF vo
<1>4. req.pc = "confirmOrder" /\ req.sid = s /\ req.orderProjectVO = vo
  BY DEF Idle
<1> HIDE DEF req
<1>5. request'[t] = req /\ \A u \in Thread \ {t} : request'[u] = request[u]
  BY <1>3 DEF TypeInv, TypeOK
<1>6. SelectionKnown => SelectionKnown'
  BY <1>1, <1>3, <1>4, <1>5 DEF SelectionKnown, At
<1>7. SelectionInv => SelectionInv'
  BY <1>1, <1>2, <1>3, <1>4, <1>5 DEF SelectionInv, PaidToProjectOfReturn, At
<1> QED BY <1>6, <1>7 DEF SelectionKept

LEMMA CommitKeepsSelection ==
    ASSUME TypeInv, NEW t \in Thread, commitConfirmOrder(t) PROVE SelectionKept
<1> DEFINE s == request[t].sid
           vo == request[t].orderProjectVO
<1>1. s \in Session /\ At(t, "confirmOrder")
  BY DEF commitConfirmOrder, At, TypeInv, LocalsDefined, LocalsOf
<1>2. /\ session'[s].orderProjectVO = vo /\ session'[s].projectId = session[s].projectId
      /\ \A x \in Session \ {s} : session'[x] = session[x]
  BY <1>1 DEF commitConfirmOrder, TypeInv, TypeOK, SessionRecord
<1>3. /\ request'[t].pc = "idle" /\ \A u \in Thread \ {t} : request'[u] = request[u]
      /\ payment' = payment
  BY DEF commitConfirmOrder, End, Idle, paypal, TypeInv, TypeOK
<1>4. \A u \in Thread : At(u, "confirmOrder") => request[u].sid \in Session
  BY DEF TypeInv, LocalsDefined, LocalsOf, At
<1> s = request[t].sid /\ vo = request[t].orderProjectVO
  OBVIOUS
<1> HIDE DEF s, vo
<1>5. \A x \in Session : session'[x].projectId = session[x].projectId
  BY <1>2
<1>6. ASSUME SelectionKnown PROVE SelectionKnown'
  <2>1. session[s].projectId \in Project
    BY <1>1, <1>6 DEF SelectionKnown
  <2> QED BY <1>1, <1>2, <1>3, <1>4, <1>5, <1>6, <2>1 DEF SelectionKnown, At
<1>7. ASSUME SelectionInv PROVE SelectionInv'
  <2>1. session[s].projectId = ProjectOf[vo.ret]
    BY <1>1, <1>7 DEF SelectionInv
  <2> QED BY <1>1, <1>2, <1>3, <1>4, <1>5, <1>7, <2>1
          DEF SelectionInv, PaidToProjectOfReturn, At
<1> QED BY <1>6, <1>7 DEF SelectionKept

LEMMA OrderCarriesProject ==
    ASSUME TypeInv, PaymentsOwned, NEW t \in Thread, NEW s \in Session, NEW o \in OrderNum,
           generateOrder(t, s, o)
    PROVE  SelectionKept
<1> DEFINE vo == session[s].orderProjectVO
           order == [orderNum |-> o, orderAmount |-> AmountOf(vo), orderProjectVO |-> vo]
           req == [Idle EXCEPT !.pc = "createPayment", !.sid = s, !.orderVO = order]
<1>1. vo # None /\ session' = session /\ payment[o].state = "none"
  BY DEF generateOrder, NextOrderNum
<1>2. /\ payment'[o].custom = session[s].projectId
      /\ \A q \in OrderNum \ {o} : payment'[q] = payment[q]
  BY DEF generateOrder, TypeInv, TypeOK
<1>3. request' = [request EXCEPT ![t] = req]
  BY DEF generateOrder
<1>4. req.pc = "createPayment" /\ req.orderVO.orderNum = o /\ req.orderVO.orderProjectVO = vo
  BY DEF Idle
<1> vo = session[s].orderProjectVO
  OBVIOUS
<1> HIDE DEF vo, req
<1>5. request'[t] = req /\ \A u \in Thread \ {t} : request'[u] = request[u]
  BY <1>3 DEF TypeInv, TypeOK
<1>6. SelectionKnown => SelectionKnown'
  BY <1>1, <1>2, <1>4, <1>5 DEF SelectionKnown, At
<1>7. ASSUME NEW u \in Thread \ {t}, At(u, "createPayment")
      PROVE  payment'[request[u].orderVO.orderNum] = payment[request[u].orderVO.orderNum]
  <2>1. request[u].orderVO.orderNum \in OrderNum
    BY <1>7 DEF TypeInv, LocalsDefined, LocalsOf, OrderVO, At
  <2>2. payment[request[u].orderVO.orderNum].state # "none"
    BY <1>7 DEF PaymentsOwned, At
  <2> QED BY <1>1, <1>2, <2>1, <2>2
<1>8. ASSUME SelectionInv PROVE SelectionInv'
  <2>1. session[s].projectId = ProjectOf[vo.ret]
    BY <1>1, <1>8 DEF SelectionInv
  <2>2. PaidToProjectOfReturn'
    <3> SUFFICES ASSUME NEW u \in Thread, At(u, "createPayment")'
                 PROVE  payment'[request'[u].orderVO.orderNum].custom =
                            ProjectOf[request'[u].orderVO.orderProjectVO.ret]
      BY DEF PaidToProjectOfReturn
    <3>1. CASE u = t
      BY <1>2, <1>4, <1>5, <2>1, <3>1
    <3>2. CASE u # t
      BY <1>5, <1>7, <1>8, <3>2 DEF SelectionInv, PaidToProjectOfReturn, At
    <3> QED BY <3>1, <3>2
  <2> QED BY <1>1, <1>4, <1>5, <1>8, <2>2 DEF SelectionInv, At
<1> QED BY <1>6, <1>8 DEF SelectionKept

LEMMA ExpireKeepsSelection ==
    ASSUME TypeInv, NEW s \in Session, expire(s) PROVE SelectionKept
<1>1. /\ session'[s].orderProjectVO = None
      /\ \A x \in Session \ {s} : session'[x] = session[x]
      /\ \A t \in Thread : request[t].sid # s
      /\ request' = request /\ payment' = payment
  BY DEF expire, EmptySession, paypal, TypeInv, TypeOK
<1>2. \A t \in Thread : At(t, "confirmOrder") => request[t].sid \in Session \ {s}
  BY <1>1 DEF TypeInv, LocalsDefined, LocalsOf, At
<1>3. SelectionKnown => SelectionKnown'
  BY <1>1, <1>2 DEF SelectionKnown, At
<1>4. SelectionInv => SelectionInv'
  BY <1>1, <1>2 DEF SelectionInv, PaidToProjectOfReturn, At
<1> QED BY <1>3, <1>4 DEF SelectionKept

LEMMA SelectionStep == ASSUME TypeInv, PaymentsOwned, [Next]_vars PROVE SelectionKept
<1> DEFINE Session_ == \A s \in Session : /\ session'[s].orderProjectVO = session[s].orderProjectVO
                                          /\ session'[s].projectId = session[s].projectId
           Request_ == \A t \in Thread : request'[t].pc \in {"confirmOrder", "createPayment"} =>
                           request'[t] = request[t]
           Payment_ == \A o \in OrderNum :
                           /\ payment'[o].custom = payment[o].custom
                           /\ payment'[o].state # "none" => payment[o].state # "none"
<1>1. /\ session' = session => Session_
      /\ request' = request => Request_
      /\ payment' = payment => Payment_
      /\ \A t \in Thread : End(t) => Request_
  BY DEF End, Idle, TypeInv, TypeOK
<1>2. Session_ /\ Request_ /\ Payment_ => SelectionKept
  BY SelectionFrame
<1>3. ASSUME NEW o \in OrderNum, NEW st, payment[o].state # "none",
             payment' = [payment EXCEPT ![o].state = st]
      PROVE  Payment_
  BY <1>3 DEF TypeInv, TypeOK, PaymentRecord
<1>4. ASSUME NEW t \in Thread, NEW pc, pc \notin {"confirmOrder", "createPayment"}, Goto(t, pc)
      PROVE  Request_
  BY <1>4 DEF Goto, TypeInv, TypeOK, RequestRecord
<1>5. ASSUME NEW t \in Thread, Receive(t) PROVE SelectionKept
  <2>1. ASSUME NEW s \in Session, saveAddress(t, s) PROVE SelectionKept
    BY <1>1, <1>2, <2>1 DEF saveAddress, paypal
  <2>2. ASSUME NEW o \in OrderNum, returnUrlMethod(t, o) PROVE SelectionKept
    <3>1. Request_
      BY <2>2 DEF returnUrlMethod, Idle, TypeInv, TypeOK
    <3> QED BY <1>1, <1>2, <2>2, <3>1 DEF returnUrlMethod, paypal
  <2> QED BY <1>5, <2>1, <2>2, ShowReturnSelects, ConfirmKeepsSelection, OrderCarriesProject
          DEF Receive
<1>6. ASSUME NEW t \in Thread, createPayment(t) PROVE SelectionKept
  <2>1. /\ request[t].orderVO.orderNum \in OrderNum
        /\ payment[request[t].orderVO.orderNum].state # "none"
    BY <1>6 DEF createPayment, At, TypeInv, LocalsDefined, LocalsOf, OrderVO, PaymentsOwned
  <2>2. Payment_ /\ Request_ /\ session' = session
    BY <1>3, <1>4, <1>6, <2>1 DEF createPayment
  <2> QED BY <1>1, <1>2, <2>2
<1>7. ASSUME NEW t \in Thread, commitOrder(t) PROVE SelectionKept
  <2>1. /\ request[t].orderVO.orderNum \in OrderNum /\ request[t].sid \in Session
        /\ payment[request[t].orderVO.orderNum].state # "none"
    BY <1>7 DEF commitOrder, At, TypeInv, LocalsDefined, LocalsOf, OrderVO, PaymentsOwned
  <2>2. Payment_
    BY <1>3, <1>7, <2>1 DEF commitOrder
  <2>3. Session_
    BY <1>7, <2>1 DEF commitOrder, TypeInv, TypeOK, SessionRecord
  <2> QED BY <1>1, <1>2, <1>7, <2>2, <2>3 DEF commitOrder
<1>8. ASSUME NEW t \in Thread, NEW sale \in {"pending", "completed"},
             executePayment(t, sale) \/ executeReplyLost(t, sale)
      PROVE  SelectionKept
  <2>1. request[t].pay \in OrderNum /\ payment[request[t].pay].state # "none"
    BY <1>8 DEF executePayment, executeReplyLost, Capture, At, TypeInv, LocalsDefined, LocalsOf
  <2>2. Payment_ /\ session' = session
    BY <1>3, <1>8, <2>1 DEF executePayment, executeReplyLost, Capture
  <2>3. Request_
    BY <1>1, <1>4, <1>8 DEF executePayment, executeReplyLost
  <2> QED BY <1>1, <1>2, <2>2, <2>3
<1>9. ASSUME NEW t \in Thread,
             executeRefused(t) \/ insertOrderProject(t) \/ insertFails(t) \/ crash(t)
      PROVE  SelectionKept
  BY <1>1, <1>2, <1>9 DEF executeRefused, insertOrderProject, insertFails, crash, paypal
<1>10. ASSUME NEW t \in Thread, insertOrder(t) PROVE SelectionKept
  <2>1. Request_
    BY <1>10 DEF insertOrder, TypeInv, TypeOK, RequestRecord
  <2> QED BY <1>1, <1>2, <1>10, <2>1 DEF insertOrder, paypal
<1>11. ASSUME NEW o \in OrderNum, approve(o) PROVE SelectionKept
  BY <1>1, <1>2, <1>3, <1>11 DEF approve
<1>12. ASSUME NEW o \in OrderNum, NEW sale, settle(o, sale) PROVE SelectionKept
  BY <1>1, <1>2, <1>3, <1>12 DEF settle
<1>13. ASSUME NEW o \in OrderNum, NEW k \in Kind, Webhook(o, k) PROVE SelectionKept
  <2>1. session' = session /\ request' = request /\ payment' = payment
    BY <1>13 DEF Webhook, notifyUrlMethod, notifyIgnored, updateProjectMoney, updateFails,
                 notifyAnswered, notifyAnswerLost
  <2> QED BY <1>1, <1>2, <2>1
<1>14. CASE UNCHANGED vars
  BY <1>1, <1>2, <1>14 DEF vars
<1> QED
  BY <1>5, <1>6, <1>7, <1>8, <1>9, <1>10, <1>11, <1>12, <1>13, <1>14,
     CommitKeepsSelection, ExpireKeepsSelection
  DEF Next, Handle, Disturb

LEMMA SelectionInit == Init => SelectionKnown /\ SelectionInv
BY DEF Init, SelectionKnown, SelectionInv, PaidToProjectOfReturn, EmptySession, Idle, At

\* A payment is credited to the project of the return its order was assembled
\* from, whatever other tabs, reloads, crashes and expiries do, as long as none
\* of them selects a return while the confirmation of another is handled.
THEOREM PaidToItsProject == Spec /\ [][SelectsAlone]_vars => []PaidToProjectOfReturn
<1>1. Init => SelectionInv
  BY SelectionInit
<1>2. OrderInv => TypeInv /\ PaymentsOwned
  BY DEF OrderInv, TypeInv
<1>3. SelectionInv /\ UNCHANGED vars => SelectionInv'
  BY DEF vars, SelectionInv, PaidToProjectOfReturn, At
<1>4. TypeInv /\ PaymentsOwned /\ SelectionInv /\ [Next]_vars /\ [SelectsAlone]_vars => SelectionInv'
  BY SelectionStep, <1>3 DEF SelectionKept
<1>5. SelectionInv => PaidToProjectOfReturn
  BY DEF SelectionInv
<1> QED BY <1>1, <1>2, <1>4, <1>5, OrderInvHolds, PTL DEF Spec

-----------------------------------------------------------------------------
(***************************************************************************)
(* The money of a project.  PayPal made only payments with a positive      *)
(* total, a payment keeps its total and its project once it has a number,  *)
(* and each applied notification adds its total to one of the sums.        *)
(***************************************************************************)
Payable == {"created", "redirected", "approved"} \cup Captured
TotalsPositive == \A o \in OrderNum : payment[o].state \in Payable => payment[o].total > 0

LEMMA TotalsStep ==
    ASSUME TypeInv, CreationExclusive, TotalsPositive, [Next]_vars
    PROVE  /\ TotalsPositive'
           /\ \A o \in OrderNum : payment[o].state # "none" =>
                payment'[o].total = payment[o].total /\ payment'[o].custom = payment[o].custom
<1> DEFINE Kept == /\ TotalsPositive'
                   /\ \A o \in OrderNum : payment[o].state # "none" =>
                        /\ payment'[o].total = payment[o].total
                        /\ payment'[o].custom = payment[o].custom
<1>1. CASE Quiet
  BY <1>1, QuietStep DEF TotalsPositive
<1>2. ASSUME NEW o \in OrderNum, NEW state,
             payment' = [payment EXCEPT ![o].state = state],
             state \in Payable => payment[o].state \in Payable \/ payment[o].total > 0
      PROVE  Kept
  <2>1. /\ payment'[o].state = state /\ payment'[o].total = payment[o].total
        /\ payment'[o].custom = payment[o].custom
        /\ \A q \in OrderNum \ {o} : payment'[q] = payment[q]
    BY <1>2 DEF TypeInv, TypeOK, PaymentRecord
  <2> QED BY <1>2, <2>1 DEF TotalsPositive
<1>3. ASSUME NEW o \in OrderNum, Advance(o) PROVE Kept
  <2>1. CASE approve(o)
    BY <1>2, <2>1 DEF approve, Payable
  <2>2. ASSUME NEW t \in Thread, commitOrder(t), o = request[t].orderVO.orderNum PROVE Kept
    <3> DEFINE state == IF payment[o].state = "created" THEN "redirected" ELSE payment[o].state
    <3>1. payment' = [payment EXCEPT ![o].state = state]
      BY <2>2 DEF commitOrder
    <3>2. state \in Payable => payment[o].state \in Payable
      BY DEF Payable
    <3> HIDE DEF state
    <3> QED BY <1>2, <3>1, <3>2
  <2>3. ASSUME NEW t \in Thread, NEW sale \in {"pending", "completed"}, o = request[t].pay,
               executePayment(t, sale) \/ executeReplyLost(t, sale)
        PROVE  Kept
    <3>1. payment[o].state = "approved" /\ payment' = [payment EXCEPT ![o].state = sale]
      BY <2>3 DEF executePayment, executeReplyLost, Capture
    <3> QED BY <1>2, <3>1 DEF Payable
  <2>4. ASSUME NEW sale \in {"completed", "denied"}, settle(o, sale) PROVE Kept
    <3>1. payment[o].state = "pending" /\ payment' = [payment EXCEPT ![o].state = sale]
      BY <2>4 DEF settle
    <3> QED BY <1>2, <3>1 DEF Payable, Captured
  <2> QED BY <1>3, <2>1, <2>2, <2>3, <2>4 DEF Advance
<1>4. ASSUME NEW t \in Thread, createPayment(t) PROVE Kept
  <2> DEFINE o == request[t].orderVO.orderNum
  <2>1. o \in OrderNum
    BY <1>4 DEF createPayment, At, TypeInv, LocalsDefined, LocalsOf, OrderVO
  <2>2. PICK result \in {"created", "refused"} :
            /\ result = "created" => payment[o].total > 0
            /\ payment' = [payment EXCEPT ![o].state = result]
    BY <1>4 DEF createPayment
  <2>3. result \in Payable => payment[o].total > 0
    BY <2>2 DEF Payable, Captured
  <2> HIDE DEF o
  <2> QED BY <1>2, <2>1, <2>2, <2>3
<1>5. ASSUME NEW t \in Thread, NEW s \in Session, NEW o \in OrderNum, generateOrder(t, s, o)
      PROVE  Kept
  <2>1. /\ payment[o].state = "none" /\ payment'[o].state = "assembled"
        /\ \A q \in OrderNum \ {o} : payment'[q] = payment[q]
    BY <1>5 DEF generateOrder, NextOrderNum, TypeInv, TypeOK
  <2> QED BY <2>1 DEF TotalsPositive, Payable, Captured
<1> QED BY <1>1, <1>3, <1>4, <1>5, StepKinds

\* Only an applied notification changes the counters and the tables' sums.
LEMMA OnlyUpdatesCredit ==
    ASSUME [Next]_vars
    PROVE  \/ UNCHANGED <<applied, t_project>>
           \/ \E o \in OrderNum, k \in Kind : updateProjectMoney(o, k)
<1> DEFINE Same == UNCHANGED <<applied, t_project>>
<1>1. ASSUME NEW t \in Thread, Receive(t) PROVE Same
  BY <1>1 DEF Receive, showReturnConfirmInfo, saveAddress, showConfirmOrderInfo,
              generateOrder, returnUrlMethod, paypal, tables
<1>2. ASSUME NEW t \in Thread, Handle(t) PROVE Same
  BY <1>2 DEF Handle, commitConfirmOrder, createPayment, commitOrder, executePayment, Capture,
              executeRefused, insertOrder, insertOrderProject, paypal, tables
<1>3. ASSUME NEW t \in Thread, Disturb(t) PROVE Same
  BY <1>3 DEF Disturb, executeReplyLost, Capture, insertFails, crash, paypal, tables
<1>4. ASSUME NEW o \in OrderNum,
             approve(o) \/ \E sale \in {"completed", "denied"} : settle(o, sale)
      PROVE  Same
  BY <1>4 DEF approve, settle, tables
<1>5. ASSUME NEW o \in OrderNum, NEW k \in Kind, Webhook(o, k), ~updateProjectMoney(o, k)
      PROVE  Same
  BY <1>5 DEF Webhook, notifyUrlMethod, notifyIgnored, updateFails, notifyAnswered,
              notifyAnswerLost, tables
<1>6. ASSUME NEW s \in Session, expire(s) PROVE Same
  BY <1>6 DEF expire, paypal, tables
<1>7. CASE UNCHANGED vars
  BY <1>7 DEF vars
<1> DEFINE Update == \E o \in OrderNum, k \in Kind : updateProjectMoney(o, k)
<1>8. ASSUME NEW t \in Thread, Receive(t) \/ Handle(t) \/ Disturb(t) PROVE Same \/ Update
  BY <1>1, <1>2, <1>3, <1>8
<1>9. ASSUME NEW o \in OrderNum,
             \/ approve(o)
             \/ \E sale \in {"completed", "denied"} : settle(o, sale)
             \/ \E k \in Kind : Webhook(o, k)
      PROVE  Same \/ Update
  BY <1>4, <1>5, <1>9
<1>10. CASE Next
  BY <1>6, <1>8, <1>9, <1>10, Zenon DEF Next
<1> QED BY <1>7, <1>10

Credits(p) == [o \in OrderNum |-> CreditsFor(p, o)]
Money(p) == [o \in OrderNum |-> CreditsFor(p, o) * payment[o].total]
SumsMatch ==
    \A p \in Project : /\ t_project[p].supportmoney = Total(Money(p))
                       /\ t_project[p].supporter = Total(Credits(p))

LEMMA SummandsTyped ==
    ASSUME TypeInv, NEW p
    PROVE  /\ Credits(p) \in [OrderNum -> Int] /\ Money(p) \in [OrderNum -> Int]
           /\ \A o \in OrderNum : applied[o] \in Nat /\ payment[o].total \in Int
<1>1. \A o \in OrderNum : applied[o] \in Nat /\ payment[o].total \in Int
  BY DEF TypeInv, TypeOK, PaymentRecord
<1>2. \A o \in OrderNum : CreditsFor(p, o) \in Int
  BY <1>1 DEF CreditsFor
<1>3. \A o \in OrderNum : CreditsFor(p, o) * payment[o].total \in Int
  BY <1>1, <1>2
<1> QED BY <1>1, <1>2, <1>3 DEF Credits, Money

LEMMA SumsInit == Init => SumsMatch /\ TotalsPositive
<1> SUFFICES ASSUME Init PROVE SumsMatch /\ TotalsPositive
  OBVIOUS
<1>1. TypeInv
  BY TypeInit
<1>2. ASSUME NEW p \in Project PROVE Total(Money(p)) = 0 /\ Total(Credits(p)) = 0
  <2>1. \A o \in OrderNum : CreditsFor(p, o) = 0 /\ payment[o].total = 0
    BY DEF Init, CreditsFor
  <2>2. \A o \in OrderNum : Money(p)[o] = 0 /\ Credits(p)[o] = 0
    BY <2>1 DEF Money, Credits
  <2> QED BY <1>1, <2>2, SummandsTyped, TotalOfNothing
<1> QED BY <1>2 DEF Init, SumsMatch, TotalsPositive, Payable, Captured

LEMMA SumsStep ==
    ASSUME OrderInv, OrderInv', TotalsPositive, SelectionKnown, SumsMatch, [Next]_vars
    PROVE  SumsMatch'
<1>1. TypeInv /\ TypeInv' /\ CreationExclusive /\ NotifiedIsCompleted
  BY DEF OrderInv, TypeInv
<1>2. \A o \in OrderNum : applied[o] > 0 \/ notification[o]["completed"] # "none" =>
          /\ payment'[o].total = payment[o].total /\ payment'[o].custom = payment[o].custom
          /\ payment[o].custom \in Project
  BY <1>1, TotalsStep DEF NotifiedIsCompleted, SelectionKnown
<1>3. ASSUME NEW p, NEW o \in OrderNum, applied'[o] = applied[o]
      PROVE  Credits(p)'[o] = Credits(p)[o] /\ Money(p)'[o] = Money(p)[o]
  <2>1. applied[o] \in Nat /\ payment[o].total \in Int /\ payment'[o].total \in Int
    BY <1>1, SummandsTyped DEF TypeInv, TypeOK, PaymentRecord
  <2>2. CASE applied[o] > 0
    BY <1>2, <1>3, <2>2 DEF Credits, Money, CreditsFor
  <2>3. CASE applied[o] = 0
    <3>1. CreditsFor(p, o) = 0 /\ CreditsFor(p, o)' = 0
      BY <1>3, <2>3 DEF CreditsFor
    <3> QED BY <2>1, <3>1 DEF Credits, Money
  <2> QED BY <2>1, <2>2, <2>3
<1>4. CASE UNCHANGED <<applied, t_project>>
  <2>1. ASSUME NEW p \in Project PROVE Credits(p)' = Credits(p) /\ Money(p)' = Money(p)
    BY <1>3, <1>4 DEF Credits, Money
  <2> QED BY <1>4, <2>1 DEF SumsMatch
<1>5. ASSUME NEW o \in OrderNum, NEW k \in Kind, updateProjectMoney(o, k) PROVE SumsMatch'
  <2>1. /\ applied'[o] = applied[o] + 1 /\ \A q \in OrderNum \ {o} : applied'[q] = applied[q]
        /\ payment' = payment /\ payment[o].custom \in Project
    BY <1>1, <1>2, <1>5 DEF updateProjectMoney, Notified, TypeInv, TypeOK
  <2> PICK c \in Project : c = payment[o].custom
    BY <2>1
  <2> DEFINE d == payment[o].total
  <2>2. /\ t_project'[c].supportmoney = t_project[c].supportmoney + d
        /\ t_project'[c].supporter = t_project[c].supporter + 1
        /\ \A p \in Project \ {c} : t_project'[p] = t_project[p]
    BY <1>1, <1>5, <2>1 DEF updateProjectMoney, TypeInv, TypeOK, ProjectRow
  <2>3. ASSUME NEW p \in Project, p # c PROVE Credits(p)' = Credits(p) /\ Money(p)' = Money(p)
    <3>1. \A q \in OrderNum : CreditsFor(p, q)' = CreditsFor(p, q)
      BY <2>1, <2>3 DEF CreditsFor
    <3> QED BY <2>1, <3>1 DEF Credits, Money
  <2>4. /\ Credits(c)'[o] = Credits(c)[o] + 1
        /\ Money(c)'[o] = Money(c)[o] + d
    <3>1. applied[o] \in Int /\ d \in Int
      BY <1>1, SummandsTyped
    <3>2. (applied[o] + 1) * d = applied[o] * d + d
      BY <3>1
    <3>3. CreditsFor(c, o) = applied[o] /\ CreditsFor(c, o)' = applied[o] + 1
      BY <2>1 DEF CreditsFor
    <3> QED BY <2>1, <3>2, <3>3 DEF Credits, Money
  <2>5. /\ Credits(c) \in [OrderNum -> Int] /\ Money(c) \in [OrderNum -> Int]
        /\ Credits(c)' \in [OrderNum -> Int] /\ Money(c)' \in [OrderNum -> Int]
        /\ d \in Int
    <3>1. \A q \in OrderNum : applied'[q] \in Int /\ payment'[q].total \in Int
      BY <1>1 DEF TypeInv, TypeOK, PaymentRecord
    <3>2. \A q \in OrderNum : CreditsFor(c, q)' \in Int
      BY <3>1 DEF CreditsFor
    <3> QED BY <1>1, <3>1, <3>2, SummandsTyped DEF Credits, Money
  <2>6. \A q \in OrderNum \ {o} : Credits(c)'[q] = Credits(c)[q] /\ Money(c)'[q] = Money(c)[q]
    BY <1>3, <2>1
  <2>7. Total(Credits(c)') = Total(Credits(c)) + 1
    BY <2>4, <2>5, <2>6, TotalAdds
  <2>8. Total(Money(c)') = Total(Money(c)) + d
    BY <2>4, <2>5, <2>6, TotalAdds
  <2>9. ASSUME NEW p \in Project
        PROVE  /\ t_project'[p].supportmoney = Total(Money(p)')
               /\ t_project'[p].supporter = Total(Credits(p)')
    <3>1. CASE p = c
      BY <2>2, <2>7, <2>8, <3>1 DEF SumsMatch
    <3>2. CASE p # c
      BY <2>2, <2>3, <3>2 DEF SumsMatch
    <3> QED BY <3>1, <3>2
  <2> QED BY <2>9 DEF SumsMatch
<1> QED BY <1>4, <1>5, OnlyUpdatesCredit

\* supportmoney and supporter of t_project are at any time the sums over the
\* notifications that were applied, each of them of a payment with a positive
\* total and for one of the projects: no update is lost, doubled or misdirected
\* between concurrent deliveries, failing updates and lost answers.
THEOREM MoneyIsSumOfCredits == Spec => []MoneyMatchesCredits
<1> DEFINE MoneyInv == TotalsPositive /\ SelectionKnown /\ SumsMatch
<1>1. Init => MoneyInv
  BY SumsInit, SelectionInit
<1>2. OrderInv /\ OrderInv' /\ MoneyInv /\ [Next]_vars => MoneyInv'
  BY SumsStep, TotalsStep, SelectionStep DEF OrderInv, TypeInv, SelectionKept
<1>3. ASSUME OrderInv, MoneyInv PROVE MoneyMatchesCredits
  <2>1. \A o \in OrderNum : applied[o] > 0 => payment[o].state = "completed"
    BY <1>3 DEF OrderInv, NotifiedIsCompleted
  <2>2. \A o \in OrderNum : applied[o] > 0 =>
            payment[o].total > 0 /\ payment[o].custom \in Project
    BY <1>3, <2>1 DEF TotalsPositive, SelectionKnown, Payable, Captured
  <2> QED BY <1>3, <2>2 DEF MoneyMatchesCredits, SumsMatch, Money, Credits
<1> HIDE DEF MoneyInv
<1> QED BY <1>1, <1>2, <1>3, OrderInvHolds, PTL DEF Spec
=============================================================================
