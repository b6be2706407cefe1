------------------------------ MODULE Checkout ------------------------------
(***************************************************************************)
(* The checkout of the order service: OrderController, OrderServiceImpl,    *)
(* the tables t_order, t_order_project and t_project it writes, the shared  *)
(* HTTP session (Spring Session in Redis) and PayPal.                       *)
(*                                                                         *)
(* A browser session may have several tabs and the server several request   *)
(* threads.  A request reads the whole session when it starts and writes    *)
(* the attributes it set with setAttribute when it ends, so a handler that  *)
(* reads the session is split into a step that loads and a step that        *)
(* commits.  A payment is named by its invoice number: generateOrder draws  *)
(* a fresh order number and makes at most one payment with it.              *)
(***************************************************************************)
EXTENDS Integers, Sequences

CONSTANTS
    Session,          \* browser sessions, one member each
    Thread,           \* request threads of the order service
    Project, Return,  \* rows of t_project and of t_return
    ProjectOf,        \* t_return.projectid
    SupportPrice,     \* t_return.supportmoney
    Freight,          \* t_return.freight
    Limit,            \* t_return.count: mapped to returnCount by the select
    Count,            \* the returnCount values a member may choose
    IntHalf,          \* Java int holds -IntHalf .. IntHalf-1 (2^31 in the code)
    OrderAmountLimit, \* t_order.order_amount DOUBLE(10,5) holds less than this
    MaxOrders,        \* bound: order numbers drawn
    MaxCredits,       \* bound: times one notification is applied
    MaxAddress,       \* bound: rows of t_address per member
    Subscribed,       \* sale events PayPal's webhook is subscribed to, of Kind
    Faults,           \* the failures this instance has, a subset of Fault
    None

Fault == {"expire", "crash", "replyLost", "ackLost", "database"}
Kind == {"pending", "completed"}
OrderNum == 1..MaxOrders

ASSUME CatalogueAssumption ==
    /\ ProjectOf \in [Return -> Project]
    /\ SupportPrice \in [Return -> Nat]
    /\ Freight \in [Return -> Nat]
    /\ Limit \in [Return -> Nat]
    /\ Count \subseteq Int
ASSUME NumberAssumption ==
    /\ IntHalf \in Nat \ {0}
    /\ OrderAmountLimit \in Nat
    /\ MaxOrders \in Nat
    /\ MaxCredits \in Nat
    /\ MaxAddress \in Nat
ASSUME FaultAssumption == Faults \subseteq Fault /\ Subscribed \subseteq Kind

(***************************************************************************)
(* The value objects.  A return fixes its project, price and freight.       *)
(***************************************************************************)
OrderProjectVO == [ret : Return, returnCount : Int]
OrderVO == [orderNum : OrderNum, orderAmount : Int, orderProjectVO : OrderProjectVO]

\* Java int arithmetic: the value modulo 2^w, in two's complement.
ToInt(x) == ((x + IntHalf) % (2 * IntHalf)) - IntHalf

\* supportPrice * returnCount + freight, computed in int and then cast.
AmountOf(vo) == ToInt(SupportPrice[vo.ret] * vo.returnCount + Freight[vo.ret])

VARIABLES
    session,         \* per session: orderProjectVO, projectId, orderVO, addressVOList
    request,         \* per thread: the handler it runs and its local values
    payment,         \* PayPal: state of the payment with that invoice number
    notification,    \* PayPal: the webhook event of each payment and kind
    applied,         \* times updateProjectMoney ran for that payment
    t_order,         \* the table: a row's id is its index
    t_order_project,
    t_project,       \* columns supportmoney and supporter
    t_address        \* rows of each session's member

vars == <<session, request, payment, notification, applied,
          t_order, t_order_project, t_project, t_address>>
tables == <<t_order, t_order_project, t_project, t_address>>
paypal == <<payment, notification, applied>>

Captured == {"pending", "completed", "denied"}
PaymentState == {"none", "assembled", "refused", "created", "redirected", "approved"} \cup Captured
NotificationState == {"none", "queued", "processing", "responding", "acked"}
PC == {"idle", "confirmOrder", "createPayment", "redirect", "execute",
       "insertOrder", "insertOrderProject"}

SessionRecord == [orderProjectVO : OrderProjectVO \cup {None},
                  projectId : Project \cup {None},
                  orderVO : OrderVO \cup {None},
                  addressVOList : Nat]
RequestRecord == [pc : PC,
                  sid : Session \cup {None},
                  orderProjectVO : OrderProjectVO \cup {None},
                  orderVO : OrderVO \cup {None},
                  addressVOList : Nat,
                  pay : OrderNum \cup {None},
                  orderId : Nat]
PaymentRecord == [state : PaymentState, sid : Session \cup {None},
                  total : Int, custom : Project \cup {None}]
OrderRow == [orderNum : OrderNum, orderAmount : Int, payOrderNum : OrderNum]
OrderProjectRow == [ret : Return, returnCount : Int, orderId : Nat]
ProjectRow == [supportmoney : Int, supporter : Nat]

Idle == [pc |-> "idle", sid |-> None, orderProjectVO |-> None, orderVO |-> None,
         addressVOList |-> 0, pay |-> None, orderId |-> 0]
EmptySession == [orderProjectVO |-> None, projectId |-> None, orderVO |-> None,
                 addressVOList |-> 0]

-----------------------------------------------------------------------------
Init ==
    /\ session = [s \in Session |-> EmptySession]
    /\ request = [t \in Thread |-> Idle]
    /\ payment = [o \in OrderNum |-> [state |-> "none", sid |-> None, total |-> 0, custom |-> None]]
    /\ notification = [o \in OrderNum |-> [k \in Kind |-> "none"]]
    /\ applied = [o \in OrderNum |-> 0]
    /\ t_order = << >>
    /\ t_order_project = << >>
    /\ t_project = [p \in Project |-> [supportmoney |-> 0, supporter |-> 0]]
    /\ t_address = [s \in Session |-> 0]

\* Where a thread is, and how it goes on or ends.
At(t, pc) == request[t].pc = pc
Goto(t, pc) == request' = [request EXCEPT ![t].pc = pc]
End(t) == request' = [request EXCEPT ![t] = Idle]

\* Order numbers are drawn in order: their values are not told apart.
NextOrderNum(o) ==
    /\ payment[o].state = "none"
    /\ \A i \in 1..(o - 1) : payment[i].state # "none"

\* PayPal queues an event for a sale that became pending or completed.
Notify(o, sale) ==
    notification' = IF sale \in Subscribed
                    THEN [notification EXCEPT ![o][sale] = "queued"]
                    ELSE notification

\* PayPal takes the money.  The sale is completed at once or stays pending.
Capture(o, sale) ==
    /\ payment[o].state = "approved"
    /\ payment' = [payment EXCEPT ![o].state = sale]
    /\ Notify(o, sale)
    /\ UNCHANGED applied

Notified(o, k, from, to) ==
    /\ notification[o][k] = from
    /\ notification' = [notification EXCEPT ![o][k] = to]

(***************************************************************************)
(* Plausible bugs.  Each is a definition below with one mistake, put in    *)
(* its place to see that the property named here notices it.               *)
(***************************************************************************)

\* OrderRecordedOncePerPayment: the state of the executed payment (line 165) not looked at.
executeRefused_goesOn(t) ==
    /\ At(t, "execute")
    /\ IF request[t].orderVO = None THEN End(t) ELSE Goto(t, "insertOrder")
    /\ UNCHANGED <<session, paypal, tables>>

\* DetailMatchesOrder: the detail taken from the session when it is saved.
insertOrderProject_ofSession(t) ==
    /\ At(t, "insertOrderProject")
    /\ LET vo == session[request[t].sid].orderProjectVO
       IN t_order_project' = IF vo = None THEN t_order_project ELSE Append(t_order_project,
              [ret |-> vo.ret, returnCount |-> vo.returnCount, orderId |-> request[t].orderId])
    /\ End(t)
    /\ UNCHANGED <<session, paypal, t_order, t_project, t_address>>

\* OrderInv: the key read before the insert generated it.
insertOrder_oldKey(t) ==
    /\ At(t, "insertOrder")
    /\ request[t].orderVO.orderAmount < OrderAmountLimit
    /\ t_order' = Append(t_order, [orderNum |-> request[t].orderVO.orderNum,
                                   orderAmount |-> request[t].orderVO.orderAmount,
                                   payOrderNum |-> request[t].pay])
    /\ request' = [request EXCEPT ![t].pc = "insertOrderProject",
                                  ![t].orderId = Len(t_order)]
    /\ UNCHANGED <<session, paypal, t_order_project, t_project, t_address>>

\* RefinesFunding: the order saved before the payment is executed.
returnUrlMethod_savesFirst(t, o) ==
    /\ At(t, "idle")
    /\ payment[o].state \in {"approved"} \cup Captured
    /\ session[payment[o].sid].orderVO # None
    /\ request' = [request EXCEPT ![t] = [Idle EXCEPT
           !.pc = "insertOrder",
           !.sid = payment[o].sid,
           !.orderVO = session[payment[o].sid].orderVO,
           !.pay = o]]
    /\ UNCHANGED <<session, paypal, tables>>

\* CapturedIsBooked: setAttribute("orderVO") forgotten.
commitOrder_notKept(t) ==
    /\ At(t, "redirect")
    /\ payment' = [payment EXCEPT ![request[t].orderVO.orderNum].state =
                      IF @ = "created" THEN "redirected" ELSE @]
    /\ End(t)
    /\ UNCHANGED <<session, notification, applied, tables>>

\* PaidToProjectOfReturn: setAttribute("projectId") only for the first project.
showReturnConfirmInfo_staleProject(t, s, r) ==
    /\ At(t, "idle")
    /\ session' = [session EXCEPT
           ![s].orderProjectVO = [ret |-> r, returnCount |-> Limit[r]],
           ![s].projectId = IF @ = None THEN ProjectOf[r] ELSE @]
    /\ UNCHANGED <<request, paypal, tables>>

\* CreditOnlyCompleted: the state of the sale (line 237) not looked at.
updateProjectMoney_anyState(o, k) ==
    /\ Notified(o, k, "processing", "responding")
    /\ applied' = [applied EXCEPT ![o] = @ + 1]
    /\ t_project' = [t_project EXCEPT
           ![payment[o].custom].supportmoney = @ + payment[o].total,
           ![payment[o].custom].supporter = @ + 1]
    /\ UNCHANGED <<session, request, payment, t_order, t_order_project, t_address>>

\* MoneyMatchesCredits: the new sum computed from a value read before.
updateProjectMoney_overwrites(o, k) ==
    /\ k = "completed"
    /\ Notified(o, k, "processing", "responding")
    /\ applied' = [applied EXCEPT ![o] = @ + 1]
    /\ t_project' = [t_project EXCEPT
           ![payment[o].custom].supportmoney = payment[o].total,
           ![payment[o].custom].supporter = @ + 1]
    /\ UNCHANGED <<session, request, payment, t_order, t_order_project, t_address>>

\* CompletedIsCredited: a failed update answered with 200.
updateFails_answers200(o, k) ==
    /\ "database" \in Faults
    /\ k = "completed"
    /\ Notified(o, k, "processing", "acked")
    /\ UNCHANGED <<session, request, payment, applied, tables>>

\* RefinesFundingFairly: the handler returns before it looks at the state.
notifyIgnored_always(o, k) ==
    /\ Notified(o, k, "processing", "acked")
    /\ UNCHANGED <<session, request, payment, applied, tables>>

(***************************************************************************)
(* Pages before the payment.                                               *)
(***************************************************************************)

\* It reads no attribute, so it is one step of a free thread: both attributes
\* are written by one delta.  The select maps t_return.count to returnCount.
showReturnConfirmInfo(t, s, r) ==
    /\ At(t, "idle")
    /\ session' = [session EXCEPT
           ![s].orderProjectVO = [ret |-> r, returnCount |-> Limit[r]],
           ![s].projectId = ProjectOf[r]]
    /\ UNCHANGED <<request, paypal, tables>>

\* Without orderProjectVO the handler throws and changes nothing.
showConfirmOrderInfo(t, s, n) ==
    /\ At(t, "idle")
    /\ session[s].orderProjectVO # None
    /\ request' = [request EXCEPT ![t] = [Idle EXCEPT
           !.pc = "confirmOrder",
           !.sid = s,
           !.orderProjectVO = [session[s].orderProjectVO EXCEPT !.returnCount = n],
           !.addressVOList = t_address[s]]]
    /\ UNCHANGED <<session, paypal, tables>>

commitConfirmOrder(t) ==
    /\ At(t, "confirmOrder")
    /\ session' = [session EXCEPT
           ![request[t].sid].orderProjectVO = request[t].orderProjectVO,
           ![request[t].sid].addressVOList = request[t].addressVOList]
    /\ End(t)
    /\ UNCHANGED <<paypal, tables>>

\* The row is inserted before the session is looked at: it stays when the
\* lookup throws.  The redirect is a new showConfirmOrderInfo request.
saveAddress(t, s) ==
    /\ At(t, "idle")
    /\ t_address[s] < MaxAddress
    /\ t_address' = [t_address EXCEPT ![s] = @ + 1]
    /\ UNCHANGED <<session, request, paypal, t_order, t_order_project, t_project>>

(***************************************************************************)
(* generateOrder: load the session and assemble the order, call PayPal,    *)
(* then commit orderVO and redirect the browser to the approval page.      *)
(***************************************************************************)

generateOrder(t, s, o) ==
    /\ At(t, "idle")
    /\ session[s].orderProjectVO # None
    /\ NextOrderNum(o)
    /\ LET amount == AmountOf(session[s].orderProjectVO)
       IN /\ request' = [request EXCEPT ![t] = [Idle EXCEPT
                 !.pc = "createPayment",
                 !.sid = s,
                 !.orderVO = [orderNum |-> o, orderAmount |-> amount,
                              orderProjectVO |-> session[s].orderProjectVO]]]
          /\ payment' = [payment EXCEPT ![o] = [state |-> "assembled", sid |-> s,
                 total |-> amount, custom |-> session[s].projectId]]
    /\ UNCHANGED <<session, notification, applied, tables>>

\* PayPal takes only a positive total; it may refuse any call (the exception
\* is caught).  In both cases the handler goes on and orderVO is committed.
createPayment(t) ==
    /\ At(t, "createPayment")
    /\ \E result \in {"created", "refused"} :
         /\ result = "created" => payment[request[t].orderVO.orderNum].total > 0
         /\ payment' = [payment EXCEPT ![request[t].orderVO.orderNum].state = result]
    /\ Goto(t, "redirect")
    /\ UNCHANGED <<session, notification, applied, tables>>

\* sendRedirect commits the response, and with it the session, first.
commitOrder(t) ==
    /\ At(t, "redirect")
    /\ session' = [session EXCEPT ![request[t].sid].orderVO = request[t].orderVO]
    /\ payment' = [payment EXCEPT ![request[t].orderVO.orderNum].state =
                      IF @ = "created" THEN "redirected" ELSE @]
    /\ End(t)
    /\ UNCHANGED <<notification, applied, tables>>

\* The member approves on PayPal's page and is sent to /paypal/success.
approve(o) ==
    /\ payment[o].state = "redirected"
    /\ payment' = [payment EXCEPT ![o].state = "approved"]
    /\ UNCHANGED <<session, request, notification, applied, tables>>

(***************************************************************************)
(* returnUrlMethod: load the session, execute the payment, save the order  *)
(* with two inserts, each its own transaction.  The page can be reloaded.  *)
(***************************************************************************)

returnUrlMethod(t, o) ==
    /\ At(t, "idle")
    /\ payment[o].state \in {"approved"} \cup Captured
    /\ request' = [request EXCEPT ![t] = [Idle EXCEPT
           !.pc = "execute",
           !.sid = payment[o].sid,
           !.orderVO = session[payment[o].sid].orderVO,
           !.pay = o]]
    /\ UNCHANGED <<session, paypal, tables>>

\* With the session expired orderVO is null and the handler throws here,
\* after the payment was executed.
executePayment(t, sale) ==
    /\ At(t, "execute")
    /\ Capture(request[t].pay, sale)
    /\ IF request[t].orderVO = None THEN End(t) ELSE Goto(t, "insertOrder")
    /\ UNCHANGED <<session, tables>>

\* PayPal refuses: not approved, or executed before.  Nothing is saved.
executeRefused(t) ==
    /\ At(t, "execute")
    /\ End(t)
    /\ UNCHANGED <<session, paypal, tables>>

\* PayPal executes, its answer is lost and the call throws.
executeReplyLost(t, sale) ==
    /\ "replyLost" \in Faults
    /\ At(t, "execute")
    /\ Capture(request[t].pay, sale)
    /\ End(t)
    /\ UNCHANGED <<session, tables>>

insertOrder(t) ==
    /\ At(t, "insertOrder")
    /\ request[t].orderVO.orderAmount < OrderAmountLimit
    /\ t_order' = Append(t_order, [orderNum |-> request[t].orderVO.orderNum,
                                   orderAmount |-> request[t].orderVO.orderAmount,
                                   payOrderNum |-> request[t].pay])
    /\ request' = [request EXCEPT ![t].pc = "insertOrderProject",
                                  ![t].orderId = Len(t_order')]
    /\ UNCHANGED <<session, paypal, t_order_project, t_project, t_address>>

insertOrderProject(t) ==
    /\ At(t, "insertOrderProject")
    /\ LET vo == request[t].orderVO.orderProjectVO
       IN t_order_project' = Append(t_order_project,
              [ret |-> vo.ret, returnCount |-> vo.returnCount, orderId |-> request[t].orderId])
    /\ End(t)
    /\ UNCHANGED <<session, paypal, t_order, t_project, t_address>>

\* A failed insert throws out of the handler; saveOrder is not a transaction,
\* so a t_order row already inserted stays.
insertFails(t) ==
    /\ \/ /\ At(t, "insertOrder")
          /\ \/ request[t].orderVO.orderAmount >= OrderAmountLimit
             \/ "database" \in Faults
       \/ /\ At(t, "insertOrderProject")
          /\ "database" \in Faults
    /\ End(t)
    /\ UNCHANGED <<session, paypal, tables>>

(***************************************************************************)
(* PayPal's webhook and notifyUrlMethod.                                    *)
(***************************************************************************)

settle(o, sale) ==
    /\ payment[o].state = "pending"
    /\ payment' = [payment EXCEPT ![o].state = sale]
    /\ Notify(o, sale)
    /\ UNCHANGED <<session, request, applied, tables>>

notifyUrlMethod(o, k) ==
    /\ Notified(o, k, "queued", "processing")
    /\ UNCHANGED <<session, request, payment, applied, tables>>

\* A state other than "completed" changes nothing and answers 200.
notifyIgnored(o, k) ==
    /\ k # "completed"
    /\ Notified(o, k, "processing", "acked")
    /\ UNCHANGED <<session, request, payment, applied, tables>>

\* One SQL statement adds the total and one supporter to the project whose
\* id the payment carries.
updateProjectMoney(o, k) ==
    /\ k = "completed"
    /\ Notified(o, k, "processing", "responding")
    /\ applied' = [applied EXCEPT ![o] = @ + 1]
    /\ t_project' = [t_project EXCEPT
           ![payment[o].custom].supportmoney = @ + payment[o].total,
           ![payment[o].custom].supporter = @ + 1]
    /\ UNCHANGED <<session, request, payment, t_order, t_order_project, t_address>>

\* The exception is caught and answered with 500, so that PayPal sends again.
updateFails(o, k) ==
    /\ "database" \in Faults
    /\ k = "completed"
    /\ Notified(o, k, "processing", "queued")
    /\ UNCHANGED <<session, request, payment, applied, tables>>

notifyAnswered(o, k) ==
    /\ Notified(o, k, "responding", "acked")
    /\ UNCHANGED <<session, request, payment, applied, tables>>

\* The answer 200 does not reach PayPal, which sends again.
notifyAnswerLost(o, k) ==
    /\ "ackLost" \in Faults
    /\ applied[o] < MaxCredits
    /\ Notified(o, k, "responding", "queued")
    /\ UNCHANGED <<session, request, payment, applied, tables>>

(***************************************************************************)
(* Faults of the process and of the session.                               *)
(***************************************************************************)

\* The thread's process dies between two steps of a handler.
crash(t) ==
    /\ "crash" \in Faults
    /\ ~ At(t, "idle")
    /\ End(t)
    /\ UNCHANGED <<session, paypal, tables>>

\* The idle time is counted from the last request: none is running.
expire(s) ==
    /\ "expire" \in Faults
    /\ session[s] # EmptySession
    /\ \A t \in Thread : request[t].sid # s
    /\ session' = [session EXCEPT ![s] = EmptySession]
    /\ UNCHANGED <<request, paypal, tables>>

-----------------------------------------------------------------------------
Receive(t) ==
    \/ \E s \in Session, r \in Return : showReturnConfirmInfo(t, s, r)
    \/ \E s \in Session : saveAddress(t, s)
    \/ \E s \in Session, n \in Count : showConfirmOrderInfo(t, s, n)
    \/ \E s \in Session, o \in OrderNum : generateOrder(t, s, o)
    \/ \E o \in OrderNum : returnUrlMethod(t, o)

\* What a handler does next, short of a crash.
Handle(t) ==
    \/ commitConfirmOrder(t)
    \/ createPayment(t)
    \/ commitOrder(t)
    \/ \E sale \in {"pending", "completed"} : executePayment(t, sale)
    \/ executeRefused(t)
    \/ insertOrder(t)
    \/ insertOrderProject(t)

Disturb(t) ==
    \/ \E sale \in {"pending", "completed"} : executeReplyLost(t, sale)
    \/ insertFails(t)
    \/ crash(t)

Webhook(o, k) ==
    \/ notifyUrlMethod(o, k)
    \/ notifyIgnored(o, k)
    \/ updateProjectMoney(o, k)
    \/ updateFails(o, k)
    \/ notifyAnswered(o, k)
    \/ notifyAnswerLost(o, k)

Next ==
    \/ \E s \in Session : expire(s)
    \/ \E t \in Thread : Receive(t) \/ Handle(t) \/ Disturb(t)
    \/ \E o \in OrderNum :
         \/ approve(o)
         \/ \E sale \in {"completed", "denied"} : settle(o, sale)
         \/ \E k \in Kind : Webhook(o, k)

\* A thread goes on with its handler; PayPal delivers what it has queued and
\* keeps sending; a database that fails is not down for ever, so an update
\* attempted again and again succeeds in the end.
Fairness ==
    /\ \A t \in Thread : WF_vars(Handle(t))
    /\ \A o \in OrderNum, k \in Kind :
         /\ WF_vars(notifyUrlMethod(o, k))
         /\ SF_vars(updateProjectMoney(o, k))

Spec == Init /\ [][Next]_vars
FairSpec == Spec /\ Fairness

-----------------------------------------------------------------------------
(***************************************************************************)
(* Properties.                                                              *)
(***************************************************************************)

\* Every variable has its type.
TypeOK ==
    /\ session \in [Session -> SessionRecord]
    /\ request \in [Thread -> RequestRecord]
    /\ payment \in [OrderNum -> PaymentRecord]
    /\ notification \in [OrderNum -> [Kind -> NotificationState]]
    /\ applied \in [OrderNum -> Nat]
    /\ t_order \in Seq(OrderRow)
    /\ t_order_project \in Seq(OrderProjectRow)
    /\ t_project \in [Project -> ProjectRow]
    /\ t_address \in [Session -> Nat]

\* An order is recorded only for a payment PayPal executed, and one payment
\* never gives two orders, whatever reloads, tabs, crashes and lost answers
\* do: saveOrder runs once per successful executePayment.
OrderRecordedOncePerPayment ==
    \A i \in DOMAIN t_order :
        /\ payment[t_order[i].payOrderNum].state \in Captured
        /\ \A j \in DOMAIN t_order :
             t_order[i].payOrderNum = t_order[j].payOrderNum => i = j

\* saveOrder's two unprotected inserts: a detail row always belongs to an
\* order, no order has two, and the amount of the order is the price of
\* exactly that return and count, although the session's selection may have
\* been overwritten by another tab since the order was assembled.
DetailMatchesOrder ==
    \A i \in DOMAIN t_order_project :
        LET row == t_order_project[i]
        IN /\ row.orderId \in DOMAIN t_order
           /\ t_order[row.orderId].orderAmount = AmountOf(row)
           /\ \A j \in DOMAIN t_order_project :
                t_order_project[j].orderId = row.orderId => i = j

\* f[1] + ... + f[MaxOrders].
Total(f) ==
    LET sum[n \in 0..MaxOrders] == IF n = 0 THEN 0 ELSE sum[n - 1] + f[n]
    IN  sum[MaxOrders]

\* The raised money and the supporters of a project are what the applied
\* notifications of payments for it add up to, none of them takes money away
\* and none of them is for no project: no update is lost between concurrent,
\* failing and repeated deliveries.
CreditsFor(p, o) == IF payment[o].custom = p THEN applied[o] ELSE 0
MoneyMatchesCredits ==
    /\ \A p \in Project :
         /\ t_project[p].supportmoney =
                Total([o \in OrderNum |-> CreditsFor(p, o) * payment[o].total])
         /\ t_project[p].supporter = Total([o \in OrderNum |-> CreditsFor(p, o)])
    /\ \A o \in OrderNum :
         applied[o] > 0 => payment[o].total > 0 /\ payment[o].custom \in Project

\* Money is credited only for a sale PayPal completed: never while it is
\* pending and never when it was denied, although both send notifications or
\* leave an order behind.
CreditOnlyCompleted ==
    \A o \in OrderNum : applied[o] > 0 => payment[o].state = "completed"

\* Comment 5 of notifyUrlMethod, verify that it was not processed before: a
\* payment is credited once.  It holds while no answer to PayPal is lost.
CreditedAtMostOnce == \A o \in OrderNum : applied[o] <= 1

\* Column supportmoney of t_project, the money raised: a payment is credited
\* to the project of the return its order was assembled from.
PaidToProjectOfReturn ==
    \A t \in Thread : At(t, "createPayment") =>
        payment[request[t].orderVO.orderNum].custom =
            ProjectOf[request[t].orderVO.orderProjectVO.ret]

Booked(o) ==
    \E i \in DOMAIN t_order, j \in DOMAIN t_order_project :
        t_order[i].payOrderNum = o /\ t_order_project[j].orderId = i

\* PayPal's resends: a completed sale is in the end credited, through
\* failing updates and lost answers, whatever happens to the redirect.
CompletedIsCredited ==
    \A o \in OrderNum : payment[o].state = "completed" ~> applied[o] > 0

\* Without expiry, crash, lost answer, failing insert or an amount the column
\* cannot hold, every executed payment ends as an order with its detail, also
\* when two tabs check out at once.
CapturedIsBooked ==
    \A o \in OrderNum : payment[o].state \in Captured ~> Booked(o)

(***************************************************************************)
(* The inductive invariant behind OrderRecordedOncePerPayment,             *)
(* DetailMatchesOrder and CreditOnlyCompleted.                             *)
(***************************************************************************)

Saving(t) == request[t].pc \in {"insertOrder", "insertOrderProject"}

\* Each handler has the local values its next steps use.
LocalsOf(req) ==
    /\ req.pc = "confirmOrder" => req.sid \in Session /\ req.orderProjectVO \in OrderProjectVO
    /\ req.pc \in {"createPayment", "redirect"} => req.sid \in Session /\ req.orderVO \in OrderVO
    /\ req.pc = "execute" => req.pay \in OrderNum
    /\ req.pc \in {"insertOrder", "insertOrderProject"} =>
         req.pay \in OrderNum /\ req.orderVO \in OrderVO /\ req.orderVO # None
LocalsDefined == \A t \in Thread : LocalsOf(request[t])

\* A payment knows the session that drew its order number.
PaymentsOwned ==
    /\ \A o \in OrderNum : payment[o].state # "none" => payment[o].sid \in Session
    /\ \A t \in Thread : request[t].pc \in {"createPayment", "redirect"} =>
         payment[request[t].orderVO.orderNum].state # "none"

\* The amount travels with the return it was computed from.
AmountsComputed ==
    /\ \A s \in Session : session[s].orderVO # None =>
         session[s].orderVO.orderAmount = AmountOf(session[s].orderVO.orderProjectVO)
    /\ \A t \in Thread : request[t].orderVO # None =>
         request[t].orderVO.orderAmount = AmountOf(request[t].orderVO.orderProjectVO)

\* An order number belongs to the request that drew it until PayPal answers.
CreationExclusive ==
    \A t \in Thread : At(t, "createPayment") =>
        /\ payment[request[t].orderVO.orderNum].state = "assembled"
        /\ \A u \in Thread \ {t} : At(u, "createPayment") =>
             request[u].orderVO.orderNum # request[t].orderVO.orderNum

\* The request that executed a payment is the only one that saves its order.
SavingExclusive ==
    \A t \in Thread : Saving(t) =>
        /\ payment[request[t].pay].state \in Captured
        /\ \A u \in Thread \ {t} : Saving(u) => request[u].pay # request[t].pay
        /\ At(t, "insertOrder") =>
             \A i \in DOMAIN t_order : t_order[i].payOrderNum # request[t].pay

\* Between the inserts the row is there, it is the request's own, and it has
\* no detail.
DetailPending ==
    \A t \in Thread : At(t, "insertOrderProject") =>
        /\ request[t].orderId \in DOMAIN t_order
        /\ t_order[request[t].orderId].payOrderNum = request[t].pay
        /\ t_order[request[t].orderId].orderAmount = request[t].orderVO.orderAmount
        /\ \A i \in DOMAIN t_order_project :
             t_order_project[i].orderId # request[t].orderId

\* PayPal announces a completed sale only after it.
NotifiedIsCompleted ==
    \A o \in OrderNum :
        notification[o]["completed"] # "none" \/ applied[o] > 0 =>
            payment[o].state = "completed"

OrderInv ==
    /\ TypeOK
    /\ LocalsDefined
    /\ PaymentsOwned
    /\ AmountsComputed
    /\ CreationExclusive
    /\ SavingExclusive
    /\ DetailPending
    /\ NotifiedIsCompleted
    /\ OrderRecordedOncePerPayment
    /\ DetailMatchesOrder

\* Checkout implements Funding: see the comment there.
Sale == [o \in OrderNum |->
            IF payment[o].state \in Captured THEN payment[o].state ELSE "none"]
Recorded(o) == \E i \in DOMAIN t_order : t_order[i].payOrderNum = o
Booking == [o \in OrderNum |->
               IF Booked(o) THEN "detail" ELSE IF Recorded(o) THEN "order" ELSE "no"]

F == INSTANCE Funding WITH Payment <- OrderNum, sale <- Sale, booked <- Booking,
                           credits <- applied

\* Every behaviour is one Funding allows: no step takes money twice, books an
\* order twice or without money, or credits what was not completed.
RefinesFunding == F!Safety

\* With fair delivery also its promise that each completed sale is credited.
RefinesFundingFairly == F!Spec

=============================================================================
