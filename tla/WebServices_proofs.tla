-------------------------- MODULE WebServices_proofs --------------------------
(***************************************************************************)
(* What the services of module WebServices promise, each proved for every  *)
(* value of its constants, and of the five side by side.                   *)
(***************************************************************************)
EXTENDS WebServices, EsgWorkbook_proofs, FiniteSums

-------------------------------------------------------------------------------
(***************************************************************************)
(* Payment notifications.  A request that serves one knows, at every step, *)
(* what has been done for the order (Progress); so the status is earned,   *)
(* and what PayFast no longer repeats is settled (UnansweredOrSettled).    *)
(***************************************************************************)
\* What an order buys has been handed over.
Delivered(o) ==
  /\ o \in purchased
  /\ o \in ProOrders => renewsAt >= completed[o] + Term

\* ... and its status says so, or that an attempt failed.
Settled(o) == Delivered(o) /\ status[o] \in {"paid", "failed"}

\* PayFast notifies what happened.
Happened(n) ==
  /\ n[2] = "COMPLETE" => completed[n[1]] # -1
  /\ n[2] = "FAILED" => n[1] \in failures

\* How far a request has got with its notification.
Progress(r) ==
  /\ Happened(request[r].about)
  /\ request[r].at \in {"credit", "plan", "pay"} => request[r].about[2] = "COMPLETE"
  /\ request[r].at = "fail" => request[r].about[2] = "FAILED"
  /\ request[r].at = "plan" => OrderOf(r) \in purchased
  /\ request[r].at = "pay" => Delivered(OrderOf(r))
  /\ request[r].at = "answer" /\ request[r].about[2] = "COMPLETE" => Settled(OrderOf(r))

Days == renewsAt <= day + Term /\ \A o \in Orders : completed[o] <= day

StatusIsEarned ==
  \A o \in Orders :
    /\ status[o] = "paid" => completed[o] # -1 /\ Delivered(o)
    /\ status[o] = "failed" => o \in failures

UnansweredOrSettled ==
  \A o \in Orders : completed[o] # -1 => <<o, "COMPLETE">> \in due \/ Settled(o)

OrderInv ==
  /\ OrderTypeOK
  /\ Days
  /\ \A n \in due : Happened(n)
  /\ \A r \in Requests : request[r] # Free => Progress(r)
  /\ StatusIsEarned
  /\ UnansweredOrSettled

-------------------------------------------------------------------------------
LEMMA OrderConstantTypes == ProOrders \subseteq Orders /\ Term \in Nat /\ Term > 0 /\ DayLimit \in Nat /\ FaultLimit \in Nat
<1>1. Term \in Nat \ {0}
  BY OrderConstants
<1> QED BY <1>1, OrderConstants

LEMMA OrderTypes == ASSUME OrderTypeOK, [OrderNext]_orderVars PROVE OrderTypeOK'
<1> USE OrderConstantTypes DEF OrderTypeOK
<1>1. CASE UNCHANGED orderVars
  BY <1>1 DEF orderVars
<1>2. ASSUME NEW o \in Orders, Checkout(o) PROVE OrderTypeOK'
  BY <1>2 DEF Checkout
<1>3. ASSUME NEW o \in Orders, NEW v \in Verdicts, Attempt(o, v) PROVE OrderTypeOK'
  BY <1>3 DEF Attempt, Notifications
<1>4. ASSUME NEW n \in Notifications, NEW r \in Requests, Notify(r, n) PROVE OrderTypeOK'
  BY <1>4 DEF Notify, Serving
<1>5. ASSUME NEW r \in Requests, Serve(r) PROVE OrderTypeOK'
  <2>0. request[r] # Free => request[r].about \in Notifications /\ OrderOf(r) \in Orders
    BY DEF OrderOf, Notifications, Free
  <2>1. CASE Verify(r)
    <3>1. request[r] # Free
      BY <2>1 DEF Verify, At, Free
    <3>2. PICK g \in {"credit", "fail", "answer"} : GoTo(r, g)
      BY <2>0, <2>1, <3>1 DEF Verify, Notifications, Verdicts
    <3>3. request' \in [Requests -> {Free} \cup
             [at : {"verify", "fail", "credit", "plan", "pay", "answer"}, about : Notifications]]
      BY <2>0, <3>1, <3>2 DEF GoTo, Serving
    <3> QED BY <2>1, <3>3 DEF Verify
  <2>2. CASE MarkFailed(r)
    BY <2>0, <2>2 DEF MarkFailed, At, GoTo, Serving, Free
  <2>3. CASE Credit(r)
    BY <2>0, <2>3 DEF Credit, At, GoTo, Serving, Free
  <2>4. CASE GrantPro(r)
    BY <2>0, <2>4 DEF GrantPro, At, GoTo, Serving, Free
  <2>5. CASE MarkPaid(r)
    BY <2>0, <2>5 DEF MarkPaid, At, GoTo, Serving, Free
  <2>6. CASE Answer(r)
    BY <2>6 DEF Answer
  <2> QED BY <1>5, <2>1, <2>2, <2>3, <2>4, <2>5, <2>6 DEF Serve
<1>6. ASSUME NEW r \in Requests, Fault(r) PROVE OrderTypeOK'
  BY <1>6 DEF Fault
<1>7. CASE NextDay
  BY <1>7 DEF NextDay
<1> QED BY <1>1, <1>2, <1>3, <1>4, <1>5, <1>6, <1>7 DEF OrderNext, Post

\* What was handed over stays handed over: credits stay, and a term granted later
\* ends no sooner.
LEMMA DeliveredStays ==
  ASSUME OrderTypeOK, OrderTypeOK', NEW o \in Orders, Delivered(o),
         purchased \subseteq purchased', renewsAt <= renewsAt', completed'[o] = completed[o]
  PROVE  Delivered(o)'
<1>1. {renewsAt, renewsAt', completed[o], Term} \subseteq Int
  BY OrderConstantTypes DEF OrderTypeOK
<1> QED BY <1>1 DEF Delivered

\* Nothing but a request changes; it keeps to its progress.
LEMMA RequestsMove ==
  ASSUME OrderInv, OrderTypeOK', NEW r \in Requests, NEW req, request' = [request EXCEPT ![r] = req],
         UNCHANGED <<status, due, purchased, renewsAt, day, completed, failures>>,
         req # Free => Progress(r)'
  PROVE  OrderInv'
<1>1. /\ \A o \in Orders : Delivered(o)' = Delivered(o) /\ Settled(o)' = Settled(o)
      /\ \A n : Happened(n)' = Happened(n)
      /\ Days' /\ StatusIsEarned' /\ UnansweredOrSettled'
  BY DEF OrderInv, Delivered, Settled, Happened, Days, StatusIsEarned, UnansweredOrSettled
<1>2. ASSUME NEW q \in Requests, request'[q] # Free
      PROVE  Progress(q)'
  <2>1. CASE q = r
    BY <1>2, <2>1 DEF OrderInv, OrderTypeOK
  <2>2. CASE q # r
    <3>1. request'[q] = request[q] /\ request[q] # Free /\ OrderOf(q) \in Orders
      BY <1>2, <2>2 DEF OrderInv, OrderTypeOK, OrderOf, Notifications
    <3> QED BY <1>1, <3>1 DEF OrderInv, Progress, OrderOf
  <2> QED BY <2>1, <2>2
<1> QED BY <1>1, <1>2 DEF OrderInv

\* A handler does one of its steps: what it hands over stays, and the status it
\* writes is earned.
LEMMA HandlerMoves ==
  ASSUME OrderInv, OrderTypeOK', NEW r \in Requests, request[r] # Free, NEW g, GoTo(r, g),
         UNCHANGED <<due, day, completed, failures>>,
         purchased \subseteq purchased', renewsAt <= renewsAt', renewsAt' <= day + Term,
         \A o \in Orders :
           \/ status'[o] = status[o]
           \/ status'[o] = "paid" /\ completed[o] # -1 /\ Delivered(o)'
           \/ status'[o] = "failed" /\ o \in failures,
         Progress(r)'
  PROVE  OrderInv'
<1>1. /\ \A o \in Orders : Delivered(o) => Delivered(o)'
      /\ \A n : Happened(n)' = Happened(n)
  BY DeliveredStays DEF OrderInv, Happened
<1>2. \A o \in Orders : Settled(o) => Settled(o)'
  BY <1>1 DEF Settled
<1>3. Days' /\ StatusIsEarned' /\ UnansweredOrSettled'
  BY <1>1, <1>2 DEF OrderInv, Days, StatusIsEarned, UnansweredOrSettled
<1>4. ASSUME NEW q \in Requests, request'[q] # Free
      PROVE  Progress(q)'
  <2>1. CASE q # r
    <3>1. request'[q] = request[q] /\ request[q] # Free /\ OrderOf(q) \in Orders
      BY <1>4, <2>1 DEF OrderInv, OrderTypeOK, OrderOf, Notifications, GoTo
    <3> QED BY <1>1, <1>2, <3>1 DEF OrderInv, Progress, OrderOf
  <2> QED BY <2>1
<1> QED BY <1>1, <1>3, <1>4 DEF OrderInv

LEMMA ServeKeeps == ASSUME OrderInv, OrderTypeOK', NEW r \in Requests, Serve(r) PROVE OrderInv'
<1>1. request[r] # Free
  BY DEF Serve, Verify, MarkFailed, Credit, GrantPro, MarkPaid, Answer, At, Free
<1>n. PICK n \in Notifications : n = request[r].about
  BY <1>1 DEF OrderInv, OrderTypeOK
<1>o. PICK o \in Orders : o = n[1]
  BY DEF Notifications
<1>2. /\ n = request[r].about /\ o = OrderOf(r) /\ o = n[1] /\ n[2] \in Verdicts
      /\ n = <<o, n[2]>>
      /\ Progress(r)
  BY <1>1, <1>n, <1>o DEF OrderInv, Notifications, OrderOf
<1>3. /\ renewsAt \in Int /\ day \in Int /\ Term \in Int /\ Term > 0 /\ renewsAt <= day + Term
      /\ completed[o] \in Int /\ completed[o] <= day
  BY <1>2, OrderConstantTypes DEF OrderInv, OrderTypeOK, Days
<1>4. ASSUME NEW g, GoTo(r, g)
      PROVE  request'[r].at = g /\ request'[r].about = n /\ OrderOf(r)' = o /\ request'[r] # Free
  BY <1>1, <1>2, <1>4 DEF GoTo, Serving, OrderInv, OrderTypeOK, OrderOf, Free
<1>5. CASE Verify(r)
  <2>1. PICK g \in {"credit", "fail", "answer"} :
          /\ GoTo(r, g)
          /\ g = "credit" => n[2] = "COMPLETE"
          /\ g = "fail" => n[2] = "FAILED"
          /\ g = "answer" => n[2] # "COMPLETE"
    BY <1>2, <1>5 DEF Verify, Verdicts
  <2>2. Progress(r)'
    BY <1>2, <1>4, <1>5, <2>1 DEF Progress, Verify, Happened
  <2> QED BY <1>1, <1>3, <1>5, <2>1, <2>2, HandlerMoves DEF Verify
<1>6. CASE MarkFailed(r)
  <2>1. request[r].at = "fail" /\ n[2] = "FAILED" /\ o \in failures
    BY <1>2, <1>6 DEF MarkFailed, At, Progress, Happened
  <2>2. Progress(r)'
    BY <1>2, <1>4, <1>6, <2>1 DEF Progress, MarkFailed, Happened
  <2>3. \A p \in Orders : status'[p] = status[p] \/ (status'[p] = "failed" /\ p \in failures)
    <3>1. status' = [status EXCEPT ![o] = "failed"]
      BY <1>2, <1>6 DEF MarkFailed
    <3> QED BY <2>1, <3>1 DEF OrderInv, OrderTypeOK
  <2> QED BY <1>1, <1>3, <1>6, <2>2, <2>3, HandlerMoves DEF MarkFailed
<1>7. CASE Credit(r)
  <2>1. request[r].at = "credit" /\ n[2] = "COMPLETE" /\ completed[o] # -1
    BY <1>2, <1>7 DEF Credit, At, Progress, Happened
  <2>2. PICK g \in {"plan", "pay"} : GoTo(r, g) /\ (g = "pay" => o \notin ProOrders)
    BY <1>2, <1>7 DEF Credit
  <2>3. o \in purchased'
    BY <1>2, <1>7 DEF Credit
  <2>4. Progress(r)'
    BY <1>2, <1>4, <1>7, <2>1, <2>2, <2>3 DEF Progress, Credit, Happened, Delivered
  <2> QED BY <1>1, <1>3, <1>7, <2>2, <2>4, HandlerMoves DEF Credit
<1>8. CASE GrantPro(r)
  <2>1. request[r].at = "plan" /\ n[2] = "COMPLETE" /\ completed[o] # -1 /\ o \in purchased
    BY <1>2, <1>8 DEF GrantPro, At, Progress, Happened
  <2>2. renewsAt' = day + Term /\ renewsAt <= renewsAt' /\ renewsAt' >= completed[o] + Term
    BY <1>3, <1>8 DEF GrantPro
  <2>3. Progress(r)'
    BY <1>2, <1>4, <1>8, <2>1, <2>2 DEF Progress, GrantPro, Happened, Delivered
  <2> QED BY <1>1, <1>3, <1>8, <2>2, <2>3, HandlerMoves DEF GrantPro
<1>9. CASE MarkPaid(r)
  <2>1. request[r].at = "pay" /\ n[2] = "COMPLETE" /\ completed[o] # -1 /\ Delivered(o)
    BY <1>2, <1>9 DEF MarkPaid, At, Progress, Happened
  <2>2. status' = [status EXCEPT ![o] = "paid"]
    BY <1>2, <1>9 DEF MarkPaid
  <2>3. Delivered(o)' /\ status'[o] = "paid"
    <3>1. purchased' = purchased /\ renewsAt' = renewsAt /\ completed' = completed
      BY <1>9 DEF MarkPaid
    <3>2. Delivered(o)'
      BY <2>1, <3>1 DEF Delivered
    <3>3. status'[o] = "paid"
      BY <1>2, <2>2 DEF OrderInv, OrderTypeOK
    <3> QED BY <3>2, <3>3
  <2>4. Settled(o)'
    BY <2>3 DEF Settled
  <2>5. Progress(r)'
    BY <1>2, <1>4, <1>9, <2>1, <2>4 DEF Progress, MarkPaid, Happened
  <2>6. \A p \in Orders : status'[p] = status[p] \/ p = o
    BY <2>2 DEF OrderInv, OrderTypeOK
  <2>7. \A p \in Orders : status'[p] = status[p] \/ (status'[p] = "paid" /\ completed[p] # -1 /\ Delivered(p)')
    BY <2>1, <2>3, <2>6
  <2> QED BY <1>1, <1>3, <1>9, <2>5, <2>7, HandlerMoves DEF MarkPaid
<1>10. CASE Answer(r)
  <2>1. n = <<o, "COMPLETE">> => Settled(o)
    BY <1>2, <1>10 DEF Answer, At, Progress
  <2>2. /\ \A p : Delivered(p)' = Delivered(p) /\ Settled(p)' = Settled(p)
        /\ \A m : Happened(m)' = Happened(m)
        /\ Days' /\ StatusIsEarned'
    BY <1>10 DEF OrderInv, Answer, Delivered, Settled, Happened, Days, StatusIsEarned
  <2>3. due' = due \ {n}
    BY <1>2, <1>10 DEF Answer
  <2>4. UnansweredOrSettled'
    <3>1. SUFFICES ASSUME NEW p \in Orders, completed[p] # -1, ~Settled(p)
                   PROVE  <<p, "COMPLETE">> \in due'
      BY <1>10, <2>2 DEF UnansweredOrSettled, Answer
    <3>2. <<p, "COMPLETE">> \in due
      BY <3>1 DEF OrderInv, UnansweredOrSettled
    <3>3. <<p, "COMPLETE">> # n
      BY <1>2, <2>1, <3>1
    <3> QED BY <2>3, <3>2, <3>3
  <2>5. ASSUME NEW q \in Requests, request'[q] # Free
        PROVE  Progress(q)'
    <3>1. request'[q] = request[q] /\ request[q] # Free /\ OrderOf(q) \in Orders
      BY <1>10, <2>5 DEF Answer, OrderInv, OrderTypeOK, OrderOf, Notifications
    <3>2. Progress(q)
      BY <3>1 DEF OrderInv
    <3>3. request'[q].about = request[q].about /\ request'[q].at = request[q].at /\ OrderOf(q)' = OrderOf(q)
      BY <3>1 DEF OrderOf
    <3>4. purchased' = purchased /\ renewsAt' = renewsAt /\ completed' = completed /\ status' = status
      BY <1>10 DEF Answer
    <3>5. Delivered(OrderOf(q))' = Delivered(OrderOf(q)) /\ Settled(OrderOf(q))' = Settled(OrderOf(q))
      BY <3>3, <3>4 DEF Delivered, Settled
    <3>6. Happened(request[q].about)' = Happened(request[q].about)
      BY <1>10, <3>3, <3>4 DEF Happened, Answer
    <3>7. OrderOf(q) \in purchased' <=> OrderOf(q) \in purchased
      BY <3>4
    <3> QED BY <3>2, <3>3, <3>5, <3>6, <3>7 DEF Progress
  <2>6. \A m \in due' : Happened(m)'
    BY <2>2, <2>3 DEF OrderInv
  <2> QED BY <2>2, <2>4, <2>5, <2>6 DEF OrderInv
<1> QED BY <1>5, <1>6, <1>7, <1>8, <1>9, <1>10 DEF Serve

LEMMA AttemptKeeps ==
  ASSUME OrderInv, OrderTypeOK', NEW o \in Orders, NEW v \in Verdicts, Attempt(o, v)
  PROVE  OrderInv'
<1>1. /\ completed[o] = -1 /\ due' = due \cup {<<o, v>>} /\ failures \subseteq failures'
      /\ v = "FAILED" => o \in failures'
      /\ v = "COMPLETE" => completed'[o] = day
      /\ v # "COMPLETE" => completed' = completed
      /\ \A p \in Orders : p # o => completed'[p] = completed[p]
      /\ UNCHANGED <<status, request, purchased, renewsAt, day>>
  BY DEF Attempt, OrderInv, OrderTypeOK
<1>2. day \in Nat /\ \A p \in Orders : completed[p] # -1 => completed'[p] = completed[p] /\ completed'[p] # -1
  BY <1>1 DEF OrderInv, OrderTypeOK
<1>3. /\ \A p \in Orders : completed[p] # -1 => (Delivered(p) => Delivered(p)') /\ (Settled(p) => Settled(p)')
      /\ \A n \in Notifications : Happened(n) => Happened(n)'
  BY <1>1, <1>2 DEF Delivered, Settled, Happened, Notifications
<1>4. Days'
  BY <1>1, <1>2 DEF OrderInv, Days
<1>5. StatusIsEarned'
  BY <1>1, <1>2, <1>3 DEF OrderInv, StatusIsEarned
<1>6. UnansweredOrSettled'
  BY <1>1, <1>2, <1>3 DEF OrderInv, UnansweredOrSettled
<1>7. \A n \in due' : Happened(n)'
  <2>1. Happened(<<o, v>>)'
    BY <1>1, <1>2 DEF Happened
  <2> QED BY <1>1, <1>3, <2>1 DEF OrderInv, OrderTypeOK
<1>8. ASSUME NEW q \in Requests, request'[q] # Free
      PROVE  Progress(q)'
  <2>1. /\ request[q] # Free /\ Progress(q) /\ request[q].about \in Notifications
        /\ OrderOf(q) \in Orders /\ OrderOf(q) = request[q].about[1] /\ request'[q] = request[q]
    BY <1>1, <1>8 DEF OrderInv, OrderTypeOK, OrderOf, Notifications
  <2>2. request[q].at \in {"pay", "answer"} /\ request[q].about[2] = "COMPLETE" => completed[OrderOf(q)] # -1
    BY <2>1 DEF Progress, Happened
  <2> QED BY <1>1, <1>3, <2>1, <2>2 DEF Progress, OrderOf
<1> QED BY <1>4, <1>5, <1>6, <1>7, <1>8 DEF OrderInv

LEMMA OrderInvInit == OrderInit => OrderInv
BY OrderConstantTypes DEF OrderInit, OrderInv, OrderTypeOK, Days, StatusIsEarned, UnansweredOrSettled

LEMMA OrderInvNext == OrderInv /\ [OrderNext]_orderVars => OrderInv'
<1> SUFFICES ASSUME OrderInv, [OrderNext]_orderVars PROVE OrderInv'
  OBVIOUS
<1>0. OrderTypeOK'
  BY OrderTypes DEF OrderInv
<1>1. CASE UNCHANGED orderVars
  BY <1>0, <1>1 DEF orderVars, OrderInv, Days, StatusIsEarned, UnansweredOrSettled, Happened,
    Progress, Delivered, Settled, OrderOf
<1>2. ASSUME NEW o \in Orders, Checkout(o) PROVE OrderInv'
  <2>1. /\ status[o] = "none" /\ status' = [status EXCEPT ![o] = "pending"]
        /\ UNCHANGED <<due, request, purchased, renewsAt, day, completed, failures>>
    BY <1>2 DEF Checkout
  <2>2. \A p \in Orders : Delivered(p)' = Delivered(p) /\ (Settled(p) => Settled(p)')
    BY <2>1 DEF Delivered, Settled, OrderInv, OrderTypeOK
  <2>3. \A n : Happened(n)' = Happened(n)
    BY <2>1 DEF Happened
  <2>4. Days' /\ UnansweredOrSettled' /\ StatusIsEarned'
    BY <2>1, <2>2 DEF OrderInv, OrderTypeOK, Days, UnansweredOrSettled, StatusIsEarned
  <2>5. ASSUME NEW q \in Requests, request[q] # Free PROVE Progress(q)'
    <3>1. OrderOf(q) \in Orders
      BY <2>5 DEF OrderInv, OrderTypeOK, OrderOf, Notifications
    <3> QED BY <2>1, <2>2, <2>3, <2>5, <3>1 DEF OrderInv, Progress, OrderOf
  <2> QED BY <1>0, <2>1, <2>3, <2>4, <2>5 DEF OrderInv
<1>3. ASSUME NEW o \in Orders, NEW v \in Verdicts, Attempt(o, v) PROVE OrderInv'
  BY <1>0, <1>3, AttemptKeeps
<1>4. ASSUME NEW n \in Notifications, NEW r \in Requests, Notify(r, n) PROVE OrderInv'
  <2>1. Progress(r)'
    BY <1>4 DEF Notify, Progress, Happened, Serving, OrderInv, OrderTypeOK
  <2> QED BY <1>0, <1>4, <2>1, RequestsMove DEF Notify
<1>5. ASSUME NEW r \in Requests, Serve(r) PROVE OrderInv'
  BY <1>0, <1>5, ServeKeeps
<1>6. ASSUME NEW r \in Requests, Fault(r) PROVE OrderInv'
  BY <1>0, <1>6, RequestsMove DEF Fault
<1>7. CASE NextDay
  <2>1. /\ \A p \in Orders : Delivered(p)' = Delivered(p) /\ Settled(p)' = Settled(p)
        /\ \A n : Happened(n)' = Happened(n)
        /\ StatusIsEarned' /\ UnansweredOrSettled'
    BY <1>7 DEF NextDay, OrderInv, Delivered, Settled, Happened, StatusIsEarned, UnansweredOrSettled
  <2>2. Days'
    BY <1>7, OrderConstantTypes DEF NextDay, OrderInv, OrderTypeOK, Days
  <2>3. ASSUME NEW q \in Requests, request[q] # Free PROVE Progress(q)'
    <3>1. OrderOf(q) \in Orders
      BY <2>3 DEF OrderInv, OrderTypeOK, OrderOf, Notifications
    <3> QED BY <1>7, <2>1, <2>3, <3>1 DEF NextDay, OrderInv, Progress, OrderOf
  <2> QED BY <1>0, <1>7, <2>1, <2>2, <2>3 DEF OrderInv, NextDay
<1> QED BY <1>1, <1>2, <1>3, <1>4, <1>5, <1>6, <1>7 DEF OrderNext, Post

\* The inductive invariant of payment notifications holds throughout
\* (payfastNotify.ts, its store and the notifications of PayFast).
THEOREM OrderInvariant == OrderSpec => []OrderInv
<1> QED BY OrderInvInit, OrderInvNext, PTL DEF OrderSpec

\* The order's records and the requests that serve them keep their types.
THEOREM OrderTyped == OrderSpec => []OrderTypeOK
<1>1. OrderInv => OrderTypeOK
  BY DEF OrderInv
<1> QED BY <1>1, OrderInvariant, PTL

\* An order that says paid has been handed over (MarkPaid comes last).
THEOREM PaidOrdersAreDelivered == OrderSpec => []PaidIsDelivered
<1>1. OrderInv => PaidIsDelivered
  BY DEF OrderInv, StatusIsEarned, Delivered, PaidIsDelivered
<1> QED BY <1>1, OrderInvariant, PTL

\* A payment PayFast stops notifying is settled (only a served notification is answered).
THEOREM AnsweredPaymentsAreSettled == OrderSpec => []AnsweredIsSettled
<1>1. OrderInv => AnsweredIsSettled
  <2>1. SUFFICES ASSUME OrderInv, NEW o \in Orders, completed[o] # -1, Quiet(o)
                 PROVE  Settled(o) /\ (status[o] = "failed" => o \in failures)
    BY DEF AnsweredIsSettled, Settled, Delivered
  <2>2. <<o, "COMPLETE">> \notin due
    BY <2>1 DEF Quiet
  <2> QED BY <2>1, <2>2 DEF OrderInv, UnansweredOrSettled, StatusIsEarned
<1> QED BY <1>1, OrderInvariant, PTL

-------------------------------------------------------------------------------
(***************************************************************************)
(* Refund pacing.  What settlements refunded within the day fits the       *)
(* allowance but for what was paid beside another refund (Fits).  It rests *)
(* on a call that is alone with its sum: nothing was refunded since, by a  *)
(* settlement or the authorize route, so its room is still there when it   *)
(* credits (SumsAreRecent).                                                *)
(***************************************************************************)
Fits(Q) == Cardinality(Q) <= 1 \/ SumFunctionOnSet(Owed, Q) <= Allowance

\* A call that is alone with its sum would sum the same now.
SumsAreRecent ==
  \A s \in Settlers : settler[s].at = "credit" /\ settler[s].alone => RoomFor(settler[s].quote)

LeftForAnother == swept \ settled # {} => Recent # {}

PacingInv ==
  /\ PacingTypeOK
  /\ Fits(Recent \ (raced \cup unpaced))
  /\ SumsAreRecent
  /\ LeftForAnother

-------------------------------------------------------------------------------
LEMMA PacingConstantTypes ==
  /\ IsFiniteSet(Quotes) /\ Allowance \in Nat /\ Allowance > 0
  /\ \A q \in Quotes : Owed[q] \in Nat /\ Owed[q] > 0
  /\ \A q \in Quotes : Charged[q] \in Nat /\ Owed[q] <= Charged[q]
  /\ RefundDay \in Nat /\ SweepWindow \in Nat /\ TickLimit \in Nat
<1>1. Allowance \in Nat \ {0} /\ \A q \in Quotes : Owed[q] \in Nat \ {0} /\ Charged[q] \in Nat
  BY PacingConstants
<1> QED BY <1>1, PacingConstants

\* Sums of positive amounts: naturals, monotone, and nothing only for no refund.
LEMMA PositiveSums ==
  ASSUME NEW f, \A q \in Quotes : f[q] \in Nat /\ f[q] > 0
  PROVE  /\ \A Q \in SUBSET Quotes : SumFunctionOnSet(f, Q) \in Nat
         /\ \A Q \in SUBSET Quotes : SumFunctionOnSet(f, Q) = 0 <=> Q = {}
         /\ \A Q, P \in SUBSET Quotes : Q \subseteq P => SumFunctionOnSet(f, Q) <= SumFunctionOnSet(f, P)
         /\ \A Q \in SUBSET Quotes, q \in Quotes : q \notin Q =>
              SumFunctionOnSet(f, Q \cup {q}) = SumFunctionOnSet(f, Q) + f[q]
<1>1. IsFiniteSet(Quotes) /\ \A q \in Quotes : f[q] \in Int
  BY PacingConstantTypes
<1>2. /\ SumFunctionOnSet(f, {}) = 0
      /\ \A Q \in SUBSET Quotes : \A q \in Quotes \ Q :
           SumFunctionOnSet(f, Q \cup {q}) = SumFunctionOnSet(f, Q) + f[q]
  BY <1>1, SumProperties
<1>3. \A Q \in SUBSET Quotes : SumFunctionOnSet(f, Q) \in Nat
  BY <1>1, SumOfNaturals
<1>4. ASSUME NEW Q \in SUBSET Quotes, NEW P \in SUBSET Quotes, Q \subseteq P
      PROVE  SumFunctionOnSet(f, Q) <= SumFunctionOnSet(f, P)
  BY <1>1, <1>4, SumOfSubset
<1>5. ASSUME NEW Q \in SUBSET Quotes, Q # {}
      PROVE  SumFunctionOnSet(f, Q) # 0
  <2>1. PICK q \in Q : TRUE
    BY <1>5
  <2>2. Q \ {q} \in SUBSET Quotes /\ q \in Quotes \ (Q \ {q}) /\ (Q \ {q}) \cup {q} = Q
    BY <2>1
  <2>3. SumFunctionOnSet(f, Q) = SumFunctionOnSet(f, Q \ {q}) + f[q]
    BY <1>2, <2>2
  <2>4. SumFunctionOnSet(f, Q \ {q}) \in Nat /\ f[q] \in Nat /\ f[q] > 0
    BY <1>1, <1>3, <2>1, <2>2
  <2> QED BY <2>3, <2>4
<1> QED BY <1>2, <1>3, <1>4, <1>5

LEMMA OwedSums ==
  /\ \A Q \in SUBSET Quotes : SumFunctionOnSet(Owed, Q) \in Nat
  /\ \A Q, P \in SUBSET Quotes : Q \subseteq P => SumFunctionOnSet(Owed, Q) <= SumFunctionOnSet(Owed, P)
  /\ \A Q \in SUBSET Quotes, q \in Quotes : q \notin Q =>
       SumFunctionOnSet(Owed, Q \cup {q}) = SumFunctionOnSet(Owed, Q) + Owed[q]
BY PositiveSums, PacingConstantTypes

\* What came back is at least what was owed.
LEMMA RefundSums ==
  /\ RefundedSince \in Nat
  /\ RefundedSince = 0 <=> Recent = {}
  /\ SumFunctionOnSet(Owed, Recent) <= RefundedSince
<1>1. PICK f : f = Refund
  OBVIOUS
<1>2. \A q \in Quotes : f[q] \in Nat /\ f[q] > 0 /\ Owed[q] \in Nat /\ Owed[q] <= f[q]
  BY <1>1, PacingConstantTypes DEF Refund
<1>3. PICK Q \in SUBSET Quotes : Q = Recent
  BY DEF Recent
<1>4. SumFunctionOnSet(f, Q) \in Nat /\ (SumFunctionOnSet(f, Q) = 0 <=> Q = {})
  BY <1>2, PositiveSums
<1>5. SumFunctionOnSet(Owed, Q) <= SumFunctionOnSet(f, Q)
  BY <1>2, PacingConstantTypes, SumOfLarger
<1> QED BY <1>1, <1>3, <1>4, <1>5 DEF RefundedSince

LEMMA FewerFit ==
  ASSUME NEW P \in SUBSET Quotes, NEW Q \in SUBSET P, Fits(P)
  PROVE  Fits(Q)
<1>1. IsFiniteSet(P) /\ Cardinality(P) \in Nat
  BY PacingConstantTypes, FS_Subset, FS_CardinalityType
<1>2. Cardinality(Q) <= Cardinality(P) /\ Cardinality(Q) \in Nat
  BY <1>1, FS_Subset, FS_CardinalityType
<1>3. SumFunctionOnSet(Owed, Q) <= SumFunctionOnSet(Owed, P)
  BY OwedSums
<1>4. {SumFunctionOnSet(Owed, Q), SumFunctionOnSet(Owed, P), Allowance} \subseteq Int
  BY OwedSums, PacingConstantTypes
<1> QED BY <1>1, <1>2, <1>3, <1>4 DEF Fits

LEMMA PacingTypes == ASSUME PacingTypeOK, [PacingNext]_pacingVars PROVE PacingTypeOK'
<1> USE PacingConstantTypes DEF PacingTypeOK, Times
<1>1. CASE UNCHANGED pacingVars
  BY <1>1 DEF pacingVars
<1>2. ASSUME NEW q \in Quotes, RunEnds(q) PROVE PacingTypeOK'
  BY <1>2 DEF RunEnds
<1>3. ASSUME NEW s \in Settlers, NEW q \in Quotes, Settle(s, q) PROVE PacingTypeOK'
  BY <1>3 DEF Settle
<1>4. ASSUME NEW s \in Settlers, Pace(s) PROVE PacingTypeOK'
  <2>1. settler[s].at = "sum" /\ settler[s] # NoCall /\ settler[s].quote \in Quotes
    BY <1>4 DEF Pace, NoCall
  <2> QED BY <1>4, <2>1 DEF Pace, NoCall
<1>5. ASSUME NEW s \in Settlers, PayRefund(s) PROVE PacingTypeOK'
  <2>1. settler[s].at = "credit" /\ settler[s] # NoCall /\ settler[s].quote \in Quotes
    BY <1>5 DEF PayRefund, NoCall
  <2>2. Overtaken \in [Settlers ->
          {NoCall} \cup [at : {"sum", "credit", "save"}, quote : Quotes, alone : BOOLEAN]]
    BY DEF Overtaken, NoCall
  <2>3. Overtaken[s] = [settler[s] EXCEPT !.alone = FALSE]
    BY <2>1 DEF Overtaken
  <2>4. Overtaken[s] \in [at : {"sum", "credit", "save"}, quote : Quotes, alone : BOOLEAN]
    BY <2>1, <2>3 DEF NoCall
  <2>5. settler' \in [Settlers ->
          {NoCall} \cup [at : {"sum", "credit", "save"}, quote : Quotes, alone : BOOLEAN]]
    BY <1>5, <2>1, <2>2, <2>4 DEF PayRefund
  <2> QED BY <1>5, <2>1, <2>5 DEF PayRefund
<1>6. ASSUME NEW s \in Settlers, SaveSettlement(s) PROVE PacingTypeOK'
  <2>1. settler[s].quote \in Quotes
    BY <1>6 DEF SaveSettlement, NoCall
  <2> QED BY <1>6, <2>1 DEF SaveSettlement
<1>7. ASSUME NEW s \in Settlers, SettleFails(s) PROVE PacingTypeOK'
  BY <1>7 DEF SettleFails
<1>8. CASE PacingTick
  BY <1>8 DEF PacingTick
<1>9. ASSUME NEW q \in Quotes, AuthorizeRefund(q) PROVE PacingTypeOK'
  <2>1. Overtaken \in [Settlers ->
          {NoCall} \cup [at : {"sum", "credit", "save"}, quote : Quotes, alone : BOOLEAN]]
    BY DEF Overtaken, NoCall
  <2> QED BY <1>9, <2>1 DEF AuthorizeRefund
<1> QED BY <1>1, <1>2, <1>3, <1>4, <1>5, <1>6, <1>7, <1>8, <1>9 DEF PacingNext

\* Steps that pay nothing and keep the time leave the sum of the day as it is.
LEMMA NothingPaid ==
  ASSUME PacingInv, PacingTypeOK', UNCHANGED <<refundedAt, unpaced, tick, raced>>,
         \A s \in Settlers : settler'[s] = settler[s] \/ settler'[s].at # "credit"
                             \/ (settler'[s].quote = settler[s].quote /\ RoomFor(settler[s].quote)),
         settled \subseteq settled', swept' \ settled' # {} => swept \ settled # {} \/ Recent # {}
  PROVE  PacingInv'
<1>1. Recent' = Recent /\ Refund' = Refund
  BY DEF Recent, Refund
<1>2. \A q : RoomFor(q)' = RoomFor(q)
  BY <1>1 DEF RoomFor, RefundedSince
<1>3. Fits(Recent \ (raced \cup unpaced))'
  BY <1>1 DEF PacingInv, Fits
<1>4. SumsAreRecent'
  BY <1>2 DEF PacingInv, SumsAreRecent
<1>5. LeftForAnother'
  BY <1>1 DEF PacingInv, LeftForAnother
<1> QED BY <1>3, <1>4, <1>5 DEF PacingInv

\* A refund of the moment joins the day's, and leaves no call alone with its sum.
LEMMA RefundJoins ==
  ASSUME PacingTypeOK, NEW q \in Quotes, refundedAt[q] = -1,
         refundedAt' = [refundedAt EXCEPT ![q] = tick], UNCHANGED tick
  PROVE  q \notin Recent /\ Recent \in SUBSET Quotes /\ Recent' = Recent \cup {q}
<1>1. tick \in Nat /\ RefundDay \in Nat /\ tick >= tick - RefundDay /\ tick # -1
  BY PacingConstantTypes DEF PacingTypeOK
<1>2. refundedAt'[q] = tick /\ \A p \in Quotes : p # q => refundedAt'[p] = refundedAt[p]
  BY DEF PacingTypeOK
<1> QED BY <1>1, <1>2 DEF Recent

LEMMA NoneIsAlone ==
  ASSUME PacingTypeOK PROVE \A t \in Settlers : Overtaken[t].at = "credit" => ~Overtaken[t].alone
<1>1. ASSUME NEW t \in Settlers, settler[t].at = "credit"
      PROVE  settler[t] \in [at : {"sum", "credit", "save"}, quote : Quotes, alone : BOOLEAN]
  BY <1>1 DEF PacingTypeOK, NoCall
<1> QED BY <1>1 DEF Overtaken

LEMMA PaysWithinPace ==
  ASSUME PacingInv, PacingTypeOK', NEW s \in Settlers, PayRefund(s) PROVE PacingInv'
<1>1. settler[s].at = "credit" /\ settler[s] # NoCall
  BY DEF PayRefund, NoCall
<1>2. PICK q \in Quotes : q = settler[s].quote
  BY <1>1 DEF PacingInv, PacingTypeOK
<1>3. CASE refundedAt[q] # -1
  <2>1. settler' = [settler EXCEPT ![s].at = "save"] /\ UNCHANGED <<refundedAt, unpaced, raced, tick, settled, swept>>
    BY <1>2, <1>3 DEF PayRefund
  <2>2. \A t \in Settlers : settler'[t] = settler[t] \/ settler'[t].at # "credit"
    BY <1>1, <2>1 DEF PacingInv, PacingTypeOK
  <2> QED BY <2>1, <2>2, NothingPaid
<1>4. CASE refundedAt[q] = -1
  <2>1. /\ refundedAt' = [refundedAt EXCEPT ![q] = tick]
        /\ raced' = IF settler[s].alone THEN raced ELSE raced \cup {q}
        /\ settler' = [Overtaken EXCEPT ![s].at = "save"]
        /\ UNCHANGED <<tick, unpaced, settled, swept>>
    BY <1>2, <1>4 DEF PayRefund
  <2>2. q \notin Recent /\ Recent \in SUBSET Quotes /\ Recent' = Recent \cup {q}
    BY <1>4, <2>1, RefundJoins DEF PacingInv
  <2>3. SumsAreRecent'
    <3>1. \A t \in Settlers : t # s => settler'[t] = Overtaken[t]
      BY <2>1 DEF Overtaken
    <3>2. settler'[s].at = "save"
      <4>1. settler[s] \in [at : {"sum", "credit", "save"}, quote : Quotes, alone : BOOLEAN]
        BY <1>1 DEF PacingInv, PacingTypeOK
      <4> QED BY <1>1, <2>1, <4>1 DEF Overtaken
    <3> QED BY <3>1, <3>2, NoneIsAlone DEF SumsAreRecent, PacingInv
  <2>4. LeftForAnother'
    BY <2>2 DEF LeftForAnother
  <2>5. PICK K \in SUBSET Quotes : K = Recent \ (raced \cup unpaced)
    BY <2>2
  <2>6. Recent' \ (raced' \cup unpaced') \in SUBSET (IF settler[s].alone THEN K \cup {q} ELSE K)
    BY <2>1, <2>2, <2>5
  <2>7. Fits(K)
    BY <2>5 DEF PacingInv
  <2>8. CASE ~settler[s].alone
    <3>1. Fits(Recent' \ (raced' \cup unpaced'))
      BY <2>6, <2>7, <2>8, FewerFit
    <3> QED BY <2>3, <2>4, <3>1 DEF PacingInv, Fits
  <2>9. CASE settler[s].alone
    <3>1. RoomFor(q)
      BY <1>1, <1>2, <2>9 DEF PacingInv, SumsAreRecent
    <3>2. Fits(K \cup {q})
      <4>1. CASE RefundedSince = 0
        <5>1. K \cup {q} = {q}
          BY <2>5, <4>1, RefundSums
        <5>2. Cardinality(K \cup {q}) = 1
          BY <5>1, FS_Singleton
        <5> QED BY <5>2 DEF Fits
      <4>2. CASE RefundedSince + Owed[q] <= Allowance
        <5>1. K \subseteq Recent /\ q \notin K
          BY <2>2, <2>5
        <5>2. SumFunctionOnSet(Owed, K \cup {q}) = SumFunctionOnSet(Owed, K) + Owed[q]
          BY <5>1, OwedSums
        <5>3. SumFunctionOnSet(Owed, K) <= SumFunctionOnSet(Owed, Recent)
          BY <2>2, <5>1, OwedSums
        <5>4. SumFunctionOnSet(Owed, Recent) <= RefundedSince
          BY RefundSums
        <5>5. /\ SumFunctionOnSet(Owed, K) \in Nat /\ SumFunctionOnSet(Owed, Recent) \in Nat
              /\ RefundedSince \in Nat /\ Owed[q] \in Nat /\ Allowance \in Nat
          BY <2>2, OwedSums, RefundSums, PacingConstantTypes
        <5>6. SumFunctionOnSet(Owed, K \cup {q}) <= Allowance
          BY <4>2, <5>2, <5>3, <5>4, <5>5
        <5> QED BY <5>6 DEF Fits
      <4> QED BY <3>1, <4>1, <4>2 DEF RoomFor
    <3>3. Fits(Recent' \ (raced' \cup unpaced'))
      BY <2>6, <2>9, <3>2, FewerFit
    <3> QED BY <2>3, <2>4, <3>3 DEF PacingInv, Fits
  <2> QED BY <2>8, <2>9
<1> QED BY <1>3, <1>4

LEMMA PacingInvInit == PacingInit => PacingInv
<1> SUFFICES ASSUME PacingInit PROVE PacingInv
  OBVIOUS
<1>1. PacingTypeOK
  BY PacingConstantTypes DEF PacingInit, PacingTypeOK, Times
<1>2. Recent \ (raced \cup unpaced) = {}
  BY DEF PacingInit, Recent
<1>3. Fits(Recent \ (raced \cup unpaced))
  BY <1>2, FS_EmptySet DEF Fits
<1> QED BY <1>1, <1>3 DEF PacingInit, PacingInv, SumsAreRecent, LeftForAnother, NoCall

LEMMA PacingInvNext == PacingInv /\ [PacingNext]_pacingVars => PacingInv'
<1> SUFFICES ASSUME PacingInv, [PacingNext]_pacingVars PROVE PacingInv'
  OBVIOUS
<1>0. PacingTypeOK'
  BY PacingTypes DEF PacingInv
<1>t. PacingTypeOK
  BY DEF PacingInv
<1>1. CASE UNCHANGED pacingVars
  BY <1>0, <1>1, NothingPaid DEF pacingVars
<1>2. ASSUME NEW q \in Quotes, RunEnds(q) PROVE PacingInv'
  BY <1>0, <1>2, NothingPaid DEF RunEnds
<1>3. ASSUME NEW s \in Settlers, NEW q \in Quotes, Settle(s, q) PROVE PacingInv'
  <2>1. \A t \in Settlers : settler'[t] = settler[t] \/ settler'[t].at # "credit"
    BY <1>t, <1>3 DEF Settle, PacingTypeOK
  <2> QED BY <1>0, <1>3, <2>1, NothingPaid DEF Settle
<1>4. ASSUME NEW s \in Settlers, Pace(s) PROVE PacingInv'
  <2>1. settler[s].at = "sum" /\ settler[s] # NoCall /\ settler[s].quote \in Quotes
    BY <1>t, <1>4 DEF Pace, PacingTypeOK, NoCall
  <2>2. CASE RoomFor(settler[s].quote)
    <3>1. settler' = [settler EXCEPT ![s].at = "credit"] /\ UNCHANGED <<swept, refundedAt, unpaced, settled, tick, raced>>
      BY <1>4, <2>2 DEF Pace
    <3>2. /\ \A t \in Settlers : t # s => settler'[t] = settler[t]
          /\ settler'[s].quote = settler[s].quote
      BY <1>t, <2>1, <3>1 DEF PacingTypeOK
    <3> QED BY <1>0, <2>2, <3>1, <3>2, NothingPaid
  <2>3. CASE ~RoomFor(settler[s].quote)
    <3>1. settler' = [settler EXCEPT ![s] = NoCall] /\ UNCHANGED <<refundedAt, unpaced, settled, tick, raced>>
      BY <1>4, <2>3 DEF Pace
    <3>2. \A t \in Settlers : settler'[t] = settler[t] \/ settler'[t].at # "credit"
      BY <1>t, <3>1 DEF PacingTypeOK, NoCall
    <3>3. Recent # {}
      BY <2>3, RefundSums DEF RoomFor
    <3> QED BY <1>0, <3>1, <3>2, <3>3, NothingPaid
  <2> QED BY <2>2, <2>3
<1>5. ASSUME NEW s \in Settlers, PayRefund(s) PROVE PacingInv'
  BY <1>0, <1>5, PaysWithinPace
<1>6. ASSUME NEW s \in Settlers, SaveSettlement(s) PROVE PacingInv'
  <2>1. \A t \in Settlers : settler'[t] = settler[t] \/ settler'[t].at # "credit"
    BY <1>t, <1>6 DEF SaveSettlement, PacingTypeOK, NoCall
  <2>2. settled \subseteq settled' /\ (swept' \ settled' # {} => swept \ settled # {})
    BY <1>6 DEF SaveSettlement
  <2> QED BY <1>0, <1>6, <2>1, <2>2, NothingPaid DEF SaveSettlement
<1>7. ASSUME NEW s \in Settlers, SettleFails(s) PROVE PacingInv'
  <2>1. \A t \in Settlers : settler'[t] = settler[t] \/ settler'[t].at # "credit"
    BY <1>t, <1>7 DEF SettleFails, PacingTypeOK, NoCall
  <2> QED BY <1>0, <1>7, <2>1, NothingPaid DEF SettleFails
<1>8. CASE PacingTick
  <2>1. Recent' \in SUBSET Recent /\ Recent \in SUBSET Quotes
    BY <1>t, <1>8, PacingConstantTypes DEF PacingTick, PacingTypeOK, Recent, Times
  <2>2. PICK K \in SUBSET Quotes : K = Recent \ (raced \cup unpaced)
    BY <2>1
  <2>3. Recent' \ (raced' \cup unpaced') \in SUBSET K /\ Fits(K)
    BY <1>8, <2>1, <2>2 DEF PacingTick, PacingInv
  <2>4. Fits(Recent' \ (raced' \cup unpaced'))
    BY <2>3, FewerFit
  <2>6. Fits(Recent \ (raced \cup unpaced))'
    BY <2>4 DEF Fits
  <2>5. SumsAreRecent' /\ LeftForAnother'
    BY <1>8 DEF PacingTick, SweepsAreDone, SumsAreRecent, LeftForAnother, NoCall
  <2> QED BY <1>0, <2>5, <2>6 DEF PacingInv
<1>9. ASSUME NEW q \in Quotes, AuthorizeRefund(q) PROVE PacingInv'
  <2>1. q \notin Recent /\ Recent \in SUBSET Quotes /\ Recent' = Recent \cup {q}
    BY <1>t, <1>9, RefundJoins DEF AuthorizeRefund
  <2>2. PICK K \in SUBSET Quotes : K = Recent \ (raced \cup unpaced)
    BY <2>1
  <2>3. Recent' \ (raced' \cup unpaced') \in SUBSET K /\ Fits(K)
    BY <1>9, <2>1, <2>2 DEF AuthorizeRefund, PacingInv
  <2>4. Fits(Recent' \ (raced' \cup unpaced'))
    BY <2>3, FewerFit
  <2>5. Fits(Recent \ (raced \cup unpaced))'
    BY <2>4 DEF Fits
  <2>6. SumsAreRecent'
    BY <1>t, <1>9, NoneIsAlone DEF AuthorizeRefund, SumsAreRecent
  <2>7. LeftForAnother'
    BY <2>1 DEF LeftForAnother
  <2> QED BY <1>0, <2>5, <2>6, <2>7 DEF PacingInv
<1> QED BY <1>1, <1>2, <1>3, <1>4, <1>5, <1>6, <1>7, <1>8, <1>9 DEF PacingNext

\* The inductive invariant of refund pacing holds throughout (settleRun and the
\* sweep of extractionRefunds.ts).
THEOREM PacingInvariant == PacingSpec => []PacingInv
<1> QED BY PacingInvInit, PacingInvNext, PTL DEF PacingSpec

\* The calls of settleRun, their settlements and refunds keep their types.
THEOREM PacingTyped == PacingSpec => []PacingTypeOK
<1>1. PacingInv => PacingTypeOK
  BY DEF PacingInv
<1> QED BY <1>1, PacingInvariant, PTL

\* What settlements refund within a day fits the allowance, or is one refund, but for
\* what was paid beside another refund; and a run waits only while the ledger shows a
\* refund of the day (settleRun's sum, before its credit; the authorize route's refunds
\* are counted and not paced).
THEOREM RefundsKeepPace == PacingSpec => []RefundsArePaced
<1>1. PacingInv => RefundsArePaced
  <2>1. SUFFICES ASSUME PacingInv PROVE PaceHoldsUnlessRaced /\ WaitsOnlyForAnother
    BY DEF RefundsArePaced
  <2>2. PaceHoldsUnlessRaced
    BY <2>1 DEF PacingInv, Fits, PaceHoldsUnlessRaced
  <2>3. WaitsOnlyForAnother
    BY <2>1 DEF PacingInv, LeftForAnother, WaitsOnlyForAnother, SweepsAreDone, OpenRuns
  <2> QED BY <2>2, <2>3
<1> QED BY <1>1, PacingInvariant, PTL

-------------------------------------------------------------------------------
(***************************************************************************)
(* Audit retention.  Seals are final, and retention deletes only what is   *)
(* sealed and, where there is an archive, archived.                        *)
(*                                                                         *)
(* The argument follows a record through a pass.  A pass that has read a   *)
(* day misses only records that came late (ReadingsAccount); so does the   *)
(* seal it leaves (SealsAccount), of what is still in the store; hence so  *)
(* does the deletion.  For the archive, a pass and a seal that say         *)
(* archived know the blob as long as the day was uploaded once             *)
(* (ReadingsArchived, SealsArchived).                                      *)
(***************************************************************************)
Reading(p) == pass[p].at \in {"upload", "insert"}

StampedOnly ==
  \A r \in inStore \cup buffered \cup purged : stampOf[r] \in Calendar

ReadingsAccount ==
  \A p \in Passes : Reading(p) =>
    \A r \in inStore : stampOf[r] = pass[p].day => r \in pass[p].records \cup late

SealsAccount ==
  \A d \in Calendar : seals[d] # NoSeal =>
    \A r \in inStore : stampOf[r] = d => r \in seals[d].records \cup late

Kept(d, records) ==
  uploads[d] = "again" \/ (uploads[d] = "once" /\ blobs[d] = records)

ReadingsArchived ==
  \A p \in Passes :
    pass[p].at = "insert" /\ pass[p].archived => Kept(pass[p].day, pass[p].records)

SealsArchived ==
  \A d \in Calendar :
    seals[d] # NoSeal /\ seals[d].archived => Kept(d, seals[d].records)

PurgedArchived ==
  Archiving => \A r \in purged :
    LET d == stampOf[r] IN
    r \in late \/ uploads[d] = "again" \/ (uploads[d] = "once" /\ r \in blobs[d])

AuditInv ==
  /\ AuditTypeOK
  /\ StampedOnly
  /\ ReadingsAccount
  /\ SealsAccount
  /\ PurgedIsAccountedFor
  /\ ReadingsArchived
  /\ SealsArchived
  /\ PurgedArchived

-------------------------------------------------------------------------------
\* What the place of a pass says of its fields.
LEMMA PassFields ==
  ASSUME AuditTypeOK, NEW p \in Passes
  PROVE  /\ pass[p] \in PassStates
         /\ pass[p].at \in {"idle", "check", "purge", "read", "upload", "insert"}
         /\ pass[p] # NoPass => pass[p].asOf \in Calendar /\ pass[p].days \subseteq Calendar
         /\ pass[p].at \in {"read", "upload", "insert"} => pass[p].day \in Calendar
         /\ Reading(p) => pass[p].records \subseteq AuditRecords
         /\ pass[p].at = "insert" => pass[p].archived \in BOOLEAN
         /\ pass[p] # NoPass <=> pass[p].at # "idle"
<1>1. pass[p] \in PassStates
  BY DEF AuditTypeOK
<1>. QED
  BY <1>1 DEF PassStates, NoPass, Reading

\* Seals are not NoSeal, and have their fields.
LEMMA SealFields ==
  ASSUME AuditTypeOK, NEW d \in Calendar, seals[d] # NoSeal
  PROVE  seals[d] \in Seals /\ seals[d].records \subseteq AuditRecords
         /\ seals[d].archived \in BOOLEAN
BY DEF AuditTypeOK, Seals

LEMMA AuditInvInit == AuditInit => AuditInv
<1> SUFFICES ASSUME AuditInit PROVE AuditInv
  OBVIOUS
<1>1. AuditTypeOK
  BY AuditConstants DEF AuditInit, AuditTypeOK, PassStates, Calendar, Seals
<1>2. \A p \in Passes : pass[p].at = "idle"
  BY DEF AuditInit, NoPass
<1>. QED
  BY <1>1, <1>2 DEF AuditInit, AuditInv, StampedOnly, ReadingsAccount, Reading, SealsAccount,
     PurgedIsAccountedFor, ReadingsArchived, SealsArchived, PurgedArchived

\* A pass that moves on to a place where it holds no reading disturbs nothing.
LEMMA AuditInvMove ==
  ASSUME AuditInv, NEW p \in Passes, NEW n \in PassStates,
         pass' = [pass EXCEPT ![p] = n], n.at \notin {"upload", "insert"},
         UNCHANGED <<stampOf, inStore, buffered, seals, blobs, today, purged, late, uploads>>
  PROVE  AuditInv'
<1>1. AuditTypeOK'
  BY DEF AuditInv, AuditTypeOK
<1>2. \A q \in Passes : Reading(q)' => q # p /\ Reading(q) /\ pass'[q] = pass[q]
  BY DEF AuditInv, AuditTypeOK, Reading
<1>3. ReadingsAccount' /\ ReadingsArchived'
  BY <1>2 DEF AuditInv, ReadingsAccount, ReadingsArchived, Reading, Kept
<1>. QED
  BY <1>1, <1>3 DEF AuditInv, StampedOnly, SealsAccount, PurgedIsAccountedFor,
     SealsArchived, Kept, PurgedArchived

\* The same of a step that leaves passes and evidence alone, and brings no
\* record into the store.
LEMMA AuditInvRest ==
  ASSUME AuditInv, AuditTypeOK', StampedOnly',
         UNCHANGED <<inStore, seals, blobs, pass, purged, late, uploads>>,
         \A r \in inStore \cup purged : stampOf'[r] = stampOf[r]
  PROVE  AuditInv'
<1>1. ReadingsAccount' /\ ReadingsArchived'
  BY DEF AuditInv, ReadingsAccount, ReadingsArchived, Reading, Kept
<1>2. SealsAccount' /\ SealsArchived'
  BY DEF AuditInv, SealsAccount, SealsArchived, Kept
<1>3. PurgedIsAccountedFor' /\ PurgedArchived'
  BY DEF AuditInv, PurgedIsAccountedFor, PurgedArchived
<1>. QED
  BY <1>1, <1>2, <1>3 DEF AuditInv

LEMMA StampStep ==
  ASSUME AuditInv, NEW r \in AuditRecords, Stamp(r)
  PROVE  AuditInv'
<1>1. AuditTypeOK'
  BY DEF AuditInv, AuditTypeOK, Stamp, Calendar
<1>2. r \notin inStore \cup buffered \cup purged
  BY DEF AuditInv, StampedOnly, Stamp, Calendar
<1>3. \A x \in inStore \cup buffered \cup purged : stampOf'[x] = stampOf[x] /\ x \in AuditRecords
  BY <1>2 DEF AuditInv, AuditTypeOK, Stamp
<1>4. stampOf'[r] \in Calendar
  BY DEF AuditInv, AuditTypeOK, Stamp
<1>5. StampedOnly'
  BY <1>3, <1>4 DEF AuditInv, StampedOnly, Stamp, Calendar
<1>. QED
  BY <1>1, <1>3, <1>5, AuditInvRest DEF Stamp

\* A record that lands in a day some pass holds a reading of, or that is
\* sealed, is late.
LEMMA LandStep ==
  ASSUME AuditInv, NEW r \in AuditRecords, Land(r)
  PROVE  AuditInv'
<1>1. AuditTypeOK'
  BY DEF AuditInv, AuditTypeOK, Land
<1>2. StampedOnly'
  BY DEF AuditInv, StampedOnly, Land, Calendar
<1>3. late \subseteq late' /\ inStore' = inStore \cup {r} /\ stampOf[r] \in Calendar
  BY DEF AuditInv, StampedOnly, Land
<1>4. ReadingsAccount'
  <2> SUFFICES ASSUME NEW p \in Passes, Reading(p), stampOf[r] = pass[p].day
               PROVE  r \in late'
    BY <1>3 DEF AuditInv, ReadingsAccount, Reading, Land
  <2>. QED
    BY <1>3 DEF Land, ReadDays, Reading
<1>5. SealsAccount'
  <2> SUFFICES ASSUME NEW d \in Calendar, seals[d] # NoSeal, stampOf[r] = d
               PROVE  r \in late'
    BY <1>3 DEF AuditInv, SealsAccount, Land
  <2>. QED
    BY <1>3 DEF Land, ReadDays
<1>6. PurgedIsAccountedFor' /\ PurgedArchived'
  BY <1>3 DEF AuditInv, PurgedIsAccountedFor, PurgedArchived, Land
<1>7. ReadingsArchived' /\ SealsArchived'
  BY DEF AuditInv, ReadingsArchived, SealsArchived, Kept, Land
<1>. QED
  BY <1>1, <1>2, <1>4, <1>5, <1>6, <1>7 DEF AuditInv

LEMMA LoseWriteStep ==
  ASSUME AuditInv, NEW r \in AuditRecords, LoseWrite(r)
  PROVE  AuditInv'
<1>1. AuditTypeOK' /\ StampedOnly'
  BY DEF AuditInv, AuditTypeOK, StampedOnly, LoseWrite, Calendar
<1>. QED
  BY <1>1, AuditInvRest DEF LoseWrite

LEMMA StartPassStep ==
  ASSUME AuditInv, NEW p \in Passes, StartPass(p)
  PROVE  AuditInv'
<1> DEFINE D == Latest(ScanLimit, {d \in Calendar : d < today /\ On(d) # {}})
           n == [at |-> "check", asOf |-> today, days |-> D]
<1>1. n \in PassStates
  BY DEF Latest, PassStates, AuditInv, AuditTypeOK
<1>. QED
  BY <1>1, AuditInvMove DEF StartPass

LEMMA CheckSealStep ==
  ASSUME AuditInv, NEW p \in Passes, CheckSeal(p)
  PROVE  AuditInv'
<1>1. PICK d \in pass[p].days :
        pass' = [pass EXCEPT ![p] =
          IF seals[d] # NoSeal
          THEN [at |-> "check", asOf |-> @.asOf, days |-> @.days \ {d}]
          ELSE [at |-> "read", asOf |-> @.asOf, days |-> @.days \ {d}, day |-> d]]
  BY DEF CheckSeal
<1> DEFINE n == IF seals[d] # NoSeal
          THEN [at |-> "check", asOf |-> pass[p].asOf, days |-> pass[p].days \ {d}]
          ELSE [at |-> "read", asOf |-> pass[p].asOf, days |-> pass[p].days \ {d}, day |-> d]
<1>2. pass[p].asOf \in Calendar /\ pass[p].days \subseteq Calendar
  BY PassFields DEF AuditInv, CheckSeal, NoPass
<1>3. n \in PassStates /\ n.at \notin {"upload", "insert"}
  BY <1>2 DEF PassStates
<1>4. pass' = [pass EXCEPT ![p] = n]
  BY <1>1
<1>. QED
  BY <1>3, <1>4, AuditInvMove DEF CheckSeal

\* The reading holds everything the store has of its day.
LEMMA ReadDayStep ==
  ASSUME AuditInv, NEW p \in Passes, ReadDay(p)
  PROVE  AuditInv'
<1> DEFINE n == [at |-> "upload", asOf |-> pass[p].asOf, days |-> pass[p].days,
                 day |-> pass[p].day, records |-> On(pass[p].day)]
<1>1. /\ pass[p].asOf \in Calendar /\ pass[p].days \subseteq Calendar
      /\ pass[p].day \in Calendar
  BY PassFields DEF AuditInv, ReadDay, NoPass
<1>2. n \in PassStates
  BY <1>1 DEF PassStates, On, AuditInv, AuditTypeOK
<1>3. pass' = [pass EXCEPT ![p] = n] /\ pass'[p] = n
  BY DEF ReadDay, AuditInv, AuditTypeOK
<1>4. \A q \in Passes : q # p => pass'[q] = pass[q]
  BY <1>3 DEF AuditInv, AuditTypeOK
<1>5. AuditTypeOK'
  BY <1>2, <1>3 DEF AuditInv, AuditTypeOK, ReadDay
<1>6. ReadingsAccount'
  BY <1>3, <1>4 DEF AuditInv, ReadingsAccount, Reading, On, ReadDay
<1>7. ReadingsArchived'
  BY <1>3, <1>4 DEF AuditInv, ReadingsArchived, Kept, ReadDay
<1>. QED
  BY <1>5, <1>6, <1>7 DEF AuditInv, StampedOnly, SealsAccount, PurgedIsAccountedFor,
     SealsArchived, Kept, PurgedArchived, ReadDay

\* An upload that stands makes the blob the reading of this pass; one over an
\* earlier upload makes the day uploaded again, which nothing changes.
LEMMA UploadStep ==
  ASSUME AuditInv, NEW p \in Passes, Upload(p)
  PROVE  AuditInv'
<1> DEFINE d == pass[p].day
           n == [at |-> "insert", asOf |-> pass[p].asOf, days |-> pass[p].days, day |-> d,
                 records |-> pass[p].records, archived |-> TRUE]
<1>1. /\ pass[p].asOf \in Calendar /\ pass[p].days \subseteq Calendar
      /\ d \in Calendar /\ pass[p].records \subseteq AuditRecords
  BY PassFields DEF AuditInv, Upload, NoPass, Reading
<1>2. n \in PassStates
  BY <1>1 DEF PassStates
<1>3. pass' = [pass EXCEPT ![p] = n] /\ pass'[p] = n
  BY DEF Upload, Uploaded, AuditInv, AuditTypeOK
<1>4. \A q \in Passes : q # p => pass'[q] = pass[q]
  BY <1>3 DEF AuditInv, AuditTypeOK
<1>5. /\ blobs' = [blobs EXCEPT ![d] = pass[p].records]
      /\ uploads' = [uploads EXCEPT ![d] = IF @ = "never" THEN "once" ELSE "again"]
      /\ UNCHANGED <<stampOf, inStore, buffered, seals, today, purged, late>>
  BY DEF Upload
<1>6. /\ blobs'[d] = pass[p].records
      /\ uploads'[d] = "once" => uploads[d] = "never"
      /\ uploads'[d] \in {"once", "again"}
      /\ \A e \in Calendar : e # d => blobs'[e] = blobs[e] /\ uploads'[e] = uploads[e]
  BY <1>1, <1>5 DEF AuditInv, AuditTypeOK
<1>7. AuditTypeOK'
  BY <1>1, <1>2, <1>3, <1>5 DEF AuditInv, AuditTypeOK
<1>8. ReadingsAccount'
  BY <1>3, <1>4, <1>5 DEF AuditInv, ReadingsAccount, Reading, Upload
<1>9. ASSUME NEW e \in Calendar, NEW R, Kept(e, R)
      PROVE  Kept(e, R)'
  <2>1. CASE e # d
    BY <2>1, <1>6, <1>9 DEF Kept
  <2>2. CASE e = d
    BY <2>2, <1>5, <1>6, <1>9 DEF Kept, AuditInv, AuditTypeOK
  <2>. QED
    BY <2>1, <2>2
<1>10. ReadingsArchived'
  <2> SUFFICES ASSUME NEW q \in Passes, pass'[q].at = "insert", pass'[q].archived
               PROVE  Kept(pass[q].day, pass[q].records)' 
    BY DEF ReadingsArchived
  <2>1. CASE q = p
    BY <2>1, <1>3, <1>6 DEF Kept
  <2>2. CASE q # p
    <3>1. Kept(pass[q].day, pass[q].records) /\ pass[q].day \in Calendar
      BY <2>2, <1>4, PassFields DEF AuditInv, ReadingsArchived
    <3>. QED
      BY <3>1, <2>2, <1>4, <1>6 DEF Kept, AuditInv, AuditTypeOK
  <2>. QED
    BY <2>1, <2>2
<1>11. SealsArchived'
  BY <1>5, <1>6 DEF AuditInv, SealsArchived, Kept
<1>12. PurgedArchived'
  <2> SUFFICES ASSUME Archiving, NEW r \in purged, r \notin late
               PROVE  LET e == stampOf[r] IN
                      uploads'[e] = "again" \/ (uploads'[e] = "once" /\ r \in blobs'[e])
    BY <1>5 DEF PurgedArchived
  <2>1. stampOf[r] \in Calendar
    BY DEF AuditInv, StampedOnly
  <2>. QED
    BY <2>1, <1>6, <1>5 DEF AuditInv, PurgedArchived, AuditTypeOK
<1>. QED
  BY <1>5, <1>7, <1>8, <1>10, <1>11, <1>12
     DEF AuditInv, StampedOnly, SealsAccount, PurgedIsAccountedFor

LEMMA UploadFailsStep ==
  ASSUME AuditInv, NEW p \in Passes, UploadFails(p)
  PROVE  AuditInv'
<1> DEFINE n == [at |-> "insert", asOf |-> pass[p].asOf, days |-> pass[p].days,
                 day |-> pass[p].day, records |-> pass[p].records, archived |-> FALSE]
<1>1. /\ pass[p].asOf \in Calendar /\ pass[p].days \subseteq Calendar
      /\ pass[p].day \in Calendar /\ pass[p].records \subseteq AuditRecords
  BY PassFields DEF AuditInv, UploadFails, NoPass, Reading
<1>2. n \in PassStates
  BY <1>1 DEF PassStates
<1>3. pass' = [pass EXCEPT ![p] = n] /\ pass'[p] = n
  BY DEF UploadFails, Uploaded, AuditInv, AuditTypeOK
<1>4. \A q \in Passes : q # p => pass'[q] = pass[q]
  BY <1>3 DEF AuditInv, AuditTypeOK
<1>5. AuditTypeOK'
  BY <1>2, <1>3 DEF AuditInv, AuditTypeOK, UploadFails
<1>6. ReadingsAccount'
  BY <1>3, <1>4 DEF AuditInv, ReadingsAccount, Reading, UploadFails
<1>7. ReadingsArchived'
  BY <1>3, <1>4 DEF AuditInv, ReadingsArchived, Kept, UploadFails
<1>. QED
  BY <1>5, <1>6, <1>7 DEF AuditInv, StampedOnly, SealsAccount, PurgedIsAccountedFor,
     SealsArchived, Kept, PurgedArchived, UploadFails

\* A seal that is set takes over what the pass knows of its reading.
LEMMA InsertSealStep ==
  ASSUME AuditInv, NEW p \in Passes, InsertSeal(p)
  PROVE  AuditInv'
<1> DEFINE d == pass[p].day
           n == [at |-> "check", asOf |-> pass[p].asOf, days |-> pass[p].days]
<1>1. /\ pass[p].asOf \in Calendar /\ pass[p].days \subseteq Calendar /\ d \in Calendar
      /\ pass[p].records \subseteq AuditRecords /\ pass[p].archived \in BOOLEAN
  BY PassFields DEF AuditInv, InsertSeal, NoPass, Reading
<1>2. n \in PassStates
  BY <1>1 DEF PassStates
<1>3. pass' = [pass EXCEPT ![p] = n] /\ pass'[p] = n
  BY DEF InsertSeal, BackToCheck, AuditInv, AuditTypeOK
<1>4. \A q \in Passes : q # p => pass'[q] = pass[q]
  BY <1>3 DEF AuditInv, AuditTypeOK
<1>5. Sealing(p) \in Seals /\ Sealing(p) # NoSeal
  BY <1>1, AuditConstants DEF Sealing, Seals
<1>6. /\ seals' = [seals EXCEPT ![d] = IF @ = NoSeal THEN Sealing(p) ELSE @]
      /\ UNCHANGED <<stampOf, inStore, buffered, blobs, today, purged, late, uploads>>
  BY DEF InsertSeal
<1>7. \A e \in Calendar :
        seals'[e] # NoSeal => seals'[e] = seals[e] \/ (e = d /\ seals'[e] = Sealing(p))
  BY <1>6 DEF AuditInv, AuditTypeOK
<1>8. \A e \in Calendar : seals[e] # NoSeal => seals'[e] = seals[e]
  BY <1>6 DEF AuditInv, AuditTypeOK
<1>9. AuditTypeOK'
  BY <1>1, <1>2, <1>3, <1>5, <1>6 DEF AuditInv, AuditTypeOK
<1>10. ReadingsAccount' /\ ReadingsArchived'
  BY <1>3, <1>4, <1>6 DEF AuditInv, ReadingsAccount, ReadingsArchived, Reading, Kept
<1>11. SealsAccount'
  <2> SUFFICES ASSUME NEW e \in Calendar, seals'[e] # NoSeal,
                      NEW r \in inStore, stampOf[r] = e
               PROVE  r \in seals'[e].records \cup late
    BY <1>6 DEF SealsAccount
  <2>1. CASE seals'[e] = seals[e]
    BY <2>1 DEF AuditInv, SealsAccount
  <2>2. CASE e = d /\ seals'[e] = Sealing(p)
    BY <2>2 DEF AuditInv, ReadingsAccount, Reading, Sealing, InsertSeal
  <2>. QED
    BY <2>1, <2>2, <1>7
<1>12. SealsArchived'
  <2> SUFFICES ASSUME NEW e \in Calendar, seals'[e] # NoSeal, seals'[e].archived
               PROVE  Kept(e, seals'[e].records)
    BY <1>6 DEF SealsArchived, Kept
  <2>1. CASE seals'[e] = seals[e]
    BY <2>1 DEF AuditInv, SealsArchived
  <2>2. CASE e = d /\ seals'[e] = Sealing(p)
    BY <2>2 DEF AuditInv, ReadingsArchived, Sealing, InsertSeal
  <2>. QED
    BY <2>1, <2>2, <1>7
<1>13. PurgedIsAccountedFor'
  <2> SUFFICES ASSUME NEW r \in purged
               PROVE  /\ seals'[stampOf[r]] # NoSeal
                      /\ r \in seals'[stampOf[r]].records \cup late
    BY <1>6 DEF PurgedIsAccountedFor
  <2>. QED
    BY <1>8 DEF AuditInv, PurgedIsAccountedFor, StampedOnly
<1>. QED
  BY <1>6, <1>9, <1>10, <1>11, <1>12, <1>13 DEF AuditInv, StampedOnly, PurgedArchived

LEMMA ListExpiredStep ==
  ASSUME AuditInv, NEW p \in Passes, ListExpired(p)
  PROVE  AuditInv'
<1> DEFINE D == Oldest(PurgeLimit,
                  {d \in Calendar : d < pass[p].asOf - Retention /\ On(d) # {}})
           n == [at |-> "purge", asOf |-> pass[p].asOf, days |-> D]
<1>1. pass[p].asOf \in Calendar
  BY PassFields DEF AuditInv, ListExpired, NoPass
<1>2. n \in PassStates
  BY <1>1 DEF Oldest, PassStates
<1>3. pass' = [pass EXCEPT ![p] = n]
  BY DEF ListExpired
<1>. QED
  BY <1>2, <1>3, AuditInvMove DEF ListExpired

\* What is deleted was in the store under a seal, which accounts for it.
LEMMA PurgeDayStep ==
  ASSUME AuditInv, NEW p \in Passes, PurgeDay(p)
  PROVE  AuditInv'
<1>1. PICK d \in pass[p].days :
        /\ pass' = [pass EXCEPT ![p] = [at |-> "purge", asOf |-> @.asOf, days |-> @.days \ {d}]]
        /\ inStore' = IF MayPurge(d) THEN inStore \ On(d) ELSE inStore
        /\ purged' = IF MayPurge(d) THEN purged \cup On(d) ELSE purged
  BY DEF PurgeDay
<1> DEFINE n == [at |-> "purge", asOf |-> pass[p].asOf, days |-> pass[p].days \ {d}]
<1>2. pass[p].asOf \in Calendar /\ pass[p].days \subseteq Calendar /\ d \in Calendar
  BY PassFields DEF AuditInv, PurgeDay, NoPass
<1>3. n \in PassStates /\ pass' = [pass EXCEPT ![p] = n]
  BY <1>1, <1>2 DEF PassStates
<1>4. \A q \in Passes : Reading(q)' => q # p /\ Reading(q) /\ pass'[q] = pass[q]
  BY <1>3 DEF AuditInv, AuditTypeOK, Reading
<1>5. UNCHANGED <<stampOf, buffered, seals, blobs, today, late, uploads>>
  BY DEF PurgeDay
<1>6. inStore' \subseteq inStore /\ purged' \subseteq purged \cup inStore
  BY <1>1 DEF On
<1>7. AuditTypeOK'
  BY <1>3, <1>5, <1>6 DEF AuditInv, AuditTypeOK
<1>8. StampedOnly'
  BY <1>5, <1>6 DEF AuditInv, StampedOnly, Calendar
<1>9. ReadingsAccount' /\ ReadingsArchived'
  BY <1>4, <1>5, <1>6 DEF AuditInv, ReadingsAccount, ReadingsArchived, Reading, Kept
<1>10. SealsAccount' /\ SealsArchived'
  BY <1>5, <1>6 DEF AuditInv, SealsAccount, SealsArchived, Kept
<1>11. ASSUME NEW r \in purged', r \notin purged
       PROVE  r \in inStore /\ stampOf[r] = d /\ MayPurge(d)
  BY <1>1, <1>11 DEF On
<1>12. PurgedIsAccountedFor'
  <2> SUFFICES ASSUME NEW r \in purged'
               PROVE  /\ seals[stampOf[r]] # NoSeal
                      /\ r \in seals[stampOf[r]].records \cup late
    BY <1>5 DEF PurgedIsAccountedFor
  <2>1. CASE r \in purged
    BY <2>1 DEF AuditInv, PurgedIsAccountedFor
  <2>2. CASE r \notin purged
    BY <2>2, <1>2, <1>11 DEF AuditInv, SealsAccount, MayPurge
  <2>. QED
    BY <2>1, <2>2
<1>13. PurgedArchived'
  <2> SUFFICES ASSUME Archiving, NEW r \in purged', r \notin late
               PROVE  \/ uploads[stampOf[r]] = "again"
                      \/ uploads[stampOf[r]] = "once" /\ r \in blobs[stampOf[r]]
    BY <1>5 DEF PurgedArchived
  <2>1. CASE r \in purged
    BY <2>1 DEF AuditInv, PurgedArchived
  <2>2. CASE r \notin purged
    <3>1. Kept(d, seals[d].records) /\ r \in seals[d].records
      BY <2>2, <1>2, <1>11 DEF AuditInv, SealsArchived, SealsAccount, MayPurge
    <3>. QED
      BY <3>1, <2>2, <1>11 DEF Kept
  <2>. QED
    BY <2>1, <2>2
<1>. QED
  BY <1>7, <1>8, <1>9, <1>10, <1>12, <1>13 DEF AuditInv

LEMMA PassEndsStep ==
  ASSUME AuditInv, NEW p \in Passes, PassEnds(p)
  PROVE  AuditInv'
<1>1. NoPass \in PassStates /\ NoPass.at \notin {"upload", "insert"}
  BY DEF PassStates, NoPass
<1>. QED
  BY <1>1, AuditInvMove DEF PassEnds

LEMMA MidnightStep ==
  ASSUME AuditInv, Midnight
  PROVE  AuditInv'
<1>1. AuditTypeOK'
  BY AuditConstants DEF AuditInv, AuditTypeOK, Midnight, Calendar
<1>2. StampedOnly'
  BY DEF AuditInv, StampedOnly, Midnight, Calendar
<1>. QED
  BY <1>1, <1>2, AuditInvRest DEF Midnight

-------------------------------------------------------------------------------
LEMMA AuditInvNext == AuditInv /\ [AuditNext]_auditVars => AuditInv'
<1> SUFFICES ASSUME AuditInv, [AuditNext]_auditVars PROVE AuditInv'
  OBVIOUS
<1>1. CASE UNCHANGED auditVars
  <2>1. AuditTypeOK' /\ StampedOnly'
    BY <1>1 DEF AuditInv, AuditTypeOK, StampedOnly, auditVars, Calendar
  <2>. QED
    BY <2>1, <1>1, AuditInvRest DEF auditVars
<1>2. ASSUME NEW r \in AuditRecords, Stamp(r) \/ Land(r) \/ LoseWrite(r)
      PROVE  AuditInv'
  BY <1>2, StampStep, LandStep, LoseWriteStep
<1>3. ASSUME NEW p \in Passes,
             \/ StartPass(p) \/ CheckSeal(p) \/ ReadDay(p) \/ Upload(p) \/ UploadFails(p)
             \/ InsertSeal(p) \/ ListExpired(p) \/ PurgeDay(p) \/ PassEnds(p)
      PROVE  AuditInv'
  BY <1>3, StartPassStep, CheckSealStep, ReadDayStep, UploadStep, UploadFailsStep,
     InsertSealStep, ListExpiredStep, PurgeDayStep, PassEndsStep
<1>4. CASE Midnight
  BY <1>4, MidnightStep
<1>. QED
  BY <1>1, <1>2, <1>3, <1>4 DEF AuditNext

\* The inductive invariant holds throughout.
THEOREM AuditInvariant == AuditSpec => []AuditInv
BY AuditInvInit, AuditInvNext, PTL DEF AuditSpec

\* Every variable keeps its type.
THEOREM AuditTypes == AuditSpec => []AuditTypeOK
<1>1. AuditInv => AuditTypeOK
  BY DEF AuditInv
<1>. QED
  BY <1>1, AuditInvariant, PTL

\* Retention deletes only records of sealed days, which the seal accounts for
\* unless they came late.
THEOREM PurgesAreSealed == AuditSpec => []PurgedIsAccountedFor
<1>1. AuditInv => PurgedIsAccountedFor
  BY DEF AuditInv
<1>. QED
  BY <1>1, AuditInvariant, PTL

\* And they are in the archive where there is one, unless they came late or a
\* second upload replaced the first.
THEOREM PurgesAreArchived == AuditSpec => []PurgedIsArchived
<1>1. AuditInv => PurgedIsArchived
  BY DEF AuditInv, PurgedArchived, PurgedIsArchived
<1>. QED
  BY <1>1, AuditInvariant, PTL

\* No step of any pass on any replica changes a seal that stands.
THEOREM SealsStand == AuditSpec => SealsAreFinal
<1> DEFINE Final == \A d \in Calendar : seals[d] # NoSeal => seals'[d] = seals[d]
<1>1. ASSUME AuditInv, AuditNext PROVE Final
  <2>1. ASSUME NEW p \in Passes, InsertSeal(p) PROVE Final
    BY <1>1, <2>1 DEF AuditInv, AuditTypeOK, InsertSeal
  <2>. QED
    BY <1>1, <2>1 DEF AuditNext, Stamp, Land, LoseWrite, StartPass, CheckSeal, ReadDay,
       Upload, UploadFails, ListExpired, PurgeDay, PassEnds, Midnight
<1>2. AuditInv /\ [AuditNext]_auditVars => [Final]_auditVars
  BY <1>1
<1>. QED
  BY <1>2, AuditInvariant, PTL DEF AuditSpec, SealsAreFinal

-------------------------------------------------------------------------------
(***************************************************************************)
(* Feedback mail.  The lanes at work on a report are counted by its claim  *)
(* and by the claims taken over (LanesAreCounted).  A copy is sent, about  *)
(* to be recorded, or lost (UnmarkedAreCounted), and the sends to come are *)
(* within what the claims allow (SendsAreCounted).                         *)
(***************************************************************************)
\* Lanes that have yet to send a report to c, and lanes that did and have not
\* recorded it.
Sending(r, c) == {s \in Slots : delivery[s].at = "send" /\ delivery[s].of = r /\ c \in delivery[s].missing}

Unrecorded(r, c) ==
  {s \in Slots : /\ delivery[s].at = "record" /\ delivery[s].of = r
                 /\ c \in delivery[s].missing /\ delivery[s].out}

\* One delivery at a time, but for those taken over; a claim that was cleared
\* leaves no more than these.
LanesAreCounted ==
  \A r \in Reports :
    /\ Cardinality(AtIt(r)) <= 1 + overlaps[r]
    /\ claim[r] = "none" => Cardinality(AtIt(r)) <= overlaps[r]

\* What went to somebody who is not marked as notified was lost, or is about to
\* be recorded.
UnmarkedAreCounted ==
  \A r \in Reports, c \in Recipients :
    c \notin notifiedTo[r] => copies[r][c] <= strays[r] + Cardinality(Unrecorded(r, c))

\* Sent or about to be.
SendsAreCounted ==
  \A r \in Reports, c \in Recipients :
    copies[r][c] + Cardinality(Sending(r, c)) <= 1 + overlaps[r] + strays[r]

NotifierInv ==
  /\ NotifierTypeOK
  /\ LanesAreCounted
  /\ UnmarkedAreCounted
  /\ SendsAreCounted

-------------------------------------------------------------------------------
LEMMA NotifierConstantTypes ==
  /\ IsFiniteSet(Slots) /\ FirstList \subseteq Recipients
  /\ MaxNotify \in Nat /\ PerHour \in Nat /\ CrashLimit \in Nat
<1>1. MaxNotify \in Nat \ {0} /\ PerHour \in Nat \ {0}
  BY NotifierConstants
<1> QED BY <1>1, NotifierConstants, FS_Product DEF Slots

LEMMA SlotSets ==
  ASSUME NEW P \in SUBSET Slots
  PROVE  /\ IsFiniteSet(P) /\ Cardinality(P) \in Nat
         /\ \A Q \in SUBSET P : Cardinality(Q) <= Cardinality(P)
         /\ \A s \in Slots : Cardinality(P \cup {s}) = IF s \in P THEN Cardinality(P) ELSE Cardinality(P) + 1
         /\ \A s \in P : Cardinality(P \ {s}) = Cardinality(P) - 1
<1>1. IsFiniteSet(P)
  BY NotifierConstantTypes, FS_Subset
<1> QED BY <1>1, FS_Subset, FS_CardinalityType, FS_AddElement, FS_RemoveElement

LEMMA LaneSets ==
  ASSUME NEW r, NEW c
  PROVE  /\ AtIt(r) \in SUBSET Slots /\ Sending(r, c) \in SUBSET AtIt(r)
         /\ Unrecorded(r, c) \in SUBSET AtIt(r) /\ Sending(r, c) \cap Unrecorded(r, c) = {}
         /\ {Cardinality(AtIt(r)), Cardinality(Sending(r, c)), Cardinality(Unrecorded(r, c))} \subseteq Nat
         /\ Cardinality(Sending(r, c)) + Cardinality(Unrecorded(r, c)) <= Cardinality(AtIt(r))
<1>1. /\ AtIt(r) \in SUBSET Slots /\ Sending(r, c) \in SUBSET AtIt(r)
      /\ Unrecorded(r, c) \in SUBSET AtIt(r) /\ Sending(r, c) \cap Unrecorded(r, c) = {}
  BY DEF AtIt, Sending, Unrecorded
<1>2. {Cardinality(AtIt(r)), Cardinality(Sending(r, c)), Cardinality(Unrecorded(r, c))} \subseteq Nat
  BY <1>1, SlotSets
<1>3. IsFiniteSet(Sending(r, c)) /\ IsFiniteSet(Unrecorded(r, c)) /\ Cardinality({}) = 0
  BY <1>1, SlotSets, FS_EmptySet
<1>4. Cardinality(Sending(r, c) \cup Unrecorded(r, c))
        = Cardinality(Sending(r, c)) + Cardinality(Unrecorded(r, c))
  <2>1. \A P, Q : IsFiniteSet(P) /\ IsFiniteSet(Q) =>
          Cardinality(P \cup Q) = Cardinality(P) + Cardinality(Q) - Cardinality(P \cap Q)
    BY FS_Union
  <2> QED BY <1>1, <1>2, <1>3, <2>1
<1>5. Cardinality(Sending(r, c) \cup Unrecorded(r, c)) <= Cardinality(AtIt(r))
  BY <1>1, SlotSets
<1> QED BY <1>1, <1>2, <1>4, <1>5

-------------------------------------------------------------------------------
Deliveries ==
  {NoDelivery} \cup [at : {"claim"}, of : Reports]
    \cup [at : {"send"}, of : Reports, missing : SUBSET Recipients]
    \cup [at : {"record"}, of : Reports, missing : SUBSET Recipients, sent : BOOLEAN, out : BOOLEAN]

LEMMA DeliveryShapes ==
  ASSUME NotifierTypeOK, NEW s \in Slots
  PROVE  /\ s[1] \in Replicas /\ delivery[s] \in Deliveries /\ NoDelivery.at = "idle"
         /\ delivery[s].at \in {"claim", "send", "record"} => delivery[s].of \in Reports
         /\ delivery[s].at \in {"send", "record"} => delivery[s].missing \in SUBSET Recipients
         /\ delivery[s].at = "record" => delivery[s].sent \in BOOLEAN /\ delivery[s].out \in BOOLEAN
<1>1. s[1] \in Replicas
  BY DEF Slots
<1>2. delivery[s] \in Deliveries
  BY DEF NotifierTypeOK, Deliveries
<1> QED BY <1>1, <1>2 DEF Deliveries, NoDelivery

LEMMA NotifierTypes == ASSUME NotifierTypeOK, [NotifierNext]_notifierVars PROVE NotifierTypeOK'
<1>t. /\ filed \subseteq Reports /\ notifiedTo \in [Reports -> SUBSET Recipients]
      /\ claim \in [Reports -> {"none", "fresh", "stale"}]
      /\ tried \in [Reports -> 0..MaxNotify] /\ backoff \subseteq Reports /\ mailing \subseteq Recipients
      /\ delivery \in [Slots -> Deliveries] /\ spent \in [Replicas -> 0..PerHour]
      /\ copies \in [Reports -> [Recipients -> Nat]]
      /\ overlaps \in [Reports -> Nat] /\ strays \in [Reports -> Nat] /\ crashes \in 0..CrashLimit
  BY DEF NotifierTypeOK, Deliveries
<1>c. MaxNotify \in Nat /\ PerHour \in Nat /\ CrashLimit \in Nat
  BY NotifierConstantTypes
<1>d. \A s \in Slots : s[1] \in Replicas /\ NoDelivery \in Deliveries
  BY DeliveryShapes DEF Deliveries
<1>1. CASE UNCHANGED notifierVars
  BY <1>t, <1>1 DEF notifierVars, NotifierTypeOK, Deliveries
<1>r. ASSUME NEW s \in Slots, NEW r \in Reports, Reserve(s, r)
      PROVE  delivery' \in [Slots -> Deliveries] /\ spent' \in [Replicas -> 0..PerHour]
  BY <1>r, <1>t, <1>c, <1>d DEF Reserve, Deliveries
<1>2. ASSUME NEW s \in Slots, NEW r \in Reports, File(s, r) PROVE NotifierTypeOK'
  BY <1>2, <1>r, <1>t DEF File, NotifierTypeOK, Deliveries
<1>3. ASSUME NEW s \in Slots, NEW r \in Reports, Sweep(s, r) PROVE NotifierTypeOK'
  BY <1>3, <1>r, <1>t DEF Sweep, NotifierTypeOK, Deliveries
<1>4. ASSUME NEW s \in Slots, Claim(s) PROVE NotifierTypeOK'
  <2>1. PICK r \in Reports : r = delivery[s].of
    BY <1>4, DeliveryShapes DEF Claim
  <2>2. /\ claim' = [claim EXCEPT ![r] = "fresh"] /\ tried' = [tried EXCEPT ![r] = @ + 1]
        /\ tried[r] < MaxNotify /\ overlaps' \in [Reports -> Nat]
        /\ delivery' = [delivery EXCEPT ![s] = [at |-> "send", of |-> r, missing |-> mailing \ notifiedTo[r]]]
        /\ UNCHANGED <<filed, notifiedTo, backoff, mailing, spent, copies, strays, crashes>>
    BY <1>4, <1>t, <2>1 DEF Claim, Claimable
  <2>3. [at |-> "send", of |-> r, missing |-> mailing \ notifiedTo[r]] \in Deliveries
    BY <1>t DEF Deliveries
  <2>4. delivery' \in [Slots -> Deliveries] /\ tried' \in [Reports -> 0..MaxNotify]
    BY <1>t, <1>c, <2>2, <2>3
  <2> QED BY <1>t, <2>2, <2>4 DEF NotifierTypeOK, Deliveries
<1>5. ASSUME NEW s \in Slots, ClaimFails(s) PROVE NotifierTypeOK'
  <2>1. delivery' \in [Slots -> Deliveries] /\ spent' \in [Replicas -> 0..PerHour]
    BY <1>5, <1>t, <1>c, <1>d DEF ClaimFails
  <2> QED BY <1>5, <1>t, <2>1 DEF ClaimFails, NotifierTypeOK, Deliveries
<1>6. ASSUME NEW s \in Slots, Send(s) PROVE NotifierTypeOK'
  <2>1. PICK out \in BOOLEAN, sent \in BOOLEAN :
          /\ copies' = [copies EXCEPT ![delivery[s].of] =
               [c \in Recipients |-> IF out /\ c \in delivery[s].missing THEN @[c] + 1 ELSE @[c]]]
          /\ delivery' = [delivery EXCEPT ![s] =
               [at |-> "record", of |-> delivery[s].of, missing |-> delivery[s].missing,
                sent |-> sent, out |-> out]]
    BY <1>6 DEF Send
  <2>2. delivery[s].of \in Reports /\ delivery[s].missing \in SUBSET Recipients
    BY <1>6, DeliveryShapes DEF Send
  <2>3. delivery' \in [Slots -> Deliveries]
    <3>1. [at |-> "record", of |-> delivery[s].of, missing |-> delivery[s].missing,
           sent |-> sent, out |-> out] \in Deliveries
      BY <2>2 DEF Deliveries
    <3> QED BY <1>t, <2>1, <3>1
  <2>4. copies' \in [Reports -> [Recipients -> Nat]]
    <3>1. [c \in Recipients |-> IF out /\ c \in delivery[s].missing THEN copies[delivery[s].of][c] + 1
                                ELSE copies[delivery[s].of][c]] \in [Recipients -> Nat]
      BY <1>t, <2>2
    <3> QED BY <1>t, <2>1, <2>2, <3>1
  <2> QED BY <1>6, <1>t, <2>3, <2>4 DEF Send, NotifierTypeOK, Deliveries
<1>7. ASSUME NEW s \in Slots, Record(s) PROVE NotifierTypeOK'
  <2>1. delivery[s].of \in Reports /\ delivery[s].missing \in SUBSET Recipients
    BY <1>7, DeliveryShapes DEF Record
  <2>2. delivery' \in [Slots -> Deliveries]
    BY <1>7, <1>t, <1>d DEF Record
  <2> QED BY <1>7, <1>t, <2>1, <2>2 DEF Record, NotifierTypeOK, Deliveries
<1>8. ASSUME NEW p \in Replicas, ReplicaDies(p) PROVE NotifierTypeOK'
  <2> DEFINE Lost(r) == {s \in AtIt(r) : s[1] = p /\ delivery[s].at = "record" /\ delivery[s].out}
  <2>0. strays' = [r \in Reports |-> strays[r] + Cardinality(Lost(r))]
    BY <1>8 DEF ReplicaDies
  <2>1. \A r \in Reports : Cardinality(Lost(r)) \in Nat
    <3>1. \A r : Lost(r) \in SUBSET Slots
      BY DEF AtIt
    <3> HIDE DEF Lost
    <3> QED BY <3>1, SlotSets
  <2> HIDE DEF Lost
  <2>2. strays' \in [Reports -> Nat]
    BY <1>t, <2>0, <2>1
  <2>3. delivery' \in [Slots -> Deliveries] /\ spent' \in [Replicas -> 0..PerHour]
    BY <1>8, <1>t, <1>c, <1>d DEF ReplicaDies
  <2> QED BY <1>8, <1>t, <1>c, <2>2, <2>3 DEF ReplicaDies, NotifierTypeOK, Deliveries
<1>9. ASSUME NEW c \in Recipients, AddRecipient(c) PROVE NotifierTypeOK'
  BY <1>9, <1>t DEF AddRecipient, NotifierTypeOK, Deliveries
<1>10. ASSUME NEW r \in Reports, ClaimAges(r) PROVE NotifierTypeOK'
  BY <1>10, <1>t DEF ClaimAges, NotifierTypeOK, Deliveries
<1>11. ASSUME NEW r \in Reports, BackoffEnds(r) PROVE NotifierTypeOK'
  BY <1>11, <1>t DEF BackoffEnds, NotifierTypeOK, Deliveries
<1>12. ASSUME NEW p \in Replicas, SlotFrees(p) PROVE NotifierTypeOK'
  BY <1>12, <1>t, <1>c DEF SlotFrees, NotifierTypeOK, Deliveries
<1> QED BY <1>1, <1>2, <1>3, <1>4, <1>5, <1>6, <1>7, <1>8, <1>9, <1>10, <1>11, <1>12
        DEF NotifierNext, Notifying

-------------------------------------------------------------------------------
\* Steps that leave lanes, copies and marks alone.
LEMMA OthersKeepCount ==
  ASSUME NotifierInv, NotifierTypeOK',
         \A r \in Reports : AtIt(r)' = AtIt(r),
         \A r \in Reports, c \in Recipients :
           Sending(r, c)' = Sending(r, c) /\ Unrecorded(r, c)' = Unrecorded(r, c),
         \A r \in Reports : claim'[r] = "none" => claim[r] = "none",
         UNCHANGED <<notifiedTo, copies, overlaps, strays>>
  PROVE  NotifierInv'
BY DEF NotifierInv, LanesAreCounted, UnmarkedAreCounted, SendsAreCounted

LEMMA RestingLaneKeepsCount ==
  ASSUME NotifierInv, NotifierTypeOK', NEW s \in Slots, NEW d, delivery' = [delivery EXCEPT ![s] = d],
         delivery[s].at \notin {"send", "record"}, d.at \notin {"send", "record"},
         UNCHANGED <<claim, notifiedTo, copies, overlaps, strays>>
  PROVE  NotifierInv'
<1>1. \A r, c : s \notin AtIt(r) /\ s \notin Sending(r, c) /\ s \notin Unrecorded(r, c)
  BY DEF AtIt, Sending, Unrecorded
<1>2. \A r, c : AtIt(r)' = AtIt(r) /\ Sending(r, c)' = Sending(r, c) /\ Unrecorded(r, c)' = Unrecorded(r, c)
  <2>1. ASSUME NEW r, NEW c
        PROVE  AtIt(r)' = AtIt(r) /\ Sending(r, c)' = Sending(r, c) /\ Unrecorded(r, c)' = Unrecorded(r, c)
    <3>1. NotifierTypeOK /\ s \notin AtIt(r) /\ s \notin Sending(r, c) /\ s \notin Unrecorded(r, c)
      BY <1>1 DEF NotifierInv
    <3>2. delivery'[s] = d /\ \A t \in Slots : t # s => delivery'[t] = delivery[t]
      BY <3>1 DEF NotifierTypeOK
    <3>3. AtIt(r)' = AtIt(r)
      BY <3>1, <3>2 DEF AtIt
    <3>4. Sending(r, c)' = Sending(r, c)
      BY <3>1, <3>2 DEF Sending
    <3>5. Unrecorded(r, c)' = Unrecorded(r, c)
      BY <3>1, <3>2 DEF Unrecorded
    <3> QED BY <3>3, <3>4, <3>5
  <2> QED BY <2>1
<1> QED BY <1>2, OthersKeepCount

LEMMA ClaimKeepsCount ==
  ASSUME NotifierInv, NotifierTypeOK', NEW s \in Slots, Claim(s)
  PROVE  NotifierInv'
<1>1. PICK r \in Reports : r = delivery[s].of
  BY DeliveryShapes DEF Claim, NotifierInv
<1>2. PICK missing : missing = mailing \ notifiedTo[r]
  OBVIOUS
<1>3. PICK d : d = [at |-> "send", of |-> r, missing |-> missing]
  OBVIOUS
<1>4. /\ delivery[s].at = "claim" /\ delivery' = [delivery EXCEPT ![s] = d]
      /\ claim' = [claim EXCEPT ![r] = "fresh"] /\ claim[r] # "fresh"
      /\ overlaps' = [overlaps EXCEPT ![r] = IF claim[r] = "stale" /\ AtIt(r) # {} THEN @ + 1 ELSE @]
      /\ UNCHANGED <<notifiedTo, copies, strays>>
  BY <1>1, <1>2, <1>3 DEF Claim, Claimable
<1>5. \A q, c : s \notin AtIt(q) /\ s \notin Sending(q, c) /\ s \notin Unrecorded(q, c)
  BY <1>4 DEF AtIt, Sending, Unrecorded
<1>6. /\ d.at = "send" /\ d.of = r /\ d.missing = missing
      /\ \A q, c : /\ AtIt(q)' = IF q = r THEN AtIt(q) \cup {s} ELSE AtIt(q)
                   /\ Sending(q, c)' = IF q = r /\ c \in missing THEN Sending(q, c) \cup {s} ELSE Sending(q, c)
                   /\ Unrecorded(q, c)' = Unrecorded(q, c)
  <2>1. NotifierTypeOK /\ d.at = "send" /\ d.of = r /\ d.missing = missing
    BY <1>3 DEF NotifierInv
  <2>2. ASSUME NEW q, NEW c
        PROVE  /\ AtIt(q)' = IF q = r THEN AtIt(q) \cup {s} ELSE AtIt(q)
               /\ Sending(q, c)' = IF q = r /\ c \in missing THEN Sending(q, c) \cup {s} ELSE Sending(q, c)
               /\ Unrecorded(q, c)' = Unrecorded(q, c)
    <3>1. s \notin AtIt(q) /\ s \notin Sending(q, c) /\ s \notin Unrecorded(q, c)
      BY <1>5
    <3>2. delivery'[s] = d /\ \A t \in Slots : t # s => delivery'[t] = delivery[t]
      BY <1>4, <2>1 DEF NotifierTypeOK
    <3>3. AtIt(q)' = IF q = r THEN AtIt(q) \cup {s} ELSE AtIt(q)
      BY <2>1, <3>1, <3>2 DEF AtIt
    <3>4. Sending(q, c)' = IF q = r /\ c \in missing THEN Sending(q, c) \cup {s} ELSE Sending(q, c)
      BY <2>1, <3>1, <3>2 DEF Sending
    <3>5. Unrecorded(q, c)' = Unrecorded(q, c)
      BY <2>1, <3>1, <3>2 DEF Unrecorded
    <3> QED BY <3>3, <3>4, <3>5
  <2> QED BY <2>1, <2>2
<1>7. /\ overlaps[r] \in Nat /\ overlaps'[r] \in {overlaps[r], overlaps[r] + 1}
      /\ claim[r] = "stale" /\ AtIt(r) # {} => overlaps'[r] = overlaps[r] + 1
      /\ claim[r] \in {"none", "stale"} /\ claim'[r] = "fresh"
      /\ \A q \in Reports : q # r => overlaps'[q] = overlaps[q] /\ claim'[q] = claim[q]
  BY <1>4 DEF NotifierInv, NotifierTypeOK
<1>8. Cardinality(AtIt(r) \cup {s}) = Cardinality(AtIt(r)) + 1 /\ Cardinality({}) = 0
  BY <1>5, LaneSets, SlotSets, FS_EmptySet
<1>9. LanesAreCounted'
  <2>1. Cardinality(AtIt(r)) + 1 <= 1 + overlaps'[r]
    <3>1. /\ Cardinality(AtIt(r)) \in Nat /\ Cardinality(AtIt(r)) <= 1 + overlaps[r]
          /\ claim[r] = "none" => Cardinality(AtIt(r)) <= overlaps[r]
      BY LaneSets DEF NotifierInv, LanesAreCounted
    <3>2. AtIt(r) = {} => Cardinality(AtIt(r)) = 0
      BY <1>8
    <3> QED BY <1>7, <3>1, <3>2
  <2> QED BY <1>6, <1>7, <1>8, <2>1 DEF NotifierInv, LanesAreCounted
<1>10. UnmarkedAreCounted'
  BY <1>4, <1>6 DEF NotifierInv, UnmarkedAreCounted
<1>11. ASSUME NEW q \in Reports, NEW c \in Recipients
       PROVE  copies[q][c] + Cardinality(Sending(q, c)') <= 1 + overlaps'[q] + strays[q]
  <2>0. /\ copies[q][c] \in Nat /\ strays[q] \in Nat /\ overlaps[q] \in Nat /\ overlaps'[q] \in Nat
        /\ copies[q][c] + Cardinality(Sending(q, c)) <= 1 + overlaps[q] + strays[q]
        /\ Cardinality(Sending(q, c)) \in Nat /\ Cardinality(Unrecorded(q, c)) \in Nat
    BY LaneSets DEF NotifierInv, NotifierTypeOK, SendsAreCounted
  <2>1. CASE q # r
    BY <1>6, <1>7, <2>0, <2>1
  <2>2. CASE q = r /\ c \notin missing
    BY <1>6, <1>7, <2>0, <2>2
  <2>3. CASE q = r /\ c \in missing
    <3>1. copies[r][c] <= strays[r] + Cardinality(Unrecorded(r, c))
      BY <1>2, <2>3 DEF NotifierInv, UnmarkedAreCounted
    <3>2. /\ Cardinality(Sending(r, c)') = Cardinality(Sending(r, c)) + 1
          /\ Cardinality(AtIt(r)') = Cardinality(AtIt(r)) + 1
      BY <1>5, <1>6, <1>8, <2>3, LaneSets, SlotSets
    <3>3. Cardinality(Sending(r, c)) + Cardinality(Unrecorded(r, c)) <= Cardinality(AtIt(r))
      BY LaneSets
    <3>4. Cardinality(AtIt(r)') <= 1 + overlaps'[r] /\ Cardinality(AtIt(r)) \in Nat
      BY <1>9, LaneSets DEF LanesAreCounted
    <3> QED BY <2>0, <2>3, <3>1, <3>2, <3>3, <3>4
  <2> QED BY <2>1, <2>2, <2>3
<1>12. SendsAreCounted'
  BY <1>4, <1>11 DEF SendsAreCounted
<1> QED BY <1>9, <1>10, <1>12 DEF NotifierInv

LEMMA SendKeepsCount ==
  ASSUME NotifierInv, NotifierTypeOK', NEW s \in Slots, Send(s)
  PROVE  NotifierInv'
<1>1. PICK r \in Reports : r = delivery[s].of
  BY DeliveryShapes DEF Send, NotifierInv
<1>2. PICK missing \in SUBSET Recipients : missing = delivery[s].missing
  BY DeliveryShapes DEF Send, NotifierInv
<1>3. PICK out \in BOOLEAN, sent \in BOOLEAN :
        /\ copies' = [copies EXCEPT ![r] =
             [c \in Recipients |-> IF out /\ c \in missing THEN @[c] + 1 ELSE @[c]]]
        /\ delivery' = [delivery EXCEPT ![s] =
             [at |-> "record", of |-> r, missing |-> missing, sent |-> sent, out |-> out]]
  BY <1>1, <1>2 DEF Send
<1>4. PICK d : d = [at |-> "record", of |-> r, missing |-> missing, sent |-> sent, out |-> out]
  OBVIOUS
<1>5. /\ d.at = "record" /\ d.of = r /\ d.missing = missing /\ d.out = out
      /\ delivery' = [delivery EXCEPT ![s] = d]
      /\ delivery[s].at = "send" /\ UNCHANGED <<claim, notifiedTo, overlaps, strays>>
  BY <1>3, <1>4 DEF Send
<1>6. \A q, c : /\ s \in AtIt(q) <=> q = r
                /\ s \in Sending(q, c) <=> q = r /\ c \in missing
                /\ s \notin Unrecorded(q, c)
  BY <1>1, <1>2, <1>5 DEF AtIt, Sending, Unrecorded
<1>7. \A q, c : /\ AtIt(q)' = AtIt(q)
                /\ Sending(q, c)' = Sending(q, c) \ {s}
                /\ Unrecorded(q, c)' = IF q = r /\ c \in missing /\ out THEN Unrecorded(q, c) \cup {s}
                                                                       ELSE Unrecorded(q, c)
  <2>1. ASSUME NEW q, NEW c
        PROVE  /\ AtIt(q)' = AtIt(q)
               /\ Sending(q, c)' = Sending(q, c) \ {s}
               /\ Unrecorded(q, c)' = IF q = r /\ c \in missing /\ out THEN Unrecorded(q, c) \cup {s}
                                                                      ELSE Unrecorded(q, c)
    <3>1. NotifierTypeOK /\ s \notin Unrecorded(q, c) /\ (s \in AtIt(q) <=> q = r)
      BY <1>6 DEF NotifierInv
    <3>2. delivery'[s] = d /\ \A t \in Slots : t # s => delivery'[t] = delivery[t]
      BY <1>5, <3>1 DEF NotifierTypeOK
    <3>3. AtIt(q)' = AtIt(q)
      BY <1>5, <3>1, <3>2 DEF AtIt
    <3>4. Sending(q, c)' = Sending(q, c) \ {s}
      BY <1>5, <3>1, <3>2 DEF Sending
    <3>5. Unrecorded(q, c)' = IF q = r /\ c \in missing /\ out THEN Unrecorded(q, c) \cup {s} ELSE Unrecorded(q, c)
      BY <1>5, <3>1, <3>2 DEF Unrecorded
    <3> QED BY <3>3, <3>4, <3>5
  <2> QED BY <2>1
<1>8. \A q \in Reports, c \in Recipients :
        copies'[q][c] = IF q = r /\ c \in missing /\ out THEN copies[q][c] + 1 ELSE copies[q][c]
  BY <1>3 DEF NotifierInv, NotifierTypeOK
<1>9. LanesAreCounted'
  BY <1>5, <1>7 DEF NotifierInv, LanesAreCounted
<1>10. ASSUME NEW q \in Reports, NEW c \in Recipients
       PROVE  /\ c \notin notifiedTo[q] => copies'[q][c] <= strays[q] + Cardinality(Unrecorded(q, c)')
              /\ copies'[q][c] + Cardinality(Sending(q, c)') <= 1 + overlaps[q] + strays[q]
  <2>0. /\ copies[q][c] \in Nat /\ strays[q] \in Nat /\ overlaps[q] \in Nat
        /\ copies[q][c] + Cardinality(Sending(q, c)) <= 1 + overlaps[q] + strays[q]
        /\ c \notin notifiedTo[q] => copies[q][c] <= strays[q] + Cardinality(Unrecorded(q, c))
        /\ Cardinality(Sending(q, c)) \in Nat /\ Cardinality(Unrecorded(q, c)) \in Nat
    BY LaneSets DEF NotifierInv, NotifierTypeOK, SendsAreCounted, UnmarkedAreCounted
  <2>1. CASE q = r /\ c \in missing
    <3>1. /\ Cardinality(Sending(q, c)') = Cardinality(Sending(q, c)) - 1
          /\ Cardinality(Unrecorded(q, c)') = IF out THEN Cardinality(Unrecorded(q, c)) + 1
                                                     ELSE Cardinality(Unrecorded(q, c))
      <4>1. /\ Sending(q, c) \in SUBSET Slots /\ Unrecorded(q, c) \in SUBSET Slots
            /\ s \in Sending(q, c) /\ s \notin Unrecorded(q, c)
        BY <1>6, <2>1 DEF Sending, Unrecorded
      <4> QED BY <1>7, <2>1, <4>1, SlotSets
    <3> QED BY <1>8, <2>0, <2>1, <3>1
  <2>2. CASE ~(q = r /\ c \in missing)
    <3>1. Sending(q, c)' = Sending(q, c) /\ Unrecorded(q, c)' = Unrecorded(q, c)
      BY <1>6, <1>7, <2>2
    <3> QED BY <1>8, <2>0, <2>2, <3>1
  <2> QED BY <2>1, <2>2
<1>11. UnmarkedAreCounted' /\ SendsAreCounted'
  BY <1>5, <1>10 DEF UnmarkedAreCounted, SendsAreCounted
<1> QED BY <1>9, <1>11 DEF NotifierInv

LEMMA RecordKeepsCount ==
  ASSUME NotifierInv, NotifierTypeOK', NEW s \in Slots, Record(s)
  PROVE  NotifierInv'
<1>1. PICK r \in Reports : r = delivery[s].of
  BY DeliveryShapes DEF Record, NotifierInv
<1>2. PICK missing \in SUBSET Recipients, sent \in BOOLEAN, out \in BOOLEAN :
        missing = delivery[s].missing /\ sent = delivery[s].sent /\ out = delivery[s].out
  BY DeliveryShapes DEF Record, NotifierInv
<1>3. /\ delivery[s].at = "record"
      /\ notifiedTo' = [notifiedTo EXCEPT ![r] = IF sent THEN @ \cup missing ELSE @]
      /\ claim' = [claim EXCEPT ![r] = "none"]
      /\ strays' = [strays EXCEPT ![r] = IF out /\ ~sent THEN @ + 1 ELSE @]
      /\ delivery' = [delivery EXCEPT ![s] = NoDelivery]
      /\ UNCHANGED <<copies, overlaps>>
  BY <1>1, <1>2 DEF Record
<1>4. \A q, c : /\ s \in AtIt(q) <=> q = r
                /\ s \notin Sending(q, c)
                /\ s \in Unrecorded(q, c) <=> q = r /\ c \in missing /\ out
  BY <1>1, <1>2, <1>3 DEF AtIt, Sending, Unrecorded
<1>5. \A q, c : /\ AtIt(q)' = AtIt(q) \ {s}
                /\ Sending(q, c)' = Sending(q, c)
                /\ Unrecorded(q, c)' = Unrecorded(q, c) \ {s}
  <2>1. NoDelivery.at = "idle"
    BY DEF NoDelivery
  <2>2. ASSUME NEW q, NEW c
        PROVE  /\ AtIt(q)' = AtIt(q) \ {s}
               /\ Sending(q, c)' = Sending(q, c)
               /\ Unrecorded(q, c)' = Unrecorded(q, c) \ {s}
    <3>1. NotifierTypeOK /\ s \notin Sending(q, c)
      BY <1>4 DEF NotifierInv
    <3>2. delivery'[s] = NoDelivery /\ \A t \in Slots : t # s => delivery'[t] = delivery[t]
      BY <1>3, <3>1 DEF NotifierTypeOK
    <3>3. AtIt(q)' = AtIt(q) \ {s}
      BY <2>1, <3>1, <3>2 DEF AtIt
    <3>4. Sending(q, c)' = Sending(q, c)
      BY <2>1, <3>1, <3>2 DEF Sending
    <3>5. Unrecorded(q, c)' = Unrecorded(q, c) \ {s}
      BY <2>1, <3>1, <3>2 DEF Unrecorded
    <3> QED BY <3>3, <3>4, <3>5
  <2> QED BY <2>2
<1>6. LanesAreCounted'
  <2>1. ASSUME NEW q \in Reports
        PROVE  Cardinality(AtIt(q)') <= 1 + overlaps[q] /\ (claim'[q] = "none" => Cardinality(AtIt(q)') <= overlaps[q])
    <3>0. /\ overlaps[q] \in Nat /\ Cardinality(AtIt(q)) \in Nat
          /\ Cardinality(AtIt(q)) <= 1 + overlaps[q]
          /\ claim[q] = "none" => Cardinality(AtIt(q)) <= overlaps[q]
      BY LaneSets DEF NotifierInv, NotifierTypeOK, LanesAreCounted
    <3>1. CASE q = r
      <4>1. Cardinality(AtIt(q)') = Cardinality(AtIt(q)) - 1
        BY <1>4, <1>5, <3>1, LaneSets, SlotSets
      <4> QED BY <3>0, <4>1
    <3>2. CASE q # r
      <4>1. AtIt(q)' = AtIt(q) /\ claim'[q] = claim[q]
        <5>1. AtIt(q)' = AtIt(q)
          BY <1>4, <1>5, <3>2
        <5>2. claim'[q] = claim[q]
          BY <1>3, <3>2 DEF NotifierInv, NotifierTypeOK
        <5> QED BY <5>1, <5>2
      <4> QED BY <3>0, <4>1
    <3> QED BY <3>1, <3>2
  <2> QED BY <1>3, <2>1 DEF LanesAreCounted
<1>7. ASSUME NEW q \in Reports, NEW c \in Recipients
      PROVE  /\ c \notin notifiedTo'[q] => copies[q][c] <= strays'[q] + Cardinality(Unrecorded(q, c)')
             /\ copies[q][c] + Cardinality(Sending(q, c)') <= 1 + overlaps[q] + strays'[q]
  <2>0. /\ copies[q][c] \in Nat /\ strays[q] \in Nat /\ overlaps[q] \in Nat
        /\ copies[q][c] + Cardinality(Sending(q, c)) <= 1 + overlaps[q] + strays[q]
        /\ c \notin notifiedTo[q] => copies[q][c] <= strays[q] + Cardinality(Unrecorded(q, c))
        /\ Cardinality(Sending(q, c)) \in Nat /\ Cardinality(Unrecorded(q, c)) \in Nat
    BY LaneSets DEF NotifierInv, NotifierTypeOK, SendsAreCounted, UnmarkedAreCounted
  <2>1. strays'[q] = (IF q = r /\ out /\ ~sent THEN strays[q] + 1 ELSE strays[q])
        /\ notifiedTo'[q] = (IF q = r /\ sent THEN notifiedTo[q] \cup missing ELSE notifiedTo[q])
    BY <1>3 DEF NotifierInv, NotifierTypeOK
  <2>2. CASE q = r /\ c \in missing /\ out
    <3>1. Cardinality(Unrecorded(q, c)') = Cardinality(Unrecorded(q, c)) - 1
      <4>1. Unrecorded(q, c) \in SUBSET Slots /\ s \in Unrecorded(q, c)
        BY <1>4, <2>2 DEF Unrecorded
      <4> QED BY <1>5, <4>1, SlotSets
    <3> QED BY <1>5, <2>0, <2>1, <2>2, <3>1
  <2>3. CASE ~(q = r /\ c \in missing /\ out)
    <3>1. Unrecorded(q, c)' = Unrecorded(q, c)
      BY <1>4, <1>5, <2>3
    <3> QED BY <1>5, <2>0, <2>1, <3>1
  <2> QED BY <2>2, <2>3
<1>8. UnmarkedAreCounted' /\ SendsAreCounted'
  BY <1>3, <1>7 DEF UnmarkedAreCounted, SendsAreCounted
<1> QED BY <1>6, <1>8 DEF NotifierInv

LEMMA DeathKeepsCount ==
  ASSUME NotifierInv, NotifierTypeOK', NEW p \in Replicas, ReplicaDies(p)
  PROVE  NotifierInv'
<1> DEFINE Lost(r) == {s \in AtIt(r) : s[1] = p /\ delivery[s].at = "record" /\ delivery[s].out}
<1>1. /\ delivery' = [s \in Slots |-> IF s[1] = p THEN NoDelivery ELSE delivery[s]]
      /\ strays' = [r \in Reports |-> strays[r] + Cardinality(Lost(r))]
      /\ UNCHANGED <<notifiedTo, claim, copies, overlaps>>
  BY DEF ReplicaDies
<1>2. ASSUME NEW r \in Reports, NEW c \in Recipients
      PROVE  /\ AtIt(r)' \in SUBSET AtIt(r)
             /\ Sending(r, c)' \in SUBSET Sending(r, c)
             /\ Unrecorded(r, c) \in SUBSET (Unrecorded(r, c)' \cup Lost(r))
  BY <1>1 DEF AtIt, Sending, Unrecorded, NoDelivery
<1>3. ASSUME NEW r \in Reports, NEW c \in Recipients
      PROVE  /\ Cardinality(AtIt(r)') <= Cardinality(AtIt(r))
             /\ Cardinality(Sending(r, c)') <= Cardinality(Sending(r, c))
             /\ Cardinality(Unrecorded(r, c)) <= Cardinality(Unrecorded(r, c)') + Cardinality(Lost(r))
             /\ {Cardinality(AtIt(r)), Cardinality(AtIt(r)'), Cardinality(Sending(r, c)),
                 Cardinality(Sending(r, c)'), Cardinality(Unrecorded(r, c)),
                 Cardinality(Unrecorded(r, c)'), Cardinality(Lost(r))} \subseteq Nat
  <2>1. /\ AtIt(r) \in SUBSET Slots /\ AtIt(r)' \in SUBSET Slots /\ Lost(r) \in SUBSET Slots
        /\ Sending(r, c) \in SUBSET Slots /\ Sending(r, c)' \in SUBSET Slots
        /\ Unrecorded(r, c) \in SUBSET Slots /\ Unrecorded(r, c)' \in SUBSET Slots
    BY DEF AtIt, Sending, Unrecorded
  <2> HIDE DEF Lost
  <2>2. \A P, Q : IsFiniteSet(P) /\ IsFiniteSet(Q) =>
          Cardinality(P \cup Q) = Cardinality(P) + Cardinality(Q) - Cardinality(P \cap Q)
    BY FS_Union
  <2>3. \A P \in SUBSET Slots : /\ IsFiniteSet(P) /\ Cardinality(P) \in Nat
                                /\ \A Q \in SUBSET P : Cardinality(Q) <= Cardinality(P)
    BY SlotSets
  <2>4. Cardinality(Unrecorded(r, c)) <= Cardinality(Unrecorded(r, c)' \cup Lost(r))
    BY <1>2, <2>1, <2>3
  <2>5. Cardinality(Unrecorded(r, c)' \cap Lost(r)) \in Nat
    BY <2>1, <2>3
  <2>6. Cardinality(Unrecorded(r, c)' \cup Lost(r)) <= Cardinality(Unrecorded(r, c)') + Cardinality(Lost(r))
    <3>1. /\ Cardinality(Unrecorded(r, c)' \cup Lost(r))
               = Cardinality(Unrecorded(r, c)') + Cardinality(Lost(r)) - Cardinality(Unrecorded(r, c)' \cap Lost(r))
          /\ Cardinality(Unrecorded(r, c)') \in Nat /\ Cardinality(Lost(r)) \in Nat
      BY <2>1, <2>2, <2>3
    <3> QED BY <2>5, <3>1
  <2>7. Cardinality(Unrecorded(r, c)' \cup Lost(r)) \in Nat
    BY <2>1, <2>3
  <2> QED BY <1>2, <2>1, <2>3, <2>4, <2>6, <2>7
<1> HIDE DEF Lost
<1>4. \A r \in Reports : overlaps[r] \in Nat /\ strays[r] \in Nat /\ strays'[r] = strays[r] + Cardinality(Lost(r))
  BY <1>1 DEF NotifierInv, NotifierTypeOK
<1>5. LanesAreCounted'
  <2>1. ASSUME NEW r \in Reports
        PROVE  Cardinality(AtIt(r)') <= Cardinality(AtIt(r)) /\ {Cardinality(AtIt(r)), Cardinality(AtIt(r)')} \subseteq Nat
    <3>1. AtIt(r)' \in SUBSET AtIt(r) /\ AtIt(r) \in SUBSET Slots
      BY <1>1 DEF AtIt, NoDelivery
    <3>2. AtIt(r)' \in SUBSET Slots
      BY <3>1
    <3> QED BY <3>1, <3>2, SlotSets
  <2> QED BY <1>1, <1>4, <2>1 DEF NotifierInv, LanesAreCounted
<1>6. ASSUME NEW r \in Reports, NEW c \in Recipients
      PROVE  /\ c \notin notifiedTo[r] => copies[r][c] <= strays'[r] + Cardinality(Unrecorded(r, c)')
             /\ copies[r][c] + Cardinality(Sending(r, c)') <= 1 + overlaps[r] + strays'[r]
  <2>0. /\ copies[r][c] \in Nat
        /\ copies[r][c] + Cardinality(Sending(r, c)) <= 1 + overlaps[r] + strays[r]
        /\ c \notin notifiedTo[r] => copies[r][c] <= strays[r] + Cardinality(Unrecorded(r, c))
    BY DEF NotifierInv, NotifierTypeOK, SendsAreCounted, UnmarkedAreCounted
  <2> QED BY <1>3, <1>4, <2>0
<1>7. UnmarkedAreCounted' /\ SendsAreCounted'
  BY <1>1, <1>6 DEF UnmarkedAreCounted, SendsAreCounted
<1> QED BY <1>5, <1>7 DEF NotifierInv

LEMMA NotifierInvInit == NotifierInit => NotifierInv
<1> SUFFICES ASSUME NotifierInit PROVE NotifierInv
  OBVIOUS
<1>1. \A r, c : AtIt(r) = {} /\ Sending(r, c) = {} /\ Unrecorded(r, c) = {}
  BY DEF NotifierInit, AtIt, Sending, Unrecorded, NoDelivery
<1>2. NotifierTypeOK
  BY NotifierConstantTypes DEF NotifierInit, NotifierTypeOK
<1>3. Cardinality({}) = 0
  BY FS_EmptySet
<1> QED BY <1>1, <1>2, <1>3 DEF NotifierInit, NotifierInv, LanesAreCounted, UnmarkedAreCounted, SendsAreCounted

LEMMA NotifierInvNext == NotifierInv /\ [NotifierNext]_notifierVars => NotifierInv'
<1> SUFFICES ASSUME NotifierInv, [NotifierNext]_notifierVars PROVE NotifierInv'
  OBVIOUS
<1>0. NotifierTypeOK /\ NotifierTypeOK' /\ NoDelivery.at = "idle"
  BY NotifierTypes DEF NotifierInv, NoDelivery
<1>u. ASSUME UNCHANGED delivery
      PROVE  \A r, c : AtIt(r)' = AtIt(r) /\ Sending(r, c)' = Sending(r, c) /\ Unrecorded(r, c)' = Unrecorded(r, c)
  BY <1>u DEF AtIt, Sending, Unrecorded
<1>1. CASE UNCHANGED notifierVars
  BY <1>0, <1>1, <1>u, OthersKeepCount DEF notifierVars
<1>r. ASSUME NEW s \in Slots, NEW r \in Reports, Reserve(s, r), UNCHANGED <<claim, notifiedTo, copies, overlaps, strays>>
      PROVE  NotifierInv'
  BY <1>0, <1>r, RestingLaneKeepsCount DEF Reserve
<1>2. ASSUME NEW s \in Slots, NEW r \in Reports, File(s, r) PROVE NotifierInv'
  <2>1. CASE Reserve(s, r)
    BY <1>2, <1>r, <2>1 DEF File
  <2>2. CASE UNCHANGED delivery
    BY <1>0, <1>2, <1>u, <2>2, OthersKeepCount DEF File
  <2> QED BY <1>2, <2>1, <2>2 DEF File
<1>3. ASSUME NEW s \in Slots, NEW r \in Reports, Sweep(s, r) PROVE NotifierInv'
  BY <1>3, <1>r DEF Sweep
<1>4. ASSUME NEW s \in Slots, Claim(s) PROVE NotifierInv'
  BY <1>0, <1>4, ClaimKeepsCount
<1>5. ASSUME NEW s \in Slots, ClaimFails(s) PROVE NotifierInv'
  BY <1>0, <1>5, RestingLaneKeepsCount DEF ClaimFails
<1>6. ASSUME NEW s \in Slots, Send(s) PROVE NotifierInv'
  BY <1>0, <1>6, SendKeepsCount
<1>7. ASSUME NEW s \in Slots, Record(s) PROVE NotifierInv'
  BY <1>0, <1>7, RecordKeepsCount
<1>8. ASSUME NEW p \in Replicas, ReplicaDies(p) PROVE NotifierInv'
  BY <1>0, <1>8, DeathKeepsCount
<1>9. ASSUME NEW c \in Recipients, AddRecipient(c) PROVE NotifierInv'
  BY <1>0, <1>9, <1>u, OthersKeepCount DEF AddRecipient
<1>10. ASSUME NEW r \in Reports, ClaimAges(r) PROVE NotifierInv'
  <2>1. \A q \in Reports : claim'[q] = "none" => claim[q] = "none"
    BY <1>0, <1>10 DEF ClaimAges, NotifierTypeOK
  <2> QED BY <1>0, <1>10, <1>u, <2>1, OthersKeepCount DEF ClaimAges
<1>11. ASSUME NEW r \in Reports, BackoffEnds(r) PROVE NotifierInv'
  BY <1>0, <1>11, <1>u, OthersKeepCount DEF BackoffEnds
<1>12. ASSUME NEW p \in Replicas, SlotFrees(p) PROVE NotifierInv'
  BY <1>0, <1>12, <1>u, OthersKeepCount DEF SlotFrees
<1> QED BY <1>1, <1>2, <1>3, <1>4, <1>5, <1>6, <1>7, <1>8, <1>9, <1>10, <1>11, <1>12
        DEF NotifierNext, Notifying

\* The inductive invariant of feedback mail holds throughout (claims, deliveries
\* and their marks).
THEOREM NotifierInvariant == NotifierSpec => []NotifierInv
<1> QED BY NotifierInvInit, NotifierInvNext, PTL DEF NotifierSpec

\* Reports, claims, budgets and deliveries keep their types.
THEOREM NotifierTyped == NotifierSpec => []NotifierTypeOK
<1>1. NotifierInv => NotifierTypeOK
  BY DEF NotifierInv
<1> QED BY <1>1, NotifierInvariant, PTL

\* Nobody is sent a report twice but for claims taken over and mails unrecorded.
THEOREM CopiesStayAccounted == NotifierSpec => []CopiesAreAccounted
<1>1. NotifierInv => CopiesAreAccounted
  <2>1. SUFFICES ASSUME NotifierInv, NEW r \in Reports, NEW c \in Recipients
                 PROVE  copies[r][c] <= 1 + overlaps[r] + strays[r]
    BY DEF CopiesAreAccounted
  <2>2. Cardinality(Sending(r, c)) \in Nat /\ copies[r][c] \in Nat /\ overlaps[r] \in Nat /\ strays[r] \in Nat
    BY <2>1, LaneSets DEF NotifierInv, NotifierTypeOK
  <2> QED BY <2>1, <2>2 DEF NotifierInv, SendsAreCounted
<1> QED BY <1>1, NotifierInvariant, PTL

-------------------------------------------------------------------------------
(***************************************************************************)
(* The five side by side: each of them behaves as it does alone.           *)
(***************************************************************************)
LEMMA ServiceSteps ==
  ASSUME [ServicesNext]_servicesVars
  PROVE  /\ [OrderNext]_orderVars /\ [PacingNext]_pacingVars /\ [AuditNext]_auditVars
         /\ [NotifierNext]_notifierVars /\ [EsgNext]_esgVars
BY DEF ServicesNext, servicesVars

\* Services that share processes and a database and no state: what each of them
\* may do alone is what it does beside the others.
THEOREM ServicesAreTheirOwn ==
  ServicesSpec => OrderSpec /\ PacingSpec /\ AuditSpec /\ NotifierSpec /\ EsgSpec
<1>1. ServicesInit => OrderInit /\ PacingInit /\ AuditInit /\ NotifierInit /\ EsgInit
  BY DEF ServicesInit
<1>2. [ServicesNext]_servicesVars =>
        /\ [OrderNext]_orderVars /\ [PacingNext]_pacingVars /\ [AuditNext]_auditVars
        /\ [NotifierNext]_notifierVars /\ [EsgNext]_esgVars
  BY ServiceSteps
<1> QED
  BY <1>1, <1>2, PTL DEF ServicesSpec, OrderSpec, PacingSpec, AuditSpec, NotifierSpec, EsgSpec

\* Orders, refunds, audit records, reports and ESG workbooks keep their types.
THEOREM ServicesTyped == ServicesSpec => []ServicesTypeOK
<1>1. EsgInv => EsgTypeOK
  BY DEF EsgInv
<1>2. OrderTypeOK /\ PacingTypeOK /\ AuditTypeOK /\ NotifierTypeOK /\ EsgTypeOK => ServicesTypeOK
  BY DEF ServicesTypeOK
<1> QED
  BY <1>1, <1>2, ServicesAreTheirOwn, OrderTyped, PacingTyped, AuditTypes, NotifierTyped,
     EsgInvariant, PTL
===============================================================================
