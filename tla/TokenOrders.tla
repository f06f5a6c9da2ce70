------------------------------ MODULE TokenOrders ------------------------------
(***************************************************************************)
(* Buying tokens (apps/web/server/tokenRoutes.ts): the order written at    *)
(* checkout, and the notifications of PayFast that alone settle it.        *)
(*                                                                         *)
(* PayFast is external.  It notifies every attempt on an order's payment   *)
(* page, possibly late and out of order, and repeats a notification until  *)
(* a request is answered with success: after a refusal, after a death of   *)
(* the request that served it, and after an answer that never reached it,  *)
(* when the first request may still be running on either replica.          *)
(*                                                                         *)
(* The wallet is used through what module IdempotentLedger promises: a     *)
(* credit is posted under its reference once, and a repeat recognised.     *)
(***************************************************************************)
EXTENDS Integers

CONSTANTS
  Orders,       \* token orders
  ProOrders,    \* those of a pack with grantsPro
  Requests,     \* webhook requests served at once, by all replicas
  VerdictsOf,   \* bound of the model: how the attempts to pay an order may end
  Term,         \* days of Pro a pack grants
  DayLimit,     \* bound of the model: the calendar stops here
  FaultLimit    \* bound of the model: deaths, refusals and lost answers

Verdicts == {"COMPLETE", "FAILED", "OTHER"}

ASSUME OrderConstants ==
  /\ ProOrders \subseteq Orders
  /\ VerdictsOf \in [Orders -> SUBSET Verdicts]
  /\ Term \in Nat \ {0}
  /\ DayLimit \in Nat
  /\ FaultLimit \in Nat

VARIABLES
  status,       \* tokenOrders.status, "none" before checkout
  due,          \* notifications PayFast has to deliver: <<order, verdict>>
  request,      \* what each webhook request does next, on which notification
  purchased,    \* orders whose credit purchase:<order> is in the ledger
  renewsAt,     \* organizations.planRenewsAt, 0 on the free plan
  day,          \* the calendar
  completed,    \* history: the day each order's payment completed, -1 before
  failures,     \* history: orders with an attempt that failed
  faults        \* counted for their bound

orderVars == <<status, due, request, purchased, renewsAt, day, completed, failures, faults>>

Notifications == Orders \X Verdicts

Free == [at |-> "free"]

Serving(stage, n) == [at |-> stage, about |-> n]

OrderTypeOK ==
  /\ status \in [Orders -> {"none", "pending", "failed", "paid"}]
  /\ due \subseteq Notifications
  /\ request \in [Requests ->
       {Free} \cup [at : {"verify", "fail", "credit", "plan", "pay", "answer"}, about : Notifications]]
  /\ purchased \subseteq Orders
  /\ day \in 0..DayLimit
  /\ renewsAt \in {0} \cup Term..(DayLimit + Term)
  /\ completed \in [Orders -> -1..DayLimit]
  /\ failures \subseteq Orders
  /\ faults \in 0..FaultLimit

OrderInit ==
  /\ status = [o \in Orders |-> "none"]
  /\ due = {}
  /\ request = [r \in Requests |-> Free]
  /\ purchased = {}
  /\ renewsAt = 0
  /\ day = 0
  /\ completed = [o \in Orders |-> -1]
  /\ failures = {}
  /\ faults = 0

-------------------------------------------------------------------------------
\* POST checkout: the order record is written before the redirect exists.
Checkout(o) ==
  /\ status[o] = "none"
  /\ status' = [status EXCEPT ![o] = "pending"]
  /\ UNCHANGED <<due, request, purchased, renewsAt, day, completed, failures, faults>>

\* PayFast's page: an attempt ends, and will be notified.  OTHER stands for a
\* cancelled attempt and for a payment of another amount.  Nobody pays twice.
Attempt(o, verdict) ==
  /\ status[o] # "none"
  /\ completed[o] = -1
  /\ verdict \in VerdictsOf[o]
  /\ due' = due \cup {<<o, verdict>>}
  /\ completed' = IF verdict = "COMPLETE" THEN [completed EXCEPT ![o] = day] ELSE completed
  /\ failures' = IF verdict = "FAILED" THEN failures \cup {o} ELSE failures
  /\ UNCHANGED <<status, request, purchased, renewsAt, day, faults>>

\* PayFast posts a notification it has no success for.
Notify(r, n) ==
  /\ request[r] = Free
  /\ n \in due
  /\ request' = [request EXCEPT ![r] = Serving("verify", n)]
  /\ UNCHANGED <<status, due, purchased, renewsAt, day, completed, failures, faults>>

At(r, stage) == request[r].at = stage

OrderOf(r) == request[r].about[1]

GoTo(r, stage) == request' = [request EXCEPT ![r] = Serving(stage, request[r].about)]

\* Mutated form: only an order that is still pending is settled.
VerifyPending(r) ==
  /\ At(r, "verify")
  /\ GoTo(r, CASE status[OrderOf(r)] # "pending" -> "answer"
               [] request[r].about[2] = "COMPLETE" -> "credit"
               [] request[r].about[2] = "FAILED" -> "fail"
               [] OTHER -> "answer")
  /\ UNCHANGED <<status, due, purchased, renewsAt, day, completed, failures, faults>>

\* verifyTokenItn, the order's record, the status and the amount of the
\* notification.  What the later steps use of the record never changes.
Verify(r) ==
  /\ At(r, "verify")
  /\ GoTo(r, CASE request[r].about[2] = "COMPLETE" -> "credit"
               [] request[r].about[2] = "FAILED" -> "fail"
               [] request[r].about[2] = "OTHER" -> "answer")
  /\ UNCHANGED <<status, due, purchased, renewsAt, day, completed, failures, faults>>

\* The update of a FAILED notification asks nothing of the order's status.
MarkFailed(r) ==
  /\ At(r, "fail")
  /\ status' = [status EXCEPT ![OrderOf(r)] = "failed"]
  /\ GoTo(r, "answer")
  /\ UNCHANGED <<due, purchased, renewsAt, day, completed, failures, faults>>

\* Mutated form: a repeated credit is taken to mean that all of it was done.
CreditOrSkip(r) ==
  /\ At(r, "credit")
  /\ purchased' = purchased \cup {OrderOf(r)}
  /\ GoTo(r, CASE OrderOf(r) \in purchased -> "answer"
               [] OrderOf(r) \in ProOrders -> "plan"
               [] OTHER -> "pay")
  /\ UNCHANGED <<status, due, renewsAt, day, completed, failures, faults>>

\* creditTokens under purchase:<order>; it does not matter which request it is
\* that posts it, every one goes on to what comes after.
Credit(r) ==
  /\ At(r, "credit")
  /\ purchased' = purchased \cup {OrderOf(r)}
  /\ GoTo(r, IF OrderOf(r) \in ProOrders THEN "plan" ELSE "pay")
  /\ UNCHANGED <<status, due, renewsAt, day, completed, failures, faults>>

\* Mutated form: a term that still runs is left as it is.
GrantProIfOver(r) ==
  /\ At(r, "plan")
  /\ renewsAt' = IF renewsAt > day THEN renewsAt ELSE day + Term
  /\ GoTo(r, "pay")
  /\ UNCHANGED <<status, due, purchased, day, completed, failures, faults>>

\* setPlan("pro", now + term): one update, within the day it is computed.
GrantPro(r) ==
  /\ At(r, "plan")
  /\ renewsAt' = day + Term
  /\ GoTo(r, "pay")
  /\ UNCHANGED <<status, due, purchased, day, completed, failures, faults>>

\* The order is paid once all it buys has been handed over.
MarkPaid(r) ==
  /\ At(r, "pay")
  /\ status' = [status EXCEPT ![OrderOf(r)] = "paid"]
  /\ GoTo(r, "answer")
  /\ UNCHANGED <<due, purchased, renewsAt, day, completed, failures, faults>>

\* Success: PayFast stops repeating this notification, if it hears it.
Answer(r) ==
  /\ At(r, "answer")
  /\ due' = due \ {request[r].about}
  /\ request' = [request EXCEPT ![r] = Free]
  /\ UNCHANGED <<status, purchased, renewsAt, day, completed, failures, faults>>

\* The verification fails, an operation throws, the process dies, or the answer
\* is lost: what the request did stays, the notification will come again.
Fault(r) ==
  /\ request[r] # Free
  /\ faults < FaultLimit
  /\ faults' = faults + 1
  /\ request' = [request EXCEPT ![r] = Free]
  /\ UNCHANGED <<status, due, purchased, renewsAt, day, completed, failures>>

NextDay ==
  /\ day < DayLimit
  /\ day' = day + 1
  /\ UNCHANGED <<status, due, request, purchased, renewsAt, completed, failures, faults>>

Serve(r) ==
  \/ Verify(r) \/ MarkFailed(r) \/ Credit(r) \/ GrantPro(r) \/ MarkPaid(r) \/ Answer(r)

Post(n) == \E r \in Requests : Notify(r, n)

OrderNext ==
  \/ \E o \in Orders : Checkout(o) \/ \E v \in Verdicts : Attempt(o, v)
  \/ \E n \in Notifications : Post(n)
  \/ \E r \in Requests : Serve(r) \/ Fault(r)
  \/ NextDay

OrderSpec == OrderInit /\ [][OrderNext]_orderVars

\* PayFast repeats what has not succeeded, for each payment, and a request that
\* has not died is served to its end.
FairOrderSpec ==
  /\ OrderSpec
  /\ \A o \in Orders : SF_orderVars(Post(<<o, "COMPLETE">>))
  /\ \A r \in Requests : WF_orderVars(Serve(r))

-------------------------------------------------------------------------------
(***************************************************************************)
(* Properties.                                                             *)
(***************************************************************************)

\* An order says paid only when everything it buys has been handed over: the
\* tokens are in the ledger and Pro runs for a full term from the day the money
\* came, whichever of several requests wrote the status and wherever earlier
\* ones died.  (Orders of packs with one term: tokenPacks.ts has one such pack.)
PaidIsDelivered ==
  \A o \in Orders : status[o] = "paid" =>
    /\ o \in purchased
    /\ o \in ProOrders => renewsAt >= completed[o] + Term

\* No payment is lost between its notification and its order: once PayFast has
\* heard success of an order's payment and no request serves the order, the
\* tokens are there, and its status is paid, or failed because an attempt that
\* did fail was notified after it, which the handler allows.
Quiet(o) ==
  /\ \A n \in due : n[1] # o
  /\ \A r \in Requests : request[r] # Free => OrderOf(r) # o

AnsweredIsSettled ==
  \A o \in Orders : completed[o] # -1 /\ Quiet(o) =>
    /\ o \in purchased
    /\ o \in ProOrders => renewsAt >= completed[o] + Term
    /\ status[o] \in {"paid", "failed"}
    /\ status[o] = "failed" => o \in failures

\* Every completed payment is credited, whatever requests die on the way, and
\* grants the plan it pays for: a handler that died in between is not taken for
\* one that finished.
PaymentsAreDelivered ==
  []<>(\A o \in Orders : completed[o] # -1 =>
         o \in purchased /\ (o \in ProOrders => renewsAt >= completed[o] + Term))
===============================================================================
