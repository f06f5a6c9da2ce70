----------------------------- MODULE RefundPacing -----------------------------
(***************************************************************************)
(* The pace of automatic refunds (apps/web/server/extractionRefunds.ts):   *)
(* settleRun sums what the organisation was refunded over the last day and *)
(* pays only if that leaves room, or if it was nothing.  The sum and the   *)
(* credit are separate operations, and the upload screens and sweeps of    *)
(* several replicas settle the organisation's runs concurrently.  The      *)
(* authorize route (tokenRoutes.ts) returns a charge that could not be     *)
(* settled at the parser without asking for room, and the sum counts it.   *)
(*                                                                         *)
(* How a run comes to be owed a refund is module ExtractionBilling; here   *)
(* every quote is owed a fixed amount from some moment on.                 *)
(***************************************************************************)
EXTENDS Integers, FiniteSets, Functions

CONSTANTS
  Quotes,       \* paid runs of one organisation that are owed a refund
  Owed,         \* tokens owed for each by its settlement
  Charged,      \* tokens charged for each
  Settlers,     \* calls of settleRun that may run at once
  Allowance,    \* dailyRefundAllowance
  RefundDay,    \* DAY_MS, in ticks of the model's clock
  SweepWindow,  \* SWEEP_WINDOW_MS, in ticks
  TickLimit     \* bound of the model: the clock stops here

ASSUME PacingConstants ==
  /\ IsFiniteSet(Quotes)
  /\ Owed \in [Quotes -> Nat \ {0}]
  /\ Charged \in [Quotes -> Nat]
  /\ \A q \in Quotes : Owed[q] <= Charged[q]
  /\ Allowance \in Nat \ {0}
  /\ RefundDay \in Nat /\ SweepWindow \in Nat /\ TickLimit \in Nat

VARIABLES
  endedAt,      \* when each run ended and its refund fell due, -1 before
  refundedAt,   \* the createdAt of refund:<quote> in the ledger, -1 before
  unpaced,      \* quotes refunded by the authorize route, whatever the day's refunds
  settled,      \* quotes with a settlement on record
  settler,      \* what each call does next, and about which quote
  swept,        \* quotes settled or queued since the clock last moved
  tick,         \* the clock
  raced         \* history: refunds paid although another was paid since their sum

pacingVars == <<endedAt, refundedAt, unpaced, settled, settler, swept, tick, raced>>

NoCall == [at |-> "idle"]

Times == -1..TickLimit

PacingTypeOK ==
  /\ endedAt \in [Quotes -> Times]
  /\ refundedAt \in [Quotes -> Times]
  /\ unpaced \subseteq Quotes
  /\ settled \subseteq Quotes
  /\ settler \in [Settlers ->
       {NoCall} \cup [at : {"sum", "credit", "save"}, quote : Quotes, alone : BOOLEAN]]
  /\ swept \subseteq Quotes
  /\ tick \in 0..TickLimit
  /\ raced \subseteq Quotes

PacingInit ==
  /\ endedAt = [q \in Quotes |-> -1]
  /\ refundedAt = [q \in Quotes |-> -1]
  /\ unpaced = {}
  /\ settled = {}
  /\ settler = [s \in Settlers |-> NoCall]
  /\ swept = {}
  /\ tick = 0
  /\ raced = {}

-------------------------------------------------------------------------------
RunEnds(q) ==
  /\ endedAt[q] = -1
  /\ endedAt' = [endedAt EXCEPT ![q] = tick]
  /\ UNCHANGED <<refundedAt, unpaced, settled, settler, swept, tick, raced>>

\* What openRunDebits lists: runs of the last week that have no settlement.
OpenRuns == {q \in Quotes \ settled : endedAt[q] # -1 /\ tick - endedAt[q] <= SweepWindow}

\* settleRun, up to its decision: no settlement on record, and tokens owed.
Settle(s, q) ==
  /\ settler[s] = NoCall
  /\ q \in OpenRuns
  /\ settler' = [settler EXCEPT ![s] = [at |-> "sum", quote |-> q, alone |-> TRUE]]
  /\ UNCHANGED <<endedAt, refundedAt, unpaced, settled, swept, tick, raced>>

\* Refunds on the ledger since a moment, the settlements' and the authorize route's.
Recent == {q \in Quotes : refundedAt[q] # -1 /\ refundedAt[q] >= tick - RefundDay}

\* The authorize route returns the whole charge.
Refund == [q \in Quotes |-> IF q \in unpaced THEN Charged[q] ELSE Owed[q]]

RefundedSince == SumFunctionOnSet(Refund, Recent)

\* Mutated form: the refund at hand is not counted.
RoomLeft(q) == RefundedSince = 0 \/ RefundedSince <= Allowance

RoomFor(q) == RefundedSince = 0 \/ RefundedSince + Owed[q] <= Allowance

\* refundedSince, and the decision to pay now or to leave it to a later sweep.
Pace(s) ==
  /\ settler[s].at = "sum"
  /\ IF RoomFor(settler[s].quote)
     THEN settler' = [settler EXCEPT ![s].at = "credit"] /\ UNCHANGED swept
     ELSE settler' = [settler EXCEPT ![s] = NoCall] /\ swept' = swept \cup {settler[s].quote}
  /\ UNCHANGED <<endedAt, refundedAt, unpaced, settled, tick, raced>>

\* Calls that have their sum and not yet their credit are no longer alone.
Overtaken ==
  [t \in Settlers |->
     IF settler[t].at = "credit" THEN [settler[t] EXCEPT !.alone = FALSE] ELSE settler[t]]

\* creditTokens under refund:<quote>: a repeat moves nothing.
PayRefund(s) ==
  LET q == settler[s].quote IN
  /\ settler[s].at = "credit"
  /\ IF refundedAt[q] = -1
     THEN /\ refundedAt' = [refundedAt EXCEPT ![q] = tick]
          /\ raced' = IF settler[s].alone THEN raced ELSE raced \cup {q}
          /\ settler' = [Overtaken EXCEPT ![s].at = "save"]
     ELSE /\ settler' = [settler EXCEPT ![s].at = "save"]
          /\ UNCHANGED <<refundedAt, raced>>
  /\ UNCHANGED <<endedAt, unpaced, settled, swept, tick>>

\* The authorize route gives back a debit the parser did not settle: the whole
\* charge, with no look at the day's refunds, whether the quote ever runs or not.
AuthorizeRefund(q) ==
  /\ refundedAt[q] = -1
  /\ refundedAt' = [refundedAt EXCEPT ![q] = tick]
  /\ unpaced' = unpaced \cup {q}
  /\ settler' = Overtaken
  /\ UNCHANGED <<endedAt, settled, swept, tick, raced>>

\* saveSettlement: the first record of a quote stands.
SaveSettlement(s) ==
  /\ settler[s].at = "save"
  /\ settled' = settled \cup {settler[s].quote}
  /\ swept' = swept \cup {settler[s].quote}
  /\ settler' = [settler EXCEPT ![s] = NoCall]
  /\ UNCHANGED <<endedAt, refundedAt, unpaced, tick, raced>>

\* The call throws or its process dies; the next sweep takes the run up again,
\* and then finds the refund it may have paid among the day's.
SettleFails(s) ==
  /\ settler[s] # NoCall
  /\ settler' = [settler EXCEPT ![s] = NoCall]
  /\ UNCHANGED <<endedAt, refundedAt, unpaced, settled, swept, tick, raced>>

\* A tick of the clock is many sweeps long (a sweep is due every ten minutes):
\* by its end every open run has been looked at by one that got through.
SweepsAreDone == OpenRuns \subseteq swept /\ \A s \in Settlers : settler[s] = NoCall

PacingTick ==
  /\ tick < TickLimit
  /\ SweepsAreDone
  /\ tick' = tick + 1
  /\ swept' = {}
  /\ UNCHANGED <<endedAt, refundedAt, unpaced, settled, settler, raced>>

PacingNext ==
  \/ \E q \in Quotes : RunEnds(q) \/ AuthorizeRefund(q)
  \/ \E s \in Settlers :
       \/ \E q \in Quotes : Settle(s, q)
       \/ Pace(s) \/ PayRefund(s) \/ SaveSettlement(s) \/ SettleFails(s)
  \/ PacingTick

PacingSpec == PacingInit /\ [][PacingNext]_pacingVars

-------------------------------------------------------------------------------
(***************************************************************************)
(* Properties.                                                             *)
(***************************************************************************)

\* What the settlements pay is paced: over any rolling day, their refunds that
\* were not overtaken between the sum and the credit fit the allowance together,
\* or are one refund.  The authorize route's refunds and the overtaken ones are
\* outside this bound, but the sum is of the ledger, so both count against all
\* later refunds.
PaceHoldsUnlessRaced ==
  LET kept == Recent \ (raced \cup unpaced) IN
  Cardinality(kept) <= 1 \/ SumFunctionOnSet(Owed, kept) <= Allowance

\* Refunds are paced, not denied: whenever the sweeps leave a run unpaid, the
\* organisation was refunded something within the last day, by a settlement or
\* by the authorize route.  A refund larger than the allowance is paid too, once
\* a day passes without another.
WaitsOnlyForAnother ==
  SweepsAreDone => \A q \in OpenRuns : refundedAt[q] = -1 => Recent # {}

\* Both: the allowance bounds what settlements pay one after the other, and delays
\* what is owed no longer than the refunds that use it up.
RefundsArePaced == PaceHoldsUnlessRaced /\ WaitsOnlyForAnother

\* What the comment in settleRun says: refunds are paced per organisation,
\* never denied, and no single refund is stuck.  A run that the sweeps no
\* longer look at has been paid.
NeverDenied ==
  \A q \in Quotes : endedAt[q] # -1 /\ tick - endedAt[q] > SweepWindow => refundedAt[q] # -1
===============================================================================
