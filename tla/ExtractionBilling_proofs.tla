----------------------- MODULE ExtractionBilling_proofs -----------------------
(***************************************************************************)
(* Theorems about ExtractionBilling: for any requests, runs, settlers and  *)
(* documents, any costs, any times and any number of faults.               *)
(*                                                                         *)
(* Three facts carry them.  Before the debit nothing else happens.  A run  *)
(* claims the quote once, so what is known of it stays.  What a settler    *)
(* decided stays warranted while others void, claim and refund beside it.  *)
(***************************************************************************)
EXTENDS ExtractionBilling, FiniteSums

\* Before the debit: nobody is past it, the parser was told of no payment, and
\* nothing is claimed, refunded or settled.
NothingBeforeDebit ==
  debitAt = None =>
    /\ startedAt = None /\ refund = None /\ fresh = {}
    /\ quote # Absent => quote.status # "paid"
    /\ \A a \in Authorizers : authorizer[a] \in {"read", "debit", "ended"} /\ handler[a] = "idle"
    /\ \A r \in Runs : run[r] # "claim"
    /\ \A s \in Settlers : settler[s] = "idle"

\* The mark of a claim, and the one run that set it: it has not reported yet.
ClaimIsOne ==
  /\ quote # Absent => (quote.consumedAt <=> startedAt # None)
  /\ \A r, q \in Runs : run[r] = "running" /\ run[q] = "running" => r = q
  /\ \A r \in Runs : run[r] = "running" => startedAt # None /\ report = None
  /\ report # None => startedAt # None

\* Nobody claims the quote any more, and nobody has.
Closed == startedAt = None /\ (quote # Absent => quote.voidedAt)

\* What a refund of part of the charge rests on.
Evidence(tokens) ==
  /\ report # None
  /\ report.status = "resolved" /\ report.delivered /\ report.attributed
  /\ report.empty # Files
  /\ tokens <= CostOf(report.empty)

\* What a charge that stands rests on.
Delivered ==
  /\ startedAt # None
  /\ reports => report # None /\ report.status = "resolved" /\ report.delivered /\ ~report.blank

Warranted(d) ==
  /\ d.tokens <= Charge
  /\ d.label = "never ran" => Closed
  /\ d.label = "partly" => Evidence(d.tokens)

\* What a settler carries, at each of its steps.
Carries(s) ==
  /\ settler[s] \in {"void", "credit", "look", "save"} => decision[s] # None
  /\ settler[s] = "void" => decision[s] = Refund(Charge, "never ran")
  /\ settler[s] = "credit" => Warranted(decision[s])
  /\ settler[s] \in {"look", "save"} /\ refund = None => Delivered
  /\ settler[s] = "save" /\ decision[s].tokens # 0 =>
       refund # None /\ refund.tokens = decision[s].tokens

BillingInv ==
  /\ TypeOK
  /\ NothingBeforeDebit
  /\ ClaimIsOne
  /\ refund # None => Warranted(refund)
  /\ \A s \in Settlers : Carries(s)
  /\ ChargeStandsOnlyIfDelivered
  /\ SettlementNeverOverstates

-------------------------------------------------------------------------------
\* No record is absent; what was quoted is one, unpaid and unclaimed.
LEMMA Quoted ==
  /\ Absent \notin Record
  /\ NewQuote \in Record
  /\ NewQuote.status # "paid" /\ ~NewQuote.consumedAt
BY TimesAssumption DEF NewQuote, Record, Statuses, Absent, Later

\* What the four writes that occur here leave of a record.
LEMMA WrittenMarks ==
  ASSUME NEW w \in {"settle", "claim", "void", "outcome"}, NEW rec \in Record, NEW t \in Nat
  PROVE  /\ Written(w, rec, t) \in Record
         /\ Written(w, rec, t).status = IF w = "settle" THEN "paid" ELSE rec.status
         /\ Written(w, rec, t).consumedAt <=> rec.consumedAt \/ w = "claim"
         /\ Written(w, rec, t).voidedAt <=> rec.voidedAt \/ w = "void"
<1> DEFINE p == Patched(w, rec)
<1>1. /\ p \in Record
      /\ p.status = IF w = "settle" THEN "paid" ELSE rec.status
      /\ p.consumedAt <=> rec.consumedAt \/ w = "claim"
      /\ p.voidedAt <=> rec.voidedAt \/ w = "void"
  <2>1. CASE w = "settle"
    BY <2>1 DEF Patched, Record, Statuses, Payments
  <2>2. CASE w = "claim"
    BY <2>2 DEF Patched, Record, Statuses, Payments
  <2>3. CASE w = "void"
    BY <2>3 DEF Patched, Record, Statuses, Payments
  <2>4. CASE w = "outcome"
    BY <2>4 DEF Patched, Record, Statuses, Payments
  <2> QED BY <2>1, <2>2, <2>3, <2>4
<1> HIDE DEF p
<1>2. Deadline(p, t) \in Nat
  BY <1>1, TimesAssumption DEF Deadline, Later
<1>3. Written(w, rec, t) = [p EXCEPT !.deadline = Deadline(p, t)]
  BY DEF Written, p
<1> QED BY <1>1, <1>2, <1>3 DEF Record

\* The cost of some of the documents, and the smaller of two numbers.
LEMMA CostIsNatural == \A docs \in SUBSET Files : CostOf(docs) \in Nat
  BY BillingAssumption, SumOfNaturals DEF CostOf

LEMMA MinOfTwo ==
  ASSUME NEW x \in Nat, NEW y \in Nat
  PROVE  Min({x, y}) \in Nat /\ Min({x, y}) <= x /\ Min({x, y}) <= y
<1>1. \E m \in {x, y} : \A n \in {x, y} : m <= n
  <2>1. CASE x <= y
    BY <2>1
  <2>2. CASE y <= x
    BY <2>2
  <2> QED BY <2>1, <2>2
<1>2. Min({x, y}) \in {x, y} /\ \A n \in {x, y} : Min({x, y}) <= n
  BY <1>1 DEF Min
<1> QED BY <1>2

LEMMA ChargeIsPositive == Charge \in Nat /\ Charge # 0 /\ Charge <= Charge
<1>1. Charge \in Nat \ {0}
  BY BillingAssumption
<1> QED BY <1>1

\* Refunds are records; any refund within the charge that claims neither that the
\* run never was nor that it failed in part is warranted.
LEMMA RefundFacts ==
  ASSUME NEW n \in Nat, NEW l \in Labels
  PROVE  /\ Refund(n, l) \in Refunds
         /\ Refund(n, l).tokens = n /\ Refund(n, l).label = l
         /\ n <= Charge /\ l \notin {"never ran", "partly"} => Warranted(Refund(n, l))
BY DEF Refund, Refunds, Warranted

LEMMA AllFacts ==
  ASSUME NEW l \in Labels \ {"never ran", "partly"}
  PROVE  /\ All(l).kind = "settle"
         /\ Refund(All(l).tokens, All(l).label) \in Refunds
         /\ Warranted(Refund(All(l).tokens, All(l).label))
         /\ All(l).label = l /\ All(l).tokens # 0
<1>2. All(l).kind = "settle" /\ All(l).tokens = Charge /\ All(l).label = l
  BY DEF All
<1>3. Refund(Charge, l) \in Refunds /\ Warranted(Refund(Charge, l))
  BY ChargeIsPositive, RefundFacts
<1> QED BY <1>2, <1>3, ChargeIsPositive

LEMMA NothingFacts ==
  /\ Nothing.kind = "settle" /\ Nothing.tokens = 0 /\ Nothing.label = "none"
  /\ Refund(Nothing.tokens, Nothing.label) \in Refunds
  /\ Warranted(Refund(Nothing.tokens, Nothing.label))
<1>1. Charge \in Nat
  BY BillingAssumption
<1>2. Nothing.kind = "settle" /\ Nothing.tokens = 0 /\ Nothing.label = "none"
  BY DEF Nothing
<1>3. "none" \in Labels /\ "none" \notin {"never ran", "partly"}
  BY DEF Labels
<1>4. 0 \in Nat /\ 0 <= Charge
  BY <1>1
<1>5. Refund(0, "none") \in Refunds /\ Warranted(Refund(0, "none"))
  BY <1>3, <1>4, RefundFacts
<1> QED BY <1>2, <1>5

\* What is decided of a recorded outcome is within the charge; nothing is let
\* stand that was not delivered; a part is refunded on evidence.
LEMMA OutcomeIsJudged ==
  ASSUME NEW rep \in Reports, report = rep, startedAt # None
  PROVE  /\ DecideOutcome(rep).kind = "settle"
         /\ Refund(DecideOutcome(rep).tokens, DecideOutcome(rep).label) \in Refunds
         /\ Warranted(Refund(DecideOutcome(rep).tokens, DecideOutcome(rep).label))
         /\ DecideOutcome(rep).tokens = 0 => Delivered
<1>1. CASE rep.status = "error"
  <2>1. DecideOutcome(rep) = All("failed") /\ "failed" \in Labels
    BY <1>1 DEF DecideOutcome, Labels
  <2> QED BY <2>1, AllFacts
<1>2. CASE rep.status = "failed"
  <2>1. DecideOutcome(rep) = All("unread") /\ "unread" \in Labels
    BY <1>2 DEF DecideOutcome, Labels
  <2> QED BY <2>1, AllFacts
<1>3. CASE rep.status # "error" /\ rep.status # "failed"
  <2>1. rep \in Resolved /\ rep.status = "resolved" /\ rep.empty \in SUBSET Files
        /\ rep.delivered \in BOOLEAN /\ rep.blank \in BOOLEAN /\ rep.attributed \in BOOLEAN
    BY <1>3 DEF Reports, Resolved
  <2>2. CASE ~rep.delivered
    <3>1. DecideOutcome(rep) = All("undelivered") /\ "undelivered" \in Labels
      BY <2>1, <2>2 DEF DecideOutcome, Labels
    <3> QED BY <3>1, AllFacts
  <2>3. CASE rep.delivered /\ rep.blank
    <3>1. DecideOutcome(rep) = All("unread") /\ "unread" \in Labels
      BY <2>1, <2>3 DEF DecideOutcome, Labels
    <3> QED BY <3>1, AllFacts
  <2>4. CASE rep.delivered /\ ~rep.blank
    <3>1. Delivered
      BY <2>1, <2>4, NoneAssumption DEF Delivered
    <3>2. CASE ~rep.attributed \/ rep.empty = {}
      <4>1. DecideOutcome(rep) = Nothing
        BY <2>1, <2>4, <3>2 DEF DecideOutcome
      <4> QED BY <3>1, <4>1, NothingFacts
    <3>3. CASE rep.attributed /\ rep.empty # {}
      <4> DEFINE m == Min({Charge, CostOf(rep.empty)})
      <4>1. m \in Nat /\ m <= Charge /\ m <= CostOf(rep.empty)
        BY <2>1, BillingAssumption, CostIsNatural, MinOfTwo
      <4>2. DecideOutcome(rep) = [kind |-> "settle", label |-> "partly", tokens |-> m]
        BY <2>1, <2>4, <3>3 DEF DecideOutcome
      <4>3. rep.empty # Files
        BY <2>1, <2>4, <3>3 DEF Resolved
      <4> HIDE DEF m
      <4>4. Evidence(m)
        BY <2>1, <2>4, <3>3, <4>1, <4>3, NoneAssumption DEF Evidence
      <4>5. "partly" \in Labels /\ "partly" # "never ran"
        BY DEF Labels
      <4>6. Refund(m, "partly") \in Refunds /\ Warranted(Refund(m, "partly"))
        BY <4>1, <4>4, <4>5, RefundFacts DEF Warranted
      <4> QED BY <3>1, <4>2, <4>6
    <3> QED BY <2>1, <3>2, <3>3
  <2> QED BY <2>1, <2>2, <2>3, <2>4
<1> QED BY <1>1, <1>2, <1>3

\* What decideRefund answers, of the record as it stands: a void comes only with
\* the whole charge; what is settled is warranted.
LEMMA DecisionIsWarranted ==
  ASSUME BillingInv, quote # Absent, NEW t, DecideRefund(t) # Wait
  PROVE  /\ DecideRefund(t).kind \in {"void", "settle"}
         /\ Refund(DecideRefund(t).tokens, DecideRefund(t).label) \in Refunds
         /\ DecideRefund(t).kind = "void" =>
              Refund(DecideRefund(t).tokens, DecideRefund(t).label) = Refund(Charge, "never ran")
         /\ DecideRefund(t).kind = "settle" =>
              /\ Warranted(Refund(DecideRefund(t).tokens, DecideRefund(t).label))
              /\ DecideRefund(t).tokens = 0 => Delivered
<1>0. Charge \in Nat /\ Charge # 0 /\ Charge <= Charge
  BY ChargeIsPositive
<1> DEFINE whole == Refund(Charge, "never ran")
<1>7. whole \in Refunds /\ whole.tokens = Charge /\ whole.label = "never ran"
  BY <1>0, RefundFacts DEF Labels
<1>1. /\ quote.consumedAt <=> startedAt # None
      /\ quote.consumedAt \in BOOLEAN /\ quote.voidedAt \in BOOLEAN /\ reports \in BOOLEAN
      /\ report \in Reports \cup {None}
  BY DEF BillingInv, ClaimIsOne, TypeOK, Record
<1>2. CASE ~quote.consumedAt /\ quote.voidedAt
  <2>1. DecideRefund(t) = All("never ran")
    BY <1>2 DEF DecideRefund
  <2>2. All("never ran").kind = "settle" /\ All("never ran").label = "never ran"
        /\ All("never ran").tokens = Charge
    BY DEF All
  <2>3. Closed
    BY <1>1, <1>2 DEF Closed
  <2>4. Warranted(whole)
    BY <1>0, <1>7, <2>3 DEF Warranted
  <2> QED BY <1>0, <1>7, <2>1, <2>2, <2>4
<1>3. CASE ~quote.consumedAt /\ ~quote.voidedAt
  <2> DEFINE v == [kind |-> "void", tokens |-> Charge, label |-> "never ran"]
  <2>1. DecideRefund(t) = v
    BY <1>3 DEF DecideRefund
  <2>2. v.kind = "void" /\ v.tokens = Charge /\ v.label = "never ran"
    OBVIOUS
  <2> HIDE DEF v
  <2> QED BY <1>7, <2>1, <2>2
<1>4. CASE quote.consumedAt /\ ~reports
  <2>1. DecideRefund(t) = Nothing
    BY <1>4 DEF DecideRefund
  <2>2. Delivered
    BY <1>1, <1>4 DEF Delivered
  <2> QED BY <2>1, <2>2, NothingFacts
<1>5. CASE quote.consumedAt /\ reports /\ report = None
  <2>1. DecideRefund(t) = All("stopped")
    BY <1>5 DEF DecideRefund
  <2>2. "stopped" \in Labels \ {"never ran", "partly"}
    BY DEF Labels
  <2>3. /\ All("stopped").kind = "settle" /\ All("stopped").tokens # 0
        /\ Refund(All("stopped").tokens, All("stopped").label) \in Refunds
        /\ Warranted(Refund(All("stopped").tokens, All("stopped").label))
    BY <2>2, AllFacts
  <2> QED BY <2>1, <2>3
<1>6. CASE quote.consumedAt /\ reports /\ report # None
  <2>1. DecideRefund(t) = DecideOutcome(report)
    BY <1>6 DEF DecideRefund
  <2>2. report \in Reports /\ startedAt # None
    BY <1>1, <1>6
  <2> QED BY <2>1, <2>2, OutcomeIsJudged
<1> QED BY <1>1, <1>2, <1>3, <1>4, <1>5, <1>6

-------------------------------------------------------------------------------
\* What a step must not take back: that the quote is closed, the evidence of a
\* run, that its result was delivered, and a refund that was paid.
KnownStays ==
  /\ Closed => Closed'
  /\ \A n \in Nat : Evidence(n) => Evidence(n)'
  /\ Delivered => Delivered'
  /\ refund # None => refund' = refund

LEMMA WarrantStays ==
  ASSUME KnownStays, NEW d \in Refunds, Warranted(d)
  PROVE  /\ d.tokens <= Charge
         /\ d.label = "never ran" => Closed'
         /\ d.label = "partly" => Evidence(d.tokens)'
BY DEF KnownStays, Warranted, Refunds

\* A settler that does not move carries what it carried.
LEMMA CarriesStays ==
  ASSUME BillingInv, KnownStays, NEW s \in Settlers,
         settler'[s] = settler[s], decision'[s] = decision[s]
  PROVE  Carries(s)'
<1>1. Carries(s) /\ decision[s] \in Refunds \cup {None}
  BY DEF BillingInv, TypeOK
<1>2. settler[s] = "credit" => Warranted(decision[s])'
  <2>1. SUFFICES ASSUME settler[s] = "credit" PROVE Warranted(decision[s])'
    OBVIOUS
  <2>2. decision[s] \in Refunds /\ Warranted(decision[s])
    BY <1>1, <2>1 DEF Carries
  <2> QED BY <2>2, WarrantStays DEF Warranted
<1> QED BY <1>1, <1>2 DEF Carries, KnownStays

\* Nothing is settled otherwise: what is settled stays right.
LEMMA SettledStays ==
  ASSUME BillingInv, KnownStays, settlement' = settlement
  PROVE  ChargeStandsOnlyIfDelivered' /\ SettlementNeverOverstates'
BY DEF BillingInv, KnownStays, ChargeStandsOnlyIfDelivered, SettlementNeverOverstates, Delivered

\* A refund that was paid stays warranted.
LEMMA RefundStaysWarranted ==
  ASSUME BillingInv, KnownStays, refund' = refund
  PROVE  refund' # None => Warranted(refund)'
<1>1. SUFFICES ASSUME refund # None PROVE Warranted(refund)'
  OBVIOUS
<1>2. refund \in Refunds /\ Warranted(refund)
  BY <1>1 DEF BillingInv, TypeOK
<1> QED BY <1>2, WarrantStays DEF Warranted

\* A step of no settler that keeps what is known keeps the invariant.
LEMMA StepOfOthers ==
  ASSUME BillingInv, TypeOK', NothingBeforeDebit', ClaimIsOne', KnownStays,
         refund' # None => Warranted(refund)', UNCHANGED <<settlement, settlerVars>>
  PROVE  BillingInv'
<1>1. \A s \in Settlers : Carries(s)'
  BY CarriesStays DEF settlerVars
<1> QED BY <1>1, SettledStays DEF BillingInv

\* A step of settler s keeps it if what s then carries is right.
LEMMA StepOfSettler ==
  ASSUME BillingInv, TypeOK', NothingBeforeDebit', ClaimIsOne', KnownStays,
         refund' # None => Warranted(refund)',
         ChargeStandsOnlyIfDelivered', SettlementNeverOverstates',
         NEW s \in Settlers, Carries(s)',
         \A x \in Settlers \ {s} : settler'[x] = settler[x] /\ decision'[x] = decision[x]
  PROVE  BillingInv'
<1>1. ASSUME NEW x \in Settlers PROVE Carries(x)'
  <2>1. CASE x = s
    BY <2>1
  <2>2. CASE x # s
    BY <2>2, CarriesStays
  <2> QED BY <2>1, <2>2
<1> QED BY <1>1 DEF BillingInv

\* While the parser's record and the refund are left alone, so is what is known.
LEMMA ParserAtRest ==
  ASSUME UNCHANGED <<parserVars, refund>>
  PROVE  KnownStays
BY DEF KnownStays, Closed, Evidence, Delivered, parserVars

-------------------------------------------------------------------------------
\* The invariant holds of a quote that has just been priced.
LEMMA InitBilling == Init => BillingInv
<1>1. SUFFICES ASSUME Init PROVE BillingInv
  OBVIOUS
<1>2. TypeOK
  <2>1. 0 \in 0..MaxNow /\ 0 \in 0..MaxFaults
    BY BillingAssumption
  <2> QED BY <1>1, <2>1, Quoted DEF Init, TypeOK
<1>3. NothingBeforeDebit
  BY <1>1, Quoted DEF Init, NothingBeforeDebit
<1>4. ClaimIsOne
  BY <1>1, Quoted DEF Init, ClaimIsOne
<1>5. \A s \in Settlers : Carries(s)
  BY <1>1 DEF Init, Carries
<1>6. ChargeStandsOnlyIfDelivered /\ SettlementNeverOverstates
  BY <1>1, NoneAssumption DEF Init, ChargeStandsOnlyIfDelivered, SettlementNeverOverstates
<1> QED BY <1>1, <1>2, <1>3, <1>4, <1>5, <1>6 DEF Init, BillingInv

\* Time: the record may be dropped.
LEMMA TickKeeps ==
  ASSUME BillingInv, Tick
  PROVE  BillingInv'
<1>1. TypeOK /\ NothingBeforeDebit /\ ClaimIsOne
  BY DEF BillingInv
<1>2. quote' \in {quote, Absent}
  BY DEF Tick, KeptAt
<1>3. TypeOK'
  BY <1>1, <1>2, BillingAssumption DEF TypeOK, Tick, parserVars, walletVars, authorizerVars, settlerVars
<1>4. NothingBeforeDebit' /\ ClaimIsOne'
  BY <1>1, <1>2 DEF NothingBeforeDebit, ClaimIsOne, Tick, walletVars, authorizerVars, settlerVars
<1>5. KnownStays
  BY <1>2 DEF KnownStays, Closed, Evidence, Delivered, Tick, walletVars
<1>6. UNCHANGED <<refund, settlement, settlerVars>>
  BY DEF Tick, walletVars
<1> QED BY <1>3, <1>4, <1>5, <1>6, RefundStaysWarranted, StepOfOthers

-------------------------------------------------------------------------------
(***************************************************************************)
(* Authorize requests and the parser's settle handler.                     *)
(***************************************************************************)

\* Before the debit no authorize request is past it.
LEMMA PastDebit ==
  ASSUME BillingInv, NEW a \in Authorizers,
         authorizer[a] \in {"wait", "unsettled"} \/ handler[a] # "idle" \/ a \in fresh
  PROVE  debitAt # None
BY DEF BillingInv, NothingBeforeDebit

\* An authorize request that touches neither the parser's record nor the wallet.
LEMMA AuthorizerMoves ==
  ASSUME BillingInv, NEW a \in Authorizers,
         \/ ReadQuote(a) \/ DebitRefused(a) \/ SettleReads(a) \/ SettleAnswered(a)
         \/ SettleLost(a) \/ GiveUpAuthorize(a) \/ AuthorizerDies(a)
  PROVE  BillingInv'
<1>1. TypeOK /\ NothingBeforeDebit /\ ClaimIsOne
  BY DEF BillingInv
<1>2. /\ UNCHANGED <<now, parserVars, walletVars, run, settlerVars>>
      /\ faults' \in {faults, faults + 1} /\ (faults' # faults => faults < MaxFaults)
      /\ fresh' \subseteq fresh
  BY DEF ReadQuote, DebitRefused, SettleReads, SettleAnswered, SettleLost, GiveUpAuthorize,
         AuthorizerDies, Fault, parserVars, walletVars, settlerVars, Answer
<1>3. /\ authorizer' \in [Authorizers -> {"read", "debit", "wait", "unsettled", "ended"}]
      /\ handler' \in [Authorizers -> {"idle", "get", "write", "ok", "refused"}]
  <2>1. /\ authorizer \in [Authorizers -> {"read", "debit", "wait", "unsettled", "ended"}]
        /\ handler \in [Authorizers -> {"idle", "get", "write", "ok", "refused"}]
    BY <1>1 DEF TypeOK
  <2> QED
    BY <2>1 DEF ReadQuote, DebitRefused, SettleReads, SettleAnswered, SettleLost, GiveUpAuthorize,
         AuthorizerDies, Authorizing, Answer, HandlerAbandoned, authorizerVars
<1>4. TypeOK'
  <2>1. faults' \in 0..MaxFaults
    BY <1>1, <1>2, BillingAssumption DEF TypeOK
  <2> QED BY <1>1, <1>2, <1>3, <2>1 DEF TypeOK, parserVars, walletVars, settlerVars
<1>5. NothingBeforeDebit'
  <2>1. SUFFICES ASSUME debitAt = None
        PROVE  \A x \in Authorizers :
                 authorizer'[x] \in {"read", "debit", "ended"} /\ handler'[x] = "idle"
    BY <1>1, <1>2 DEF NothingBeforeDebit, parserVars, walletVars, settlerVars
  <2>2. /\ authorizer \in [Authorizers -> {"read", "debit", "wait", "unsettled", "ended"}]
        /\ handler \in [Authorizers -> {"idle", "get", "write", "ok", "refused"}]
        /\ \A x \in Authorizers : authorizer[x] \in {"read", "debit", "ended"} /\ handler[x] = "idle"
    BY <1>1, <2>1 DEF TypeOK, NothingBeforeDebit
  <2>3. ReadQuote(a) \/ DebitRefused(a)
    BY <2>2 DEF SettleReads, SettleAnswered, SettleLost, GiveUpAuthorize, AuthorizerDies, Authorizing
  <2> QED BY <2>2, <2>3 DEF ReadQuote, DebitRefused, Authorizing
<1>6. ClaimIsOne'
  BY <1>1, <1>2 DEF ClaimIsOne, parserVars
<1>7. KnownStays /\ UNCHANGED <<refund, settlement, settlerVars>>
  BY <1>2, ParserAtRest DEF walletVars
<1> QED BY <1>4, <1>5, <1>6, <1>7, RefundStaysWarranted, StepOfOthers

\* The debit.
LEMMA DebitKeeps ==
  ASSUME BillingInv, NEW a \in Authorizers, Debit(a)
  PROVE  BillingInv'
<1>1. TypeOK /\ NothingBeforeDebit /\ ClaimIsOne
  BY DEF BillingInv
<1>2. debitAt' # None /\ debitAt' \in Nat
  BY <1>1, NoneAssumption DEF TypeOK, Debit
<1>3. TypeOK'
  BY <1>1, <1>2 DEF TypeOK, Debit, Authorizing, parserVars, settlerVars
<1>4. NothingBeforeDebit'
  BY <1>2 DEF NothingBeforeDebit
<1>5. ClaimIsOne'
  BY <1>1 DEF ClaimIsOne, Debit, parserVars
<1>6. KnownStays /\ UNCHANGED <<refund, settlement, settlerVars>>
  BY ParserAtRest DEF Debit
<1> QED BY <1>3, <1>4, <1>5, <1>6, RefundStaysWarranted, StepOfOthers

\* The parser is told of the payment.
LEMMA SettleWritesKeeps ==
  ASSUME BillingInv, NEW a \in Authorizers, SettleWrites(a)
  PROVE  BillingInv'
<1>1. TypeOK /\ NothingBeforeDebit /\ ClaimIsOne
  BY DEF BillingInv
<1>2. debitAt # None /\ debitAt' = debitAt
  BY PastDebit DEF SettleWrites, walletVars
<1>3. /\ quote' \in Record \cup {Absent}
      /\ quote' = Absent <=> quote = Absent
      /\ quote # Absent => /\ quote'.consumedAt <=> quote.consumedAt
                           /\ quote'.voidedAt <=> quote.voidedAt
  <2>1. CASE quote = Absent
    BY <2>1 DEF SettleWrites
  <2>2. CASE quote # Absent
    <3>1. quote \in Record /\ now \in Nat /\ quote' = Written("settle", quote, now)
      BY <1>1, <2>2, BillingAssumption DEF TypeOK, SettleWrites
    <3>2. /\ Written("settle", quote, now) \in Record
          /\ Written("settle", quote, now).consumedAt <=> quote.consumedAt
          /\ Written("settle", quote, now).voidedAt <=> quote.voidedAt
      BY <3>1, WrittenMarks
    <3> QED BY <2>2, <3>1, <3>2, Quoted
  <2> QED BY <2>1, <2>2
<1>4. handler' \in [Authorizers -> {"idle", "get", "write", "ok", "refused"}]
  BY <1>1 DEF TypeOK, SettleWrites, Answer
<1>5. TypeOK'
  BY <1>1, <1>3, <1>4 DEF TypeOK, SettleWrites, walletVars, settlerVars
<1>6. NothingBeforeDebit'
  BY <1>2 DEF NothingBeforeDebit
<1>7. ClaimIsOne'
  BY <1>1, <1>3 DEF ClaimIsOne, SettleWrites
<1>8. KnownStays
  BY <1>3 DEF KnownStays, Closed, Evidence, Delivered, SettleWrites, walletVars
<1>9. UNCHANGED <<refund, settlement, settlerVars>>
  BY DEF SettleWrites, walletVars
<1> QED BY <1>5, <1>6, <1>7, <1>8, <1>9, RefundStaysWarranted, StepOfOthers

\* What was paid comes back.
LEMMA RefundAuthorizeKeeps ==
  ASSUME BillingInv, NEW a \in Authorizers, RefundAuthorize(a)
  PROVE  BillingInv'
<1>1. TypeOK /\ NothingBeforeDebit /\ ClaimIsOne
  BY DEF BillingInv
<1>2. debitAt # None /\ debitAt' = debitAt
  BY PastDebit DEF RefundAuthorize
<1> DEFINE whole == Refund(Charge, "authorize")
<1>3. whole \in Refunds /\ whole.tokens <= Charge /\ whole.label = "authorize"
  BY ChargeIsPositive, RefundFacts DEF Labels
<1> HIDE DEF whole
<1>4. refund' = IF refund = None THEN whole ELSE refund
  BY DEF RefundAuthorize, whole
<1>5. TypeOK'
  BY <1>1, <1>3, <1>4 DEF TypeOK, RefundAuthorize, Authorizing, parserVars, settlerVars
<1>6. NothingBeforeDebit'
  BY <1>2 DEF NothingBeforeDebit
<1>7. ClaimIsOne'
  BY <1>1 DEF ClaimIsOne, RefundAuthorize, parserVars
<1>8. KnownStays
  BY <1>4 DEF KnownStays, Closed, Evidence, Delivered, RefundAuthorize, parserVars
<1>9. refund' # None => Warranted(refund)'
  <2>1. CASE refund = None
    BY <1>3, <1>4, <2>1 DEF Warranted
  <2>2. CASE refund # None
    BY <1>4, <1>8, <2>2, RefundStaysWarranted
  <2> QED BY <2>1, <2>2
<1>10. UNCHANGED <<settlement, settlerVars>>
  BY DEF RefundAuthorize
<1> QED BY <1>5, <1>6, <1>7, <1>8, <1>9, <1>10, StepOfOthers

-------------------------------------------------------------------------------
(***************************************************************************)
(* Runs.                                                                   *)
(***************************************************************************)

\* A run that leaves the parser's record alone.
LEMMA RunMoves ==
  ASSUME BillingInv, NEW r \in Runs,
         Gate(r) \/ ClaimRefused(r) \/ EndUnreported(r) \/ RunDies(r)
  PROVE  BillingInv'
<1>1. TypeOK /\ NothingBeforeDebit /\ ClaimIsOne
  BY DEF BillingInv
<1>2. /\ UNCHANGED <<now, parserVars, walletVars, authorizerVars, settlerVars>>
      /\ faults' \in {faults, faults + 1} /\ (faults' # faults => faults < MaxFaults)
  BY DEF Gate, ClaimRefused, EndUnreported, RunDies, Fault
<1>3. /\ run' \in [Runs -> {"gate", "claim", "running", "ended"}]
      /\ \A x \in Runs : run'[x] = "running" => run[x] = "running"
      /\ \A x \in Runs : run'[x] = "claim" =>
           run[x] = "claim" \/ (quote # Absent /\ quote.status = "paid")
  BY <1>1 DEF TypeOK, Gate, ClaimRefused, EndUnreported, RunDies, Running
<1>4. TypeOK'
  <2>1. faults' \in 0..MaxFaults
    BY <1>1, <1>2, BillingAssumption DEF TypeOK
  <2> QED BY <1>1, <1>2, <1>3, <2>1 DEF TypeOK, parserVars, walletVars, authorizerVars, settlerVars
<1>5. NothingBeforeDebit'
  BY <1>1, <1>2, <1>3 DEF NothingBeforeDebit, parserVars, walletVars, authorizerVars, settlerVars
<1>6. ClaimIsOne'
  BY <1>1, <1>2, <1>3 DEF ClaimIsOne, parserVars
<1>7. KnownStays /\ UNCHANGED <<refund, settlement, settlerVars>>
  BY <1>2, ParserAtRest DEF walletVars
<1> QED BY <1>4, <1>5, <1>6, <1>7, RefundStaysWarranted, StepOfOthers

\* The claim: nobody has claimed, and the quote is not closed.
LEMMA ClaimKeeps ==
  ASSUME BillingInv, NEW r \in Runs, Claim(r)
  PROVE  BillingInv'
<1>1. TypeOK /\ NothingBeforeDebit /\ ClaimIsOne
  BY DEF BillingInv
<1>2. quote \in Record /\ now \in Nat /\ quote' = Written("claim", quote, now)
  BY <1>1, BillingAssumption DEF TypeOK, Claim
<1>3. quote' \in Record /\ quote' # Absent /\ quote'.consumedAt
  <2>1. Written("claim", quote, now) \in Record /\ Written("claim", quote, now).consumedAt
    BY <1>2, WrittenMarks
  <2> QED BY <1>2, <2>1, Quoted
<1>4. /\ quote # Absent /\ ~quote.consumedAt /\ ~quote.voidedAt
      /\ startedAt = None /\ report = None /\ \A x \in Runs : run[x] # "running"
  BY <1>1 DEF Claim, Permits, ClaimIsOne
<1>5. startedAt' \in Nat /\ startedAt' # None
  BY <1>2, NoneAssumption DEF Claim
<1>6. debitAt # None /\ debitAt' = debitAt
  BY <1>1 DEF NothingBeforeDebit, Claim, Running, walletVars
<1>7. TypeOK'
  BY <1>1, <1>3, <1>5 DEF TypeOK, Claim, Running, walletVars, authorizerVars, settlerVars
<1>8. NothingBeforeDebit'
  BY <1>6 DEF NothingBeforeDebit
<1>9. ClaimIsOne'
  BY <1>1, <1>3, <1>4, <1>5 DEF TypeOK, ClaimIsOne, Claim, Running
<1>10. KnownStays
  BY <1>4 DEF KnownStays, Closed, Evidence, Delivered, Claim, walletVars
<1>11. UNCHANGED <<refund, settlement, settlerVars>>
  BY DEF Claim, walletVars
<1> QED BY <1>7, <1>8, <1>9, <1>10, <1>11, RefundStaysWarranted, StepOfOthers

\* The report: it is the first.
LEMMA RecordOutcomeKeeps ==
  ASSUME BillingInv, NEW r \in Runs, NEW rep \in Outcomes, RecordOutcome(r, rep)
  PROVE  BillingInv'
<1>1. TypeOK /\ NothingBeforeDebit /\ ClaimIsOne
  BY DEF BillingInv
<1>2. quote \in Record /\ now \in Nat /\ quote' = Written("outcome", quote, now)
  BY <1>1, BillingAssumption DEF TypeOK, RecordOutcome
<1>3. /\ quote' \in Record /\ quote' # Absent
      /\ quote'.consumedAt <=> quote.consumedAt
      /\ quote'.voidedAt <=> quote.voidedAt
  <2>1. /\ Written("outcome", quote, now) \in Record
        /\ Written("outcome", quote, now).consumedAt <=> quote.consumedAt
        /\ Written("outcome", quote, now).voidedAt <=> quote.voidedAt
    BY <1>2, WrittenMarks
  <2> QED BY <1>2, <2>1, Quoted
<1>4. startedAt # None /\ report = None /\ reports /\ quote # Absent
  BY <1>1 DEF RecordOutcome, Running, ClaimIsOne
<1>5. report' \in Reports /\ report' # None
  BY OutcomesAssumption, NoneAssumption DEF RecordOutcome
<1>6. debitAt # None /\ debitAt' = debitAt
  BY <1>1, <1>4 DEF NothingBeforeDebit, RecordOutcome, walletVars
<1>7. TypeOK'
  BY <1>1, <1>3, <1>5 DEF TypeOK, RecordOutcome, Running, walletVars, authorizerVars, settlerVars
<1>8. NothingBeforeDebit'
  BY <1>6 DEF NothingBeforeDebit
<1>9. ClaimIsOne'
  BY <1>1, <1>3, <1>4 DEF TypeOK, ClaimIsOne, RecordOutcome, Running
<1>10. KnownStays
  BY <1>4 DEF KnownStays, Closed, Evidence, Delivered, RecordOutcome, walletVars
<1>11. UNCHANGED <<refund, settlement, settlerVars>>
  BY DEF RecordOutcome, walletVars
<1> QED BY <1>7, <1>8, <1>9, <1>10, <1>11, RefundStaysWarranted, StepOfOthers

-------------------------------------------------------------------------------
(***************************************************************************)
(* Settlers.                                                               *)
(***************************************************************************)

\* A settler that is not idle settles a debit; one that moves alone keeps types.
LEMMA SettlerMoves ==
  ASSUME BillingInv, NEW s \in Settlers, UNCHANGED <<now, debitAt, authorizerVars, run>>,
         startedAt' = startedAt, reports' = reports, report' = report,
         quote' = quote \/ (quote # Absent /\ quote' = Written("void", quote, now) /\ ~quote.consumedAt),
         NEW to \in {"idle", "read", "void", "credit", "look", "save"},
         settler' = [settler EXCEPT ![s] = to],
         NEW d \in Refunds \cup {None}, decision' = [decision EXCEPT ![s] = d],
         asOf' \in [Settlers -> Nat],
         refund' \in Refunds \cup {None}, settlement' \in Nat \cup {None},
         faults' \in {faults, faults + 1}, faults' # faults => faults < MaxFaults,
         debitAt # None, refund # None => refund' = refund
  PROVE  TypeOK' /\ NothingBeforeDebit' /\ ClaimIsOne' /\ KnownStays
<1>1. TypeOK /\ NothingBeforeDebit /\ ClaimIsOne
  BY DEF BillingInv
<1>2. /\ quote' \in Record \cup {Absent}
      /\ quote' = Absent <=> quote = Absent
      /\ quote # Absent => /\ quote'.consumedAt <=> quote.consumedAt
                           /\ quote.voidedAt => quote'.voidedAt
  <2>1. CASE quote' = quote
    BY <1>1, <2>1 DEF TypeOK
  <2>2. CASE quote # Absent /\ quote' = Written("void", quote, now)
    <3>1. quote \in Record /\ now \in Nat
      BY <1>1, <2>2, BillingAssumption DEF TypeOK
    <3>2. /\ Written("void", quote, now) \in Record
          /\ Written("void", quote, now).consumedAt <=> quote.consumedAt
          /\ quote.voidedAt => Written("void", quote, now).voidedAt
      BY <3>1, WrittenMarks
    <3> QED BY <2>2, <3>2, Quoted
  <2> QED BY <2>1, <2>2
<1>3. TypeOK'
  <2>1. faults' \in 0..MaxFaults
    BY <1>1, BillingAssumption DEF TypeOK
  <2> QED BY <1>1, <1>2, <2>1 DEF TypeOK, authorizerVars
<1>4. NothingBeforeDebit'
  BY DEF NothingBeforeDebit
<1>5. ClaimIsOne'
  BY <1>1, <1>2 DEF ClaimIsOne
<1>6. KnownStays
  BY <1>2 DEF KnownStays, Closed, Evidence, Delivered
<1> QED BY <1>3, <1>4, <1>5, <1>6

\* It begins, or goes back to the start.
LEMMA SettlerIdles ==
  ASSUME BillingInv, NEW s \in Settlers,
         Begin(s) \/ ReadWait(s) \/ ReadNothing(s) \/ VoidRefused(s) \/ VoidLost(s) \/ SettlerFails(s)
  PROVE  BillingInv'
<1>1. TypeOK /\ NothingBeforeDebit
  BY DEF BillingInv
<1>2. debitAt # None
  BY <1>1 DEF NothingBeforeDebit, Begin, ReadWait, ReadNothing, VoidRefused, VoidLost, SettlerFails,
     Settling, Done
<1>3. PICK to \in {"idle", "read"} : settler' = [settler EXCEPT ![s] = to]
  BY DEF Begin, ReadWait, ReadNothing, VoidRefused, VoidLost, SettlerFails, Settling, Done
<1>4. PICK d \in Refunds \cup {None} : decision' = [decision EXCEPT ![s] = d]
  <2>1. decision \in [Settlers -> Refunds \cup {None}]
    BY <1>1 DEF TypeOK
  <2>2. CASE Begin(s)
    BY <2>1, <2>2 DEF Begin
  <2>3. CASE ReadWait(s) \/ ReadNothing(s) \/ VoidRefused(s) \/ VoidLost(s) \/ SettlerFails(s)
    BY <2>3 DEF ReadWait, ReadNothing, VoidRefused, VoidLost, SettlerFails, Done
  <2> QED BY <2>2, <2>3
<1>5. asOf' \in [Settlers -> Nat]
  <2>1. asOf \in [Settlers -> Nat] /\ now \in Nat
    BY <1>1, BillingAssumption DEF TypeOK
  <2> QED
    BY <2>1 DEF Begin, ReadWait, ReadNothing, VoidRefused, VoidLost, SettlerFails, Done
<1>6. /\ UNCHANGED <<now, walletVars, authorizerVars, run, startedAt, reports, report>>
      /\ quote' = quote \/ (quote # Absent /\ quote' = Written("void", quote, now) /\ ~quote.consumedAt)
      /\ faults' \in {faults, faults + 1} /\ (faults' # faults => faults < MaxFaults)
  BY DEF Begin, ReadWait, ReadNothing, VoidRefused, VoidLost, SettlerFails, Fault, Permits, parserVars
<1>7. /\ debitAt' = debitAt /\ refund' = refund /\ settlement' = settlement
      /\ refund \in Refunds \cup {None} /\ settlement \in Nat \cup {None}
  BY <1>1, <1>6 DEF TypeOK, walletVars
<1>8. TypeOK' /\ NothingBeforeDebit' /\ ClaimIsOne' /\ KnownStays
  BY <1>2, <1>3, <1>4, <1>5, <1>6, <1>7, SettlerMoves
<1>9. Carries(s)'
  BY <1>1, <1>3 DEF Carries, TypeOK
<1>10. \A x \in Settlers \ {s} : settler'[x] = settler[x] /\ decision'[x] = decision[x]
  BY <1>1, <1>3, <1>4 DEF TypeOK
<1> QED BY <1>7, <1>8, <1>9, <1>10, RefundStaysWarranted, SettledStays, StepOfSettler

\* It reads the parser's record and decides.
LEMMA ReadRunKeeps ==
  ASSUME BillingInv, NEW s \in Settlers, ReadRun(s)
  PROVE  BillingInv'
<1> DEFINE d == DecideRefund(asOf[s])
           what == Refund(d.tokens, d.label)
           to == CASE d.kind = "void" -> "void"
                   [] d.kind = "settle" /\ d.tokens > 0 -> "credit"
                   [] OTHER -> "look"
<1>1. TypeOK /\ NothingBeforeDebit
  BY DEF BillingInv
<1>2. debitAt # None
  BY <1>1 DEF NothingBeforeDebit, ReadRun
<1>3. /\ quote # Absent /\ d # Wait
      /\ decision' = [decision EXCEPT ![s] = what]
      /\ settler' = [settler EXCEPT ![s] = to]
      /\ UNCHANGED <<now, parserVars, walletVars, authorizerVars, run, asOf, faults>>
  BY DEF ReadRun, Settling
<1>4. /\ d.kind \in {"void", "settle"} /\ what \in Refunds
      /\ d.kind = "void" => what = Refund(Charge, "never ran")
      /\ d.kind = "settle" => Warranted(what) /\ (d.tokens = 0 => Delivered)
  BY <1>3, DecisionIsWarranted
<1>5. d.tokens \in Nat
  BY <1>4 DEF Refunds, Refund
<1> HIDE DEF d, what
<1>6. /\ to \in {"void", "credit", "look"}
      /\ to = "void" => d.kind = "void"
      /\ to = "credit" => d.kind = "settle"
      /\ to = "look" => d.kind = "settle" /\ d.tokens = 0
  <2>1. CASE d.kind = "void"
    <3>1. to = "void"
      BY <2>1
    <3> QED BY <2>1, <3>1
  <2>2. CASE d.kind = "settle" /\ d.tokens > 0
    <3>1. to = "credit"
      BY <2>2
    <3> QED BY <2>2, <3>1
  <2>3. CASE d.kind = "settle" /\ ~(d.tokens > 0)
    <3>1. to = "look"
      BY <2>3
    <3>2. d.tokens = 0
      BY <1>5, <2>3
    <3> QED BY <2>3, <3>1, <3>2
  <2> QED BY <1>4, <2>1, <2>2, <2>3
<1> HIDE DEF to
<1>7. /\ debitAt' = debitAt /\ refund' = refund /\ settlement' = settlement
      /\ refund \in Refunds \cup {None} /\ settlement \in Nat \cup {None}
      /\ asOf' \in [Settlers -> Nat]
  BY <1>1, <1>3 DEF TypeOK, walletVars
<1>8. /\ startedAt' = startedAt /\ reports' = reports /\ report' = report /\ quote' = quote
      /\ to \in {"idle", "read", "void", "credit", "look", "save"}
      /\ what \in Refunds \cup {None}
  BY <1>3, <1>4, <1>6 DEF parserVars
<1>9. TypeOK' /\ NothingBeforeDebit' /\ ClaimIsOne' /\ KnownStays
  BY <1>2, <1>3, <1>7, <1>8, SettlerMoves
<1>10. settler'[s] = to /\ decision'[s] = what /\ what # None
  BY <1>1, <1>3, <1>4, NoneAssumption DEF TypeOK
<1>11. Carries(s)'
  <2>1. to = "credit" => Warranted(decision[s])'
    BY <1>4, <1>6, <1>9, <1>10, WarrantStays DEF Warranted
  <2>2. to = "look" => Delivered'
    BY <1>4, <1>6, <1>9 DEF KnownStays
  <2> QED BY <1>4, <1>6, <1>10, <2>1, <2>2 DEF Carries
<1>12. \A x \in Settlers \ {s} : settler'[x] = settler[x] /\ decision'[x] = decision[x]
  BY <1>1, <1>3 DEF TypeOK
<1> QED BY <1>7, <1>9, <1>11, <1>12, RefundStaysWarranted, SettledStays, StepOfSettler

\* The void stands: nobody has claimed the quote, and nobody will.
LEMMA VoidKeeps ==
  ASSUME BillingInv, NEW s \in Settlers, Void(s)
  PROVE  BillingInv'
<1>1. TypeOK /\ NothingBeforeDebit /\ ClaimIsOne /\ Carries(s)
  BY DEF BillingInv
<1>2. debitAt # None
  BY <1>1 DEF NothingBeforeDebit, Void, Settling
<1>3. /\ settler[s] = "void" /\ settler' = [settler EXCEPT ![s] = "credit"]
      /\ quote # Absent /\ ~quote.consumedAt /\ quote' = Written("void", quote, now)
      /\ startedAt' = startedAt /\ reports' = reports /\ report' = report
      /\ UNCHANGED <<now, walletVars, authorizerVars, run, asOf, decision, faults>>
  BY DEF Void, Settling, Permits
<1>4. decision[s] \in Refunds /\ decision[s] = Refund(Charge, "never ran")
  BY <1>1, <1>3 DEF Carries, TypeOK
<1>5. decision' = [decision EXCEPT ![s] = decision[s]] /\ decision'[s] = decision[s]
  BY <1>1, <1>3 DEF TypeOK
<1>6. /\ debitAt' = debitAt /\ refund' = refund /\ settlement' = settlement
      /\ refund \in Refunds \cup {None} /\ settlement \in Nat \cup {None}
      /\ asOf' \in [Settlers -> Nat] /\ decision[s] \in Refunds \cup {None}
  BY <1>1, <1>3, <1>4 DEF TypeOK, walletVars
<1>7. TypeOK' /\ NothingBeforeDebit' /\ ClaimIsOne' /\ KnownStays
  BY <1>2, <1>3, <1>5, <1>6, SettlerMoves
<1>8. Closed'
  <2>1. quote \in Record /\ now \in Nat
    BY <1>1, <1>3, BillingAssumption DEF TypeOK
  <2>2. Written("void", quote, now).voidedAt
    BY <2>1, WrittenMarks
  <2> QED BY <1>1, <1>3, <2>2 DEF Closed, ClaimIsOne
<1>9. Warranted(decision[s])'
  <2>1. /\ Refund(Charge, "never ran").tokens <= Charge
        /\ Refund(Charge, "never ran").label = "never ran"
    BY ChargeIsPositive DEF Refund
  <2> QED BY <1>4, <1>5, <1>8, <2>1 DEF Warranted
<1>10. Carries(s)'
  BY <1>1, <1>3, <1>4, <1>5, <1>9, NoneAssumption DEF Carries, TypeOK
<1>11. \A x \in Settlers \ {s} : settler'[x] = settler[x] /\ decision'[x] = decision[x]
  BY <1>1, <1>3 DEF TypeOK
<1> QED BY <1>6, <1>7, <1>10, <1>11, RefundStaysWarranted, SettledStays, StepOfSettler

\* The refund is paid, or was.
LEMMA CreditKeeps ==
  ASSUME BillingInv, NEW s \in Settlers, Credit(s)
  PROVE  BillingInv'
<1>1. TypeOK /\ NothingBeforeDebit /\ Carries(s)
  BY DEF BillingInv
<1>2. debitAt # None
  BY <1>1 DEF NothingBeforeDebit, Credit, Settling
<1>3. /\ settler[s] = "credit" /\ settler' = [settler EXCEPT ![s] = "look"]
      /\ refund' = IF refund = None THEN decision[s] ELSE refund
      /\ UNCHANGED <<now, parserVars, debitAt, settlement, authorizerVars, run, asOf, decision, faults>>
  BY DEF Credit, Settling
<1>4. decision[s] \in Refunds /\ decision[s] # None /\ Warranted(decision[s])
  BY <1>1, <1>3 DEF Carries, TypeOK
<1>5. decision' = [decision EXCEPT ![s] = decision[s]] /\ decision'[s] = decision[s]
  BY <1>1, <1>3 DEF TypeOK
<1>6. /\ refund' \in Refunds \cup {None} /\ refund' # None
      /\ refund # None => refund' = refund
      /\ settlement' \in Nat \cup {None} /\ settlement' = settlement
      /\ asOf' \in [Settlers -> Nat] /\ decision[s] \in Refunds \cup {None}
      /\ startedAt' = startedAt /\ reports' = reports /\ report' = report /\ quote' = quote
  BY <1>1, <1>3, <1>4 DEF TypeOK, parserVars
<1>7. TypeOK' /\ NothingBeforeDebit' /\ ClaimIsOne' /\ KnownStays
  BY <1>2, <1>3, <1>5, <1>6, SettlerMoves
<1>8. Warranted(refund)'
  <2>1. CASE refund = None
    BY <1>3, <1>4, <1>7, <2>1, WarrantStays DEF Warranted
  <2>2. CASE refund # None
    BY <1>6, <1>7, <2>2, RefundStaysWarranted
  <2> QED BY <2>1, <2>2
<1>9. Carries(s)'
  BY <1>1, <1>3, <1>4, <1>5, <1>6 DEF Carries, TypeOK
<1>10. \A x \in Settlers \ {s} : settler'[x] = settler[x] /\ decision'[x] = decision[x]
  BY <1>1, <1>3 DEF TypeOK
<1> QED BY <1>6, <1>7, <1>8, <1>9, <1>10, SettledStays, StepOfSettler

\* It looks up what was returned.
LEMMA LookKeeps ==
  ASSUME BillingInv, NEW s \in Settlers, Look(s)
  PROVE  BillingInv'
<1> DEFINE what == Refund(IF refund = None THEN 0 ELSE refund.tokens, decision[s].label)
<1>1. TypeOK /\ NothingBeforeDebit /\ Carries(s)
  BY DEF BillingInv
<1>2. debitAt # None
  BY <1>1 DEF NothingBeforeDebit, Look, Settling
<1>3. /\ settler[s] = "look" /\ settler' = [settler EXCEPT ![s] = "save"]
      /\ decision' = [decision EXCEPT ![s] = what]
      /\ UNCHANGED <<now, parserVars, walletVars, authorizerVars, run, asOf, faults>>
  BY <1>1 DEF TypeOK, Look, Settling
<1>4. decision[s] \in Refunds
  BY <1>1, <1>3 DEF Carries, TypeOK
<1>5. what \in Refunds /\ what.tokens = IF refund = None THEN 0 ELSE refund.tokens
  BY <1>1, <1>4 DEF TypeOK, Refunds, Refund
<1> HIDE DEF what
<1>6. /\ debitAt' = debitAt /\ refund' = refund /\ settlement' = settlement
      /\ refund \in Refunds \cup {None} /\ settlement \in Nat \cup {None}
      /\ asOf' \in [Settlers -> Nat] /\ what \in Refunds \cup {None} /\ what # None
      /\ startedAt' = startedAt /\ reports' = reports /\ report' = report /\ quote' = quote
  BY <1>1, <1>3, <1>5, NoneAssumption DEF TypeOK, walletVars, parserVars
<1>7. TypeOK' /\ NothingBeforeDebit' /\ ClaimIsOne' /\ KnownStays
  BY <1>2, <1>3, <1>6, SettlerMoves
<1>8. settler'[s] = "save" /\ decision'[s] = what
  BY <1>1, <1>3 DEF TypeOK
<1>9. Carries(s)'
  BY <1>1, <1>3, <1>5, <1>6, <1>7, <1>8 DEF Carries, KnownStays
<1>10. \A x \in Settlers \ {s} : settler'[x] = settler[x] /\ decision'[x] = decision[x]
  BY <1>1, <1>3 DEF TypeOK
<1> QED BY <1>6, <1>7, <1>9, <1>10, RefundStaysWarranted, SettledStays, StepOfSettler

\* The settlement is saved, or was.
LEMMA SaveKeeps ==
  ASSUME BillingInv, NEW s \in Settlers, Save(s)
  PROVE  BillingInv'
<1>1. TypeOK /\ NothingBeforeDebit /\ Carries(s)
      /\ ChargeStandsOnlyIfDelivered /\ SettlementNeverOverstates
  BY DEF BillingInv
<1>2. debitAt # None
  BY <1>1 DEF NothingBeforeDebit, Save, Done, Settling
<1>3. /\ settler[s] = "save" /\ settler' = [settler EXCEPT ![s] = "idle"]
      /\ decision' = [decision EXCEPT ![s] = None]
      /\ asOf' = [asOf EXCEPT ![s] = 0]
      /\ settlement' = IF settlement = None THEN decision[s].tokens ELSE settlement
      /\ UNCHANGED <<now, parserVars, debitAt, refund, authorizerVars, run, faults>>
  BY DEF Save, Done, Settling
<1>4. decision[s] \in Refunds /\ decision[s].tokens \in Nat
  BY <1>1, <1>3 DEF Carries, TypeOK, Refunds
<1>5. /\ refund' \in Refunds \cup {None} /\ refund' = refund
      /\ settlement' \in Nat \cup {None}
      /\ asOf' \in [Settlers -> Nat] /\ None \in Refunds \cup {None}
      /\ startedAt' = startedAt /\ reports' = reports /\ report' = report /\ quote' = quote
  BY <1>1, <1>3, <1>4 DEF TypeOK, parserVars
<1>6. TypeOK' /\ NothingBeforeDebit' /\ ClaimIsOne' /\ KnownStays
  BY <1>2, <1>3, <1>5, SettlerMoves
<1>7. ChargeStandsOnlyIfDelivered' /\ SettlementNeverOverstates'
  <2>1. CASE settlement # None
    BY <1>3, <1>6, <2>1, SettledStays
  <2>2. CASE settlement = None
    BY <1>1, <1>3, <1>5, <1>6, <2>2 DEF Carries, Delivered, KnownStays,
      ChargeStandsOnlyIfDelivered, SettlementNeverOverstates
  <2> QED BY <2>1, <2>2
<1>8. Carries(s)'
  BY <1>1, <1>3 DEF Carries, TypeOK
<1>9. \A x \in Settlers \ {s} : settler'[x] = settler[x] /\ decision'[x] = decision[x]
  BY <1>1, <1>3 DEF TypeOK
<1> QED BY <1>5, <1>6, <1>7, <1>8, <1>9, RefundStaysWarranted, StepOfSettler

-------------------------------------------------------------------------------
\* Every step keeps the invariant.
LEMMA NextBilling == BillingInv /\ [Next]_vars => BillingInv'
<1>1. SUFFICES ASSUME BillingInv, [Next]_vars PROVE BillingInv'
  OBVIOUS
<1>2. CASE Tick
  BY <1>1, <1>2, TickKeeps
<1>3. ASSUME NEW a \in Authorizers, AuthorizerStep(a) \/ SettleLost(a) \/ AuthorizerDies(a)
      PROVE  BillingInv'
  BY <1>1, <1>3, AuthorizerMoves, DebitKeeps, SettleWritesKeeps, RefundAuthorizeKeeps
     DEF AuthorizerStep
<1>4. ASSUME NEW r \in Runs, RunStep(r) \/ RunDies(r)
      PROVE  BillingInv'
  BY <1>1, <1>4, RunMoves, ClaimKeeps, RecordOutcomeKeeps DEF RunStep
<1>5. ASSUME NEW s \in Settlers, SettlerStep(s) \/ VoidLost(s) \/ SettlerFails(s)
      PROVE  BillingInv'
  BY <1>1, <1>5, SettlerIdles, ReadRunKeeps, VoidKeeps, CreditKeeps, LookKeeps, SaveKeeps
     DEF SettlerStep
<1>6. CASE UNCHANGED vars
  <2>1. TypeOK' /\ NothingBeforeDebit' /\ ClaimIsOne'
    BY <1>1, <1>6 DEF BillingInv, TypeOK, NothingBeforeDebit, ClaimIsOne, vars,
      parserVars, walletVars, authorizerVars, settlerVars
  <2>2. KnownStays /\ UNCHANGED <<refund, settlement, settlerVars>>
    BY <1>6, ParserAtRest DEF vars, walletVars
  <2> QED BY <1>1, <2>1, <2>2, RefundStaysWarranted, StepOfOthers
<1> QED BY <1>1, <1>2, <1>3, <1>4, <1>5, <1>6 DEF Next

THEOREM BillingInvariant == Spec => []BillingInv
<1> QED BY InitBilling, NextBilling, PTL DEF Spec

\* The parties of a billing keep their types.
THEOREM BillingTyped == Spec => []TypeOK
<1>1. BillingInv => TypeOK
  BY DEF BillingInv
<1> QED BY <1>1, BillingInvariant, PTL

\* No run starts on a quote that was not debited (authorize debits, then settles;
\* the gate and the claim ask for the payment settle records).
THEOREM RunsAreCharged == Spec => []RunIsCharged
<1>1. BillingInv => RunIsCharged
  BY DEF BillingInv, NothingBeforeDebit, RunIsCharged
<1> QED BY <1>1, BillingInvariant, PTL

\* A quote refunded as never used is never used (decideRefund, the void route).
THEOREM UnusedNeverRuns == Spec => []NeverRanNeverRuns
<1>1. BillingInv => NeverRanNeverRuns
  BY DEF BillingInv, Warranted, Closed, NeverRanNeverRuns
<1> QED BY <1>1, BillingInvariant, PTL

\* No refund exceeds the charge, and none precedes it (both refund paths).
THEOREM RefundsWithinCharge == Spec => []RefundWithinCharge
<1>1. BillingInv => RefundWithinCharge
  BY DEF BillingInv, NothingBeforeDebit, Warranted, RefundWithinCharge
<1> QED BY <1>1, BillingInvariant, PTL

\* Part of a charge comes back only on a delivered, attributed report (decideRefund).
THEOREM PartialRefundsAreEvidence == Spec => []PartialRefundIsEvidence
<1>1. BillingInv => PartialRefundIsEvidence
  BY DEF BillingInv, Warranted, Evidence, PartialRefundIsEvidence
<1> QED BY <1>1, BillingInvariant, PTL

\* A charge that is left to stand bought a delivered result, or one that says nothing.
THEOREM StandingChargesAreDelivered == Spec => []ChargeStandsOnlyIfDelivered
<1>1. BillingInv => ChargeStandsOnlyIfDelivered
  BY DEF BillingInv
<1> QED BY <1>1, BillingInvariant, PTL

\* A settlement says what the ledger says (settleRun reads it back before saving).
THEOREM SettlementsAgree == Spec => []SettlementNeverOverstates
<1>1. BillingInv => SettlementNeverOverstates
  BY DEF BillingInv
<1> QED BY <1>1, BillingInvariant, PTL
===============================================================================
