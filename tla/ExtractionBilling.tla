--------------------------- MODULE ExtractionBilling ---------------------------
(***************************************************************************)
(* The billing of one paid extraction, across three parties that share no *)
(* transaction: the web API that debits and refunds the wallet            *)
(* (apps/web/server/tokenRoutes.ts), the refund settlement it runs from    *)
(* the upload screen and from a sweep (extractionRefunds.ts), and the      *)
(* parser that opens, runs and voids the quote (okiru-ai-parser).          *)
(*                                                                         *)
(* The parts are used as their own modules specify them: a movement in the *)
(* wallet is one step under its reference (IdempotentLedger, implemented   *)
(* by TokenWallet), and a write of the quote is one guarded step           *)
(* (AtomicQuote, implemented by QuoteLifecycle).  What interleaves here is *)
(* everything between them: the HTTP calls, the handlers that read the     *)
(* quote before they write it, and the death of any of them.               *)
(***************************************************************************)
EXTENDS QuoteRecord, FiniteSets, FiniteSetsExt

CONSTANTS
  Authorizers,  \* requests to POST /api/tokens/authorize for this quote
  Runs,         \* extraction requests that carry this quote
  Settlers,     \* callers of settleRun: upload screens and sweeps
  Sweeps,       \* those of them that are the sweep of a web replica
  Files,        \* documents of the batch
  Cost,         \* tokens each document was itemised at
  Charge,       \* tokens the batch costs
  UnusedAfter,  \* UNUSED_QUOTE_AFTER_MS
  DeadAfter,    \* RUN_PRESUMED_DEAD_AFTER_MS
  MinAge,       \* SWEEP_MIN_AGE_MS
  Window,       \* SWEEP_WINDOW_MS
  LastStart,    \* bound: no debit and no run begins later
  MaxNow,       \* bound: the last instant considered
  Outcomes,     \* bound: the reports considered
  MaxFaults,    \* bound: lost answers, failed calls and deaths, together
  None          \* no time, no refund, no settlement, no report

ASSUME BillingAssumption ==
  /\ Sweeps \subseteq Settlers
  /\ IsFiniteSet(Files)
  /\ Cost \in [Files -> Nat]
  /\ Charge \in Nat \ {0}
  /\ {UnusedAfter, DeadAfter, MinAge, Window, LastStart, MaxNow, MaxFaults} \subseteq Nat

VARIABLES
  now,
  quote,        \* the parser's record
  startedAt,    \* its consumedAt, as a time
  reports,      \* its recordsOutcome: the run is one that records an outcome
  report,       \* its outcome
  debitAt,      \* when extract:<quote> was written to the ledger
  refund,       \* the ledger's refund:<quote>
  settlement,   \* tokens refunded, as the extraction settlement has it
  authorizer,   \* what each authorize request does next
  fresh,        \* those whose own debit was applied, until they end
  handler,      \* the parser's handler of each authorize request's settle
  run,          \* what each run does next
  settler,      \* what each settler does next
  asOf,         \* the now each settler judges by
  decision,     \* what each settler decided
  faults        \* faults so far

parserVars == <<quote, startedAt, reports, report>>
walletVars == <<debitAt, refund, settlement>>
authorizerVars == <<authorizer, fresh, handler>>
settlerVars == <<settler, asOf, decision>>
vars == <<now, parserVars, walletVars, authorizerVars, run, settlerVars, faults>>

-------------------------------------------------------------------------------
\* What a run can report.  empty: documents counted at zero; blank: not one
\* value read.  A run that failed or threw reports no more than that.
Resolved ==
  {rep \in [status : {"resolved"}, delivered : BOOLEAN, attributed : BOOLEAN,
            empty : SUBSET Files, blank : BOOLEAN] :
     /\ rep.blank => rep.empty = Files
     /\ rep.attributed /\ rep.empty = Files => rep.blank}

Reports == {[status |-> "failed"], [status |-> "error"]} \cup Resolved

ASSUME OutcomesAssumption == Outcomes \subseteq Reports

Labels == {"authorize", "never ran", "stopped", "failed", "unread", "undelivered", "partly", "none"}

Refund(tokens, label) == [tokens |-> tokens, label |-> label]

Refunds == [tokens : Nat, label : Labels]

ASSUME NoneAssumption == None \notin Nat /\ None \notin Reports /\ None \notin Refunds

TypeOK ==
  /\ now \in 0..MaxNow
  /\ quote \in Record \cup {Absent}
  /\ startedAt \in Nat \cup {None}
  /\ reports \in BOOLEAN
  /\ report \in Reports \cup {None}
  /\ debitAt \in Nat \cup {None}
  /\ refund \in Refunds \cup {None}
  /\ settlement \in Nat \cup {None}
  /\ authorizer \in [Authorizers -> {"read", "debit", "wait", "unsettled", "ended"}]
  /\ fresh \subseteq Authorizers
  /\ handler \in [Authorizers -> {"idle", "get", "write", "ok", "refused"}]
  /\ run \in [Runs -> {"gate", "claim", "running", "ended"}]
  /\ settler \in [Settlers -> {"idle", "read", "void", "credit", "look", "save"}]
  /\ asOf \in [Settlers -> Nat]
  /\ decision \in [Settlers -> Refunds \cup {None}]
  /\ faults \in 0..MaxFaults

Init ==
  /\ now = 0
  /\ quote = NewQuote
  /\ startedAt = None
  /\ reports = FALSE
  /\ report = None
  /\ debitAt = None
  /\ refund = None
  /\ settlement = None
  /\ authorizer = [a \in Authorizers |-> "read"]
  /\ fresh = {}
  /\ handler = [a \in Authorizers |-> "idle"]
  /\ run = [r \in Runs |-> "gate"]
  /\ settler = [s \in Settlers |-> "idle"]
  /\ asOf = [s \in Settlers |-> 0]
  /\ decision = [s \in Settlers |-> None]
  /\ faults = 0

Fault ==
  /\ faults < MaxFaults
  /\ faults' = faults + 1

-------------------------------------------------------------------------------
(***************************************************************************)
(* POST /api/tokens/authorize.                                             *)
(***************************************************************************)
Authorizing(a, from, to) ==
  /\ authorizer[a] = from
  /\ authorizer' = [authorizer EXCEPT ![a] = to]

\* Mutated form: the settle request leaves before the debit.
SettleFirst(a) ==
  /\ IF quote # Absent /\ ~quote.consumedAt /\ ~quote.voidedAt /\ refund = None
     THEN /\ Authorizing(a, "read", "debit")
          /\ handler' = [handler EXCEPT ![a] = "get"]
     ELSE Authorizing(a, "read", "ended") /\ UNCHANGED handler
  /\ UNCHANGED <<now, parserVars, walletVars, fresh, run, settlerVars, faults>>

\* readParserQuote and authorizeRefusal: a quote unknown, consumed, voided or
\* refunded goes no further.  The refund is looked up later than the quote is
\* read, but a refund never goes away: none then is none now.
ReadQuote(a) ==
  /\ IF quote # Absent /\ ~quote.consumedAt /\ ~quote.voidedAt /\ refund = None
     THEN Authorizing(a, "read", "debit")
     ELSE Authorizing(a, "read", "ended")
  /\ UNCHANGED <<now, parserVars, walletVars, fresh, handler, run, settlerVars, faults>>

\* debitTokens under extract:<quote>: applied, or found already applied.  Then
\* the request of settleParserQuote leaves; one that never does is lost.
Debit(a) ==
  /\ now <= LastStart
  /\ Authorizing(a, "debit", "wait")
  /\ debitAt' = IF debitAt = None THEN now ELSE debitAt
  /\ fresh' = IF debitAt = None THEN fresh \cup {a} ELSE fresh
  /\ handler' = [handler EXCEPT ![a] = "get"]
  /\ UNCHANGED <<now, parserVars, refund, settlement, run, settlerVars, faults>>

\* debitTokens: the balance does not cover it.  That can be the answer even while
\* the other request's debit of this quote stands, taken between this one's look
\* into the ledger and its update of the balance.
DebitRefused(a) ==
  /\ Authorizing(a, "debit", "ended")
  /\ UNCHANGED <<now, parserVars, walletVars, fresh, handler, run, settlerVars, faults>>

\* The quotes settle accepts.
SettleAccepts(rec) ==
  rec # Absent /\ ~rec.consumedAt /\ ~rec.voidedAt /\ StatusSeen(rec, now) # "expired"

\* What the parser's settle handler answers is kept for whoever still waits.
Answer(a, ans) ==
  handler' = [handler EXCEPT ![a] = IF authorizer[a] = "wait" THEN ans ELSE "idle"]

\* The parser's settle handler reads and judges the quote.
SettleReads(a) ==
  /\ handler[a] = "get"
  /\ \/ /\ ~SettleAccepts(quote)
        /\ Answer(a, "refused")
     \/ /\ SettleAccepts(quote) /\ quote.status = "paid"
        /\ Answer(a, "ok")
     \/ /\ SettleAccepts(quote) /\ quote.status # "paid"
        /\ handler' = [handler EXCEPT ![a] = "write"]
  /\ UNCHANGED <<now, parserVars, walletVars, authorizer, fresh, run, settlerVars, faults>>

\* ... and writes it.  It answers success whether or not a record was left to
\* write: the null that update returns for a dropped key is not looked at.
SettleWrites(a) ==
  /\ handler[a] = "write"
  /\ Answer(a, "ok")
  /\ quote' = IF quote = Absent THEN Absent ELSE Written("settle", quote, now)
  /\ UNCHANGED <<now, startedAt, reports, report, walletVars, authorizer, fresh, run, settlerVars, faults>>

\* The answer arrives: the batch is authorised, or what was paid is returned.
SettleAnswered(a) ==
  /\ handler[a] \in {"ok", "refused"}
  /\ Authorizing(a, "wait", IF handler[a] = "ok" THEN "ended" ELSE "unsettled")
  /\ fresh' = IF handler[a] = "ok" THEN fresh \ {a} ELSE fresh
  /\ handler' = [handler EXCEPT ![a] = "idle"]
  /\ UNCHANGED <<now, parserVars, walletVars, run, settlerVars, faults>>

\* The web process gives up waiting, alive or dead: the handler runs on, or the
\* request never reached it.
HandlerAbandoned(a) ==
  \/ handler' = [handler EXCEPT ![a] = IF @ = "write" THEN "write" ELSE "idle"]
  \/ handler[a] = "get" /\ UNCHANGED handler

\* The call fails: it never arrives, or its answer is lost wherever the handler
\* has got to.
SettleLost(a) ==
  /\ Fault
  /\ Authorizing(a, "wait", "unsettled")
  /\ HandlerAbandoned(a)
  /\ UNCHANGED <<now, parserVars, walletVars, fresh, run, settlerVars>>

\* Give back only what this call took: creditTokens under refund:<quote>.
RefundAuthorize(a) ==
  /\ a \in fresh
  /\ Authorizing(a, "unsettled", "ended")
  /\ refund' = IF refund = None THEN Refund(Charge, "authorize") ELSE refund
  /\ fresh' = fresh \ {a}
  /\ UNCHANGED <<now, parserVars, debitAt, settlement, handler, run, settlerVars, faults>>

\* A retry whose debit was already applied took nothing.
GiveUpAuthorize(a) ==
  /\ a \notin fresh
  /\ Authorizing(a, "unsettled", "ended")
  /\ UNCHANGED <<now, parserVars, walletVars, fresh, handler, run, settlerVars, faults>>

\* The web process dies, or the wallet's database is away, after the debit.
AuthorizerDies(a) ==
  /\ Fault
  /\ authorizer[a] \in {"wait", "unsettled"}
  /\ authorizer' = [authorizer EXCEPT ![a] = "ended"]
  /\ HandlerAbandoned(a)
  /\ fresh' = fresh \ {a}
  /\ UNCHANGED <<now, parserVars, walletVars, run, settlerVars>>

-------------------------------------------------------------------------------
(***************************************************************************)
(* A run: the extraction routes of the parser.                             *)
(***************************************************************************)
Running(r, from, to) ==
  /\ run[r] = from
  /\ run' = [run EXCEPT ![r] = to]

\* authoriseExtraction
Gate(r) ==
  /\ now <= LastStart
  /\ quote # Absent
  /\ Running(r, "gate", IF quote.status = "paid" /\ ~quote.voidedAt /\ ~quote.consumedAt
                        THEN "claim" ELSE "ended")
  /\ UNCHANGED <<now, parserVars, walletVars, authorizerVars, settlerVars, faults>>

\* claimQuoteForRun, by a run that records an outcome (the ESG routes) or by
\* one that does not (the B-BBEE routes).
Claim(r) ==
  /\ now <= LastStart
  /\ quote # Absent
  /\ Permits("claim", quote)
  /\ Running(r, "claim", "running")
  /\ quote' = Written("claim", quote, now)
  /\ startedAt' = now
  /\ reports' \in BOOLEAN
  /\ UNCHANGED <<now, report, walletVars, authorizerVars, settlerVars, faults>>

ClaimRefused(r) ==
  /\ quote # Absent => ~Permits("claim", quote)
  /\ Running(r, "claim", "ended")
  /\ UNCHANGED <<now, parserVars, walletVars, authorizerVars, settlerVars, faults>>

\* The run ends, and its outcome is on record before its answer is sent.
RecordOutcome(r, rep) ==
  /\ reports
  /\ quote # Absent
  /\ Running(r, "running", "ended")
  /\ report' = rep
  /\ quote' = Written("outcome", quote, now)
  /\ UNCHANGED <<now, startedAt, reports, walletVars, authorizerVars, settlerVars, faults>>

\* A B-BBEE run ends.
EndUnreported(r) ==
  /\ ~reports
  /\ Running(r, "running", "ended")
  /\ UNCHANGED <<now, parserVars, walletVars, authorizerVars, settlerVars, faults>>

\* The parser's pod dies, or every attempt to record the outcome fails.
RunDies(r) ==
  /\ Fault
  /\ Running(r, "running", "ended")
  /\ UNCHANGED <<now, parserVars, walletVars, authorizerVars, settlerVars>>

-------------------------------------------------------------------------------
(***************************************************************************)
(* settleRun.                                                              *)
(***************************************************************************)
All(label) == [kind |-> "settle", tokens |-> Charge, label |-> label]
Nothing == [kind |-> "settle", tokens |-> 0, label |-> "none"]
Wait == [kind |-> "wait"]

CostOf(docs) == SumFunctionOnSet(Cost, docs)

\* Mutated forms: the documents that were read are charged, and the rest comes
\* back; the refund is not capped; any outcome is evidence against a document.
DecideBySubtraction(rep) ==
  IF rep.status # "resolved" \/ rep.blank \/ ~rep.delivered THEN All("failed")
  ELSE [kind |-> "settle", label |-> "partly", tokens |-> Charge - CostOf(Files \ rep.empty)]

DecideUncapped(rep) ==
  IF rep.status # "resolved" \/ rep.blank \/ ~rep.delivered THEN All("failed")
  ELSE [kind |-> "settle", label |-> "partly", tokens |-> CostOf(rep.empty)]

DecideUnattributed(rep) ==
  IF rep.status # "resolved" \/ rep.blank \/ ~rep.delivered THEN All("failed")
  ELSE [kind |-> "settle", label |-> "partly", tokens |-> Min({Charge, CostOf(rep.empty)})]

\* The part of decideRefund that judges a recorded outcome.
DecideOutcome(rep) ==
  CASE rep.status = "error" -> All("failed")
    [] rep.status = "failed" -> All("unread")
    [] rep.status = "resolved" /\ ~rep.delivered -> All("undelivered")
    [] rep.status = "resolved" /\ rep.delivered /\ rep.blank -> All("unread")
    [] OTHER -> IF ~rep.attributed \/ rep.empty = {}
                THEN Nothing
                ELSE [kind |-> "settle", label |-> "partly",
                      tokens |-> Min({Charge, CostOf(rep.empty)})]

\* Mutated forms: a run with no outcome is taken to owe nothing; it is waited
\* for without end.
DecideSilenceIsSuccess(t) ==
  IF ~quote.consumedAt
  THEN IF t - debitAt < UnusedAfter THEN Wait ELSE [kind |-> "void", tokens |-> Charge, label |-> "never ran"]
  ELSE IF report = None THEN Nothing ELSE DecideOutcome(report)

DecideNeverDead(t) ==
  IF ~quote.consumedAt
  THEN IF t - debitAt < UnusedAfter THEN Wait ELSE [kind |-> "void", tokens |-> Charge, label |-> "never ran"]
  ELSE IF ~reports THEN Nothing ELSE IF report = None THEN Wait ELSE DecideOutcome(report)

\* decideRefund, at time t, of the parser's record as it stands.
DecideRefund(t) ==
  IF ~quote.consumedAt
  THEN CASE quote.voidedAt -> All("never ran")
         [] ~quote.voidedAt /\ t - debitAt < UnusedAfter -> Wait
         [] OTHER -> [kind |-> "void", tokens |-> Charge, label |-> "never ran"]
  ELSE CASE ~reports -> Nothing
         [] reports /\ report = None -> IF t - startedAt < DeadAfter THEN Wait ELSE All("stopped")
         [] OTHER -> DecideOutcome(report)

Settling(s, from, to) ==
  /\ settler[s] = from
  /\ settler' = [settler EXCEPT ![s] = to]

\* Back to the start, for the next pass or the next screen.
Done(s, from) ==
  /\ Settling(s, from, "idle")
  /\ decision' = [decision EXCEPT ![s] = None]
  /\ asOf' = [asOf EXCEPT ![s] = 0]

\* The debit is there and no settlement is.  The sweep looks only at debits
\* of a certain age, and judges every one of them by the time it set out.
Begin(s) ==
  /\ debitAt # None
  /\ settlement = None
  /\ s \in Sweeps => debitAt + MinAge <= now /\ now <= debitAt + Window
  /\ Settling(s, "idle", "read")
  /\ asOf' = [asOf EXCEPT ![s] = now]
  /\ UNCHANGED <<now, parserVars, walletVars, authorizerVars, run, decision, faults>>

\* Read the parser's record and decide: not decidable yet, ...
ReadWait(s) ==
  /\ settler[s] = "read"
  /\ quote # Absent
  /\ DecideRefund(asOf[s]) = Wait
  /\ Done(s, "read")
  /\ UNCHANGED <<now, parserVars, walletVars, authorizerVars, run, faults>>

\* ... or decided: void first, credit, or nothing to move.
ReadRun(s) ==
  /\ settler[s] = "read"
  /\ quote # Absent
  /\ LET d == DecideRefund(asOf[s])
     IN /\ d # Wait
        /\ decision' = [decision EXCEPT ![s] = Refund(d.tokens, d.label)]
        /\ Settling(s, "read", CASE d.kind = "void" -> "void"
                                 [] d.kind = "settle" /\ d.tokens > 0 -> "credit"
                                 [] OTHER -> "look")
  /\ UNCHANGED <<now, parserVars, walletVars, authorizerVars, run, asOf, faults>>

\* The parser has no record of the quote: not decidable, now or ever.
ReadNothing(s) ==
  /\ quote = Absent
  /\ Done(s, "read")
  /\ UNCHANGED <<now, parserVars, walletVars, authorizerVars, run, faults>>

\* Mutated form: any answer of the parser is taken for a void.
VoidUnchecked(s) ==
  /\ Settling(s, "void", "credit")
  /\ quote' = IF quote # Absent /\ Permits("void", quote) THEN Written("void", quote, now) ELSE quote
  /\ UNCHANGED <<now, startedAt, reports, report, walletVars, authorizerVars, run, asOf, decision, faults>>

\* Void the unused quote; go on only if the parser says it did.
Void(s) ==
  /\ quote # Absent
  /\ Permits("void", quote)
  /\ Settling(s, "void", "credit")
  /\ quote' = Written("void", quote, now)
  /\ UNCHANGED <<now, startedAt, reports, report, walletVars, authorizerVars, run, asOf, decision, faults>>

\* A run has claimed it, or it is gone: still pending.
VoidRefused(s) ==
  /\ quote # Absent => ~Permits("void", quote)
  /\ Done(s, "void")
  /\ UNCHANGED <<now, parserVars, walletVars, authorizerVars, run, faults>>

\* The void stands and its answer is lost: still pending.
VoidLost(s) ==
  /\ Fault
  /\ quote # Absent
  /\ Permits("void", quote)
  /\ quote' = Written("void", quote, now)
  /\ Done(s, "void")
  /\ UNCHANGED <<now, startedAt, reports, report, walletVars, authorizerVars, run>>

\* creditTokens under refund:<quote>: applied, or found already applied.
Credit(s) ==
  /\ Settling(s, "credit", "look")
  /\ refund' = IF refund = None THEN decision[s] ELSE refund
  /\ UNCHANGED <<now, parserVars, debitAt, settlement, authorizerVars, run, asOf, decision, faults>>

\* Mutated form: the settlement says what this call meant to return.
LookAtDecision(s) ==
  /\ Settling(s, "look", "save")
  /\ UNCHANGED <<now, parserVars, walletVars, authorizerVars, run, asOf, decision, faults>>

\* What the ledger says was returned, whichever path returned it.
Look(s) ==
  /\ Settling(s, "look", "save")
  /\ decision' = [decision EXCEPT ![s] = Refund(IF refund = None THEN 0 ELSE refund.tokens, @.label)]
  /\ UNCHANGED <<now, parserVars, walletVars, authorizerVars, run, asOf, faults>>

\* saveSettlement: unique per quote.
Save(s) ==
  /\ Done(s, "save")
  /\ settlement' = IF settlement = None THEN decision[s].tokens ELSE settlement
  /\ UNCHANGED <<now, parserVars, debitAt, refund, authorizerVars, run, faults>>

\* The process dies, the database is away, the parser does not answer, or the
\* organisation's automatic refunds for the day are used up: the pass ends where
\* it stands.
SettlerFails(s) ==
  /\ Fault
  /\ settler[s] # "idle"
  /\ settler' = [settler EXCEPT ![s] = "idle"]
  /\ decision' = [decision EXCEPT ![s] = None]
  /\ asOf' = [asOf EXCEPT ![s] = 0]
  /\ UNCHANGED <<now, parserVars, walletVars, authorizerVars, run>>

-------------------------------------------------------------------------------
Tick ==
  /\ now < MaxNow
  /\ now' = now + 1
  /\ quote' = KeptAt(quote, now + 1)
  /\ UNCHANGED <<startedAt, reports, report, walletVars, authorizerVars, run, settlerVars, faults>>

AuthorizerStep(a) ==
  \/ ReadQuote(a)
  \/ Debit(a)
  \/ DebitRefused(a)
  \/ SettleReads(a)
  \/ SettleWrites(a)
  \/ SettleAnswered(a)
  \/ RefundAuthorize(a)
  \/ GiveUpAuthorize(a)

RunStep(r) ==
  \/ Gate(r)
  \/ Claim(r)
  \/ ClaimRefused(r)
  \/ EndUnreported(r)
  \/ \E rep \in Outcomes : RecordOutcome(r, rep)

SettlerStep(s) ==
  \/ Begin(s)
  \/ ReadWait(s)
  \/ ReadRun(s)
  \/ ReadNothing(s)
  \/ Void(s)
  \/ VoidRefused(s)
  \/ Credit(s)
  \/ Look(s)
  \/ Save(s)

Next ==
  \/ Tick
  \/ \E a \in Authorizers : AuthorizerStep(a) \/ SettleLost(a) \/ AuthorizerDies(a)
  \/ \E r \in Runs : RunStep(r) \/ RunDies(r)
  \/ \E s \in Settlers : SettlerStep(s) \/ VoidLost(s) \/ SettlerFails(s)

Spec == Init /\ [][Next]_vars

\* Time passes, a started request is served to its end or dies, and the sweep's
\* timer keeps firing.  No request has to arrive, no run has to start or to end,
\* and no upload screen has to ask.
FairSpec ==
  /\ Spec
  /\ WF_vars(Tick)
  /\ \A a \in Authorizers : WF_vars(authorizer[a] # "read" /\ AuthorizerStep(a))
  /\ \A s \in Sweeps : WF_vars(SettlerStep(s))

-------------------------------------------------------------------------------
(***************************************************************************)
(* Properties.                                                             *)
(***************************************************************************)

\* A run costs: no run claims the quote that the ledger shows no debit for
\* (authorize debits first and settles second).
RunIsCharged == startedAt # None => debitAt # None

\* What is called a run that never started never starts: the settlement refunds
\* an unused quote only once no run can claim it, whatever runs, voids and lost
\* answers race (decideRefund, settleRun, the void route).
NeverRanNeverRuns == refund # None /\ refund.label = "never ran" => startedAt = None

\* No more comes back than was paid, and nothing for what was not, however
\* documents were itemised and whichever of the two paths refunds first.
RefundWithinCharge == refund # None => debitAt # None /\ refund.tokens <= Charge

\* A document is refunded on evidence: part of a charge comes back only for
\* a run whose result was delivered and whose every value was attributed, and
\* the tokens are those of documents that produced nothing.
PartialRefundIsEvidence ==
  refund # None /\ refund.label = "partly" =>
    /\ report # None
    /\ report.status = "resolved" /\ report.delivered /\ report.attributed
    /\ report.empty # Files
    /\ refund.tokens <= CostOf(report.empty)

\* A run whose charge the settlement let stand is one that read something and
\* said so, or says nothing: no failed, undelivered or blank run is settled at
\* nothing, and none that died.
ChargeStandsOnlyIfDelivered ==
  settlement = 0 /\ refund = None =>
    /\ startedAt # None
    /\ reports => report # None /\ report.status = "resolved" /\ report.delivered /\ ~report.blank

\* What a settlement says came back did come back, to the token, even when the
\* other path had already refunded something else.
SettlementNeverOverstates ==
  settlement \notin {None, 0} => refund # None /\ refund.tokens = settlement

\* Every charge the parser was told of is settled in the end: the run that
\* nobody asks about, the run that died, the quote nobody used.
PaidChargeIsSettled ==
  (debitAt # None /\ quote # Absent /\ quote.paidAt) ~> settlement # None

\* What tokenRoutes.ts says of the refund of a quote it could not settle: it
\* closes this quote for good.
RefundClosesQuote ==
  [][refund # None /\ startedAt = None => startedAt' = None]_vars

\* What tokenRoutes.ts says of a settlement that could not be made now: nothing
\* is lost, the sweep settles the run on a later pass.
ChargeIsSettled == debitAt # None ~> settlement # None
===============================================================================
