# Okiru: verification project

TLA+ models, TLC configurations and TLAPS proofs for the parts of Okiru that move
money and share state between processes. Okiru reads a client's documents (ESG and
B-BBEE evidence), prices the work, takes payment in credit tokens, runs an extraction
and keeps the results in workbooks. Paths below are relative to `src/`.

Run `tlc -workers 2 -config X.cfg M` for a row of the table of runs, `tlapm M.tla` for
the proofs.

## 1. The system

### Components and their state

| component | code | state | operations |
|---|---|---|---|
| credit wallet | `apps/web/server/tokenWallet.ts` | `organizations.tokenBalance`, `tokenLedger` (unique `reference`) | grant on first read, debit, credit, each a sequence of single-document writes |
| quote store | `okiru-ai-parser/src/services/quoteStore.ts`, `redisQuoteStore.ts` | one Redis key per quote, with a time to live | get, put, update and updateIf under WATCH/MULTI, the extraction gate, the claim |
| parser payment routes | `okiru-ai-parser/src/routes/parser.ts`, `esgParser.ts` | none of their own | quote, checkout, PayFast notification, settle, outcome, void, run |
| extraction outcome | `okiru-ai-parser/src/services/extractionOutcome.ts` | `outcome` in the quote | record what a run produced, with retries |
| token routes | `apps/web/server/tokenRoutes.ts` | token orders | authorize a batch, settle a run, buy tokens |
| extraction refunds | `apps/web/server/extractionRefunds.ts` | `extractionSettlements` (unique `quoteId`) | decide and pay what a run is owed; the sweep |
| token orders | `apps/web/server/tokenRoutes.ts`, `payfastTokens.ts` | `tokenOrders`, `organizations.planRenewsAt` | checkout, PayFast notification |
| job lease | `apps/api/src/services/jobLease.ts`, `certificateStartupExtraction.ts` | one document per job | acquire until a deadline, release |
| audit retention | `apps/web/server/auditRetention.ts`, `securityAudit.ts` | audit records, daily seals, archive blobs | record, seal a day, archive it, purge it |
| feedback notifier | `apps/web/server/feedbackNotifier.ts` | claim, attempts and recipients in `feedback`; an hourly budget per replica | file, sweep, claim, send, record |
| workbook back-sync | `apps/api/src/services/workbookBackSyncFanout.ts`, `apps/web/server/workbookBackSync.ts` | an outbox collection; batches and timers in memory | post, queue, drain, back off, give up, flush |
| workbook editing | `apps/web/server/workbookRoutes.ts` | one document per company, sections of rows | open (rebuilt from live records), save a section, merge documents |
| workbook tab | `apps/web/src/pages/InformationRequest.tsx` | the workbook as shown; per section a timer and what waits to be saved; a sync timer and flag | type, save after a pause, Save, Continue to Summary, add documents, sync the scorecard |
| ESG workbook | `apps/web/server/esgWorkbookRoutes.ts`, `esgWorkbookLock.ts`, `EsgToolkit/src/lib/esgStore.ts` | one document per company; a copy in each tab | load, save a section, import, submit, reopen |

The rest (collaboration, certificates, sessions, calculators, the unit of work, the
extraction heuristics themselves, the other screens, deployment) is listed with the
reason it is left out in `PROJECT.json` under `components`.

### How they interact

One paid extraction crosses three parties that share no transaction:

    browser -> web: POST /api/tokens/authorize
                 web  -> Mongo:  debit under extract:<quote>
                 web  -> parser: POST /quotes/<quote>/settle      (HTTP, may be lost)
                                 parser -> Redis: quote paid
    browser -> parser: run      parser -> Redis: gate, claim, outcome
    browser or sweep -> web: settleRun
                 web  -> parser: read the quote's record, void it if unused
                 web  -> Mongo:  credit under refund:<quote>, save the settlement

An edit of a record in the toolkit crosses to the workbook without a transaction either:

    browser -> api:  write the record, answer; post its state     (2 s, may be lost)
                 api  -> Mongo:  queue the post in the outbox if it was not answered
                 every api replica: drain what is due, back off, give up
                 api  -> web:    put the payload in a batch in memory, answer
                 web  -> Mongo:  200 ms later read the section, write it back whole
    browser -> web:  open the section (live records laid over it), save it whole

A tab that edits a workbook does several things at once, none of which holds back another:

    timer of a section, Save, Continue, Add documents -> web: PUT the section whole
    an answered PUT -> sync timer -> flush what waits -> web: POST sync (read workbook, write client)
    Add documents -> web: POST merge-documents (read workbook, write sections back) -> GET, show

The other components meet in the database alone: PayFast's notifications and the replicas that
serve them in an order, two retention passes in the seals, two sweeps in a feedback
report, tabs and requests in an ESG workbook, containers in a lease.

Several replicas of the web API and of the parser run at once, and any of them may die
between two awaits. What keeps the parts together is idempotency (ledger references,
the unique settlement), guards judged at the instant of a write (`$gte` in a debit, the
guard of `updateIf`) and time (a quote's expiry, when a run is presumed dead, how old
a debit must be before the sweep voids it).

### What is hard, and what makes each part correct

- **wallet**: calls of one organisation interleave between the read of the balance, the
  seed, the ledger look-up, the balance update, the ledger write and the rollback.
  Correct: no token made or lost; each reference moved once; the guard bounds spending.
- **quote store**: routes read, then write; a run, a second run and a void race; the key
  expires. Correct: one payment buys one run or one refund; no write undoes another's;
  what a refund is decided on stays readable.
- **billing**: lost answers, handlers still running after their caller gave up, deaths,
  two refund paths, stale clocks. Correct: every run is charged; every refund rests on
  evidence and stays within the charge; every charge is settled in the end.

- **token orders**: notifications come late, out of order, repeatedly and to either replica, and
  their handlers die between credit, plan and status. Correct: what is paid for is delivered in
  the end, and an order that says paid has been delivered.
- **refund pacing**: the day's sum is read before the credit, and the authorize route refunds without
  asking. Correct: settlements that are not overtaken stay within the allowance, of which every refund takes its
  part; a refund waits for another refund only.
- **job lease**: a term runs out under its holder, and a restarted container bears the name of its
  predecessor. Correct: one walk while a term runs; nobody releases another's lease.
- **audit retention**: two passes read one day at different times while its last records are still
  being written. Correct: seals are final; what is deleted is accounted for.
- **feedback notifier**: a claim that looks abandoned may be a slow delivery. Correct: no mail is
  sent twice without a reason, every report is sent or runs out of attempts.
- **back-sync**: posts fail, repeat and overtake each other, whole sections are written back
  from earlier readings, and records that share a key share a row. Correct: once nothing is on its way, each key
  has the row of the last write under it.
- **workbook tab**: saves, syncs and merges overtake each other, and the server may carry out what the tab has
  given up. Correct: no row typed is forgotten; at rest the scorecard is of what is stored, or it is known why not.
- **ESG workbook**: each request stores the whole document it read, each tab sends a whole section
  from its own copy. Correct: what is locked is valid; the lock holds; its record agrees.

The full list, at the lines where each hazard bites, is in `PROJECT.json` under
`hazards`, with the properties that cover it or the reason none does yet.

## 2. Modules

| module | models | 
|---|---|
| `IdempotentLedger` | abstract: what the wallet promises its callers, without a balance |
| `TokenWallet` | `tokenWallet.ts`: `ensureWallet`, `debitTokens`, `creditTokens`, one action per Mongo operation |
| `TokenWallet_proofs`, `FiniteSums` | the wallet's theorems; sums over finite sets, for it, for `ExtractionBilling_proofs` and for refund pacing |
| `QuoteRecord` | the quote's record, its time to live, what each route writes and under which guard |
| `AtomicQuote` | abstract: every write of a quote is one guarded atomic step |
| `QuoteLifecycle` | the routes over the Redis store: get, WATCH+GET, MULTI/EXEC, retries, expiry |
| `QuoteLifecycle_proofs` | the theorems about the quote store |
| `ExtractionBilling`, `ExtractionBilling_proofs` | authorize, settle, run, settlement and sweep, over an atomic wallet and atomic quote |
| `TokenOrders` | buying tokens: orders, PayFast's notifications, the Pro term |
| `RefundPacing` | the daily allowance and the sweep's window, over several quotes of one organisation |
| `JobLease` | the lease of a job and the lives of the containers that ask for it |
| `AuditRetention` | audit records and the passes that seal, archive and purge them |
| `FeedbackNotifier` | reports mailed by the requests and sweeps of several replicas |
| `BackSync` | records, posts, outbox, drainers, flushes and the editor, over one workbook section |
| `EsgWorkbook`, `EsgWorkbook_proofs` | tabs and requests over one ESG workbook and its lock |
| `WorkbookAutosave`, `WorkbookAutosave_proofs` | one browser tab's saves, syncs and merges, and the routes they meet |
| `MCTokenWallet`, `MCQuoteLifecycle`, `MCExtractionBilling`, `MCWorkbookAutosave` | instances for TLC |
| `WebServices`, `MCWebServices` | `TokenOrders`, `RefundPacing`, `AuditRetention`, `FeedbackNotifier` and `EsgWorkbook` side by side, and an instance |
| `WebServices_proofs` | the theorems about these services but the ESG workbook's, and about the five side by side |
| `Background`, `MCBackground` | `JobLease`, `BackSync` and `WorkbookAutosave` side by side, and an instance |
| `Background_proofs` | the theorems about the lease and the back-sync, and about the three side by side |

`TokenWallet` implements `IdempotentLedger` and `QuoteLifecycle` implements
`AtomicQuote`. `ExtractionBilling` composes the abstract forms: its `Debit` and `Credit`
are one step under a reference, its writes of the quote are `Written` under `Permits`
from `QuoteRecord`. Those two refinements are what justifies a composition small enough
to check. `TokenOrders` and `RefundPacing` use the wallet the same way: a credit under a reference is
one step, and a repeat of it moves nothing.

`WebServices` and `Background` put together components that share processes and a database but
no state. A variable chosen at the start, `service` or `activity`, names the one that is at work; the
others rest in their initial states. Interleaving them would multiply their states and show
nothing more, because no step of one reads or writes what a step of another does. Conversely,
`ServicesAreTheirOwn` and `ActivitiesAreTheirOwn` prove that each component of a composition behaves as its own
specification allows, so what is proved of a component holds in the run that checks it.

### TokenWallet

`balance` is `tokenBalance` (`NoBalance` for null), `ledger` the set of lines in
`tokenLedger`, named by the call that wrote them, `pc[c]` the operation call `c`
performs next. A debit is a call with a negative amount, a credit one with a positive.

| action | code |
|---|---|
| `Read`, `Seed`, `RecordGrant` | `ensureWallet` 294-327: read, conditional seed, grant line |
| `Lookup` | `findLedger`, the pre-check, 353 and 410 |
| `ApplyDebit` / `RefuseDebit` | `applyDelta(-amount, true)`, 359-367 |
| `ApplyCredit` | `applyDelta(amount, false)`, 416 |
| `Record` | `appendLedger`: the unique index answers, 369 and 417 |
| `Undo` | the rollback, 383 and 429 |
| `Die` | the process dies or `store()` throws at any await |

Left out: the balance a call reads back only to report it (it changes nothing), the
line's texts, rounding of amounts to integers, `setPlan`, the in-memory store (production
refuses it).

### QuoteRecord, QuoteLifecycle

A timestamp that guards only test for presence is a Boolean (`paidAt`, `consumedAt`,
`voidedAt`, `outcome`). `deadline` is the last instant at which Redis has the key.
`RouteOf[r]` names the write a request is about; `pc[r]` runs `get -> watch -> exec ->
reply`. `void`, the simulated payment and the recording of an outcome write without
reading first (`FirstStep`). WATCH and GET are one action: a write between them aborts the
transaction exactly as a write before both would have changed what was read. `tripped`
is Redis's mark on watching connections. `recordExtractionOutcome`'s three attempts of
five transactions are one bound, `MaxAttempts * RecordAttempts`. A process that dies is
one that takes no further step: every safety property is over runs in which any request
may stop anywhere.

### ExtractionBilling

| actor | actions | code |
|---|---|---|
| authorize request | `ReadQuote`, `Debit`, `DebitRefused`, `SettleAnswered`, `RefundAuthorize`, `GiveUpAuthorize` | `tokenRoutes.ts` 290-418 |
| the parser's settle handler | `SettleReads`, `SettleWrites`; `HandlerAbandoned` when its caller is gone | `parser.ts` 748-777 |
| run | `Gate`, `Claim`, `ClaimRefused`, `RecordOutcome`, `EndUnreported` | `quoteStore.ts` 185-251, `esgParser.ts` 85-102, 216-309 |
| settler | `Begin`, `ReadWait`, `ReadRun`, `ReadNothing`, `Void`, `VoidRefused`, `Credit`, `Look`, `Save` | `extractionRefunds.ts` 355-551 |
| failures | `SettleLost`, `AuthorizerDies`, `RunDies`, `VoidLost`, `SettlerFails` | lost answers, deaths, a database or parser away |

`DecideRefund` and `DecideOutcome` are `decideRefund` in its order of rules. A report is
what those rules tell apart: status, delivered, attributed, which documents were counted
at zero, whether nothing was read. `ReadQuote` is one step for the read of the quote and the
look-up of a refund that follows it: a refund never goes away, so none at the later
look-up is none at the earlier read. `asOf` keeps the `now` a pass took when it set out, which is
older than the record it then judges. The daily refund allowance is one of the ways a pass
ends without a refund (`SettlerFails`). Card payments are in `QuoteLifecycle`, not here.

### TokenOrders

`status` is the order's, `due` the notifications PayFast has to deliver (pairs of order and
verdict), `request[r]` what a webhook request does next. A handler is `Verify`, then `MarkFailed`,
or `Credit`, `GrantPro`, `MarkPaid`, then `Answer`; `Fault` ends it anywhere, and its
notification comes again. PayFast (`Attempt`, `Notify`) is external: modelled from what the handler
expects of it. `renewsAt` is in days; `setPlan` computes and writes it in one step of the model.

### RefundPacing

A tick of `tick` stands for several sweeps, so it waits until each open run has been looked at
(`SweepsAreDone`). `Pace` reads the sum, `PayRefund` credits: `alone` remembers whether another
refund was paid in between, and `raced` collects the refunds for which it was. `AuthorizeRefund` is the credit with
which the authorize route returns a charge it could not settle: the whole charge, at any moment, with no look at the
day's refunds (`unpaced`). It has the same kind and reference, so the sum counts it: after it, settlements wait although
none of them raced, and the refunds of a day can exceed the allowance by what the route returned. Whether such a quote
may run all the same, and is then owed a refund it already has, is left open.

### JobLease

| action | code |
|---|---|
| `Boot`, `Disabled` | `index.ts` 141-147, the guard of `certificateStartupExtraction.ts` |
| `Ask`, `Acquire`, `StandDown` | `acquireJobLease`: the time is read, the upsert stands, or collides or gets no answer |
| `Finish`, `Release` | the walk and its `finally`; `releaseJobLease` by the pod's name |
| `LifeEnds`, `ClockTick` | a container's process dies; time |

A process is one life of a container. A container starts the next only after the last is dead,
and both have the same name (`HOSTNAME`).

### AuditRetention

`Stamp` and `Land` are the two ends of `recordAudit`: the race against a timeout there leaves a write
that may land at any later time. A pass is a record of what it has still to do, from `StartPass` through
`CheckSeal`, `ReadDay`, `Upload`, `InsertSeal` for each closed day to `ListExpired` and `PurgeDay` for each
expired one; `PassEnds` at any point. `late` and `uploads` are history: records stored after some
pass had read their day, and days whose blob was uploaded more than once. `CheckSeal` joins the two
look-ups of a seal that follow one another (`runRetentionPass` 279, `sealDay` 183): a seal found by the
second is one the first might have found. `PurgeDay` joins the look-up of the seal and the
delete: a seal, once there, stays as it is (`SealsAreFinal`).

### FeedbackNotifier

Times are relations: a claim is none, fresh or stale; a report waits in `backoff` or does not; a slot of
`spent` is given back or comes free. `File` and `Sweep` take a slot, `Claim` is the conditional update,
`Send` one mail to all that are missing (delivered, refused, or delivered without an answer),
`Record` writes the outcome and clears the claim whoever holds it. `AddRecipient` is a change of the
list. `overlaps` counts claims taken over from a delivery still at it, `strays` mails that went out
unrecorded.

### BackSync

A record is the sequence of the composite keys of its versions, the last of which deletes it. Edits of one record do
not overlap, so a version is a moment of the collection. Nothing makes a key one record's: an employee has no surname
and an identity number only if one was given, and fields of other keys default to nothing or to 0. So `rows[k]`
is the sequence of rows stored under key `k`, each the version it was made from, whosever it is. An upsert replaces the first of them or adds one, a delete
takes the first away, and neither asks whose row that is. `latest[k]` is history: the last write under `k` by any record.

| action | code |
|---|---|
| `WriteRecord` | the record routes (`employees.ts` 17-64): collection first, then the post |
| `PostAnswered`, `PostFails`, `ForgetPost` | `postInternal`, `enqueueRetry` |
| `ComesDue`, `DrainRead`, `DrainPost`, `DrainRecord`, `DrainDies` | the outbox and its drainers |
| `Arrive` | `handleBackSync`: the payload is in the batch in memory |
| `FlushRead`, `FlushWrite`, `WebDies` | `flushBatch` |
| `OpenEditor`, `OpenStored`, `SaveSection` | the GET with the rebuild; the GET without it and the read of merge-documents; `persistSection` |

A batch is not kept item by item. `Operations` says what it does to the rows of a key, which is to take some of the first
away and perhaps put one in their place; `With` adds an item to that, and `BatchIsItsItems` in `MCBackground`, which
TLC evaluates, compares it with applying the items one by one. Of a drain that posts its entries one after the other,
`DrainPost` and `DrainRecord` are one entry; an attempt may arrive at a web replica whether or not it is answered.
`Views(k)` is what the rebuild makes of a key: a row for each live record with it, in the order the collection is read
in (any), and the stored rows but the last, over which those were laid. So a section with two live records of one key
grows by a row each time it is opened and saved. `excused` is history: keys whose last
write was dropped (a process stopped with it, attempts ran out) or whose row was set back (by a late payload, or by a
section read earlier), or whose payload met several rows of its key (`Crowded`), until something is written there or the
row is made good.

### EsgWorkbook

`workbook` is the document, `copy[t]` a tab's, `handler[r]` the document a request in flight will
store. A request reads the document, decides and computes in one step (`Save`, `Import`, `Submit`,
`Unlock`), and `Store` replaces the document: `persistEsgWorkbook` sets every field. A section is
whether it holds the figures validation asks for; the lock's cells are kept apart (`mirror`, `trail`).
Submissions and reopenings are numbered in the order of their requests. A tab's sending and the
server's reading are one step: a tab that sends later is a tab with an older copy. That the
screens hide inputs while they believe the workbook locked is not relied on: the server is.

### WorkbookAutosave

A request that fails for the tab need not fail at the server. `RefusePut`, and `SyncFails` and `MergeFails` without
more, are those that do. `GiveUpPut` and the other form of those two put what is left of the request in `late`:
the tab counts it as over, frees `syncInFlightRef` and may ask for the next, while `LateRead`, `LateProject` and
`LateWrite` go on at the server, at any later time and from what was read by then, or stop (`LateEnds`). So an older sync
may write the client after a newer one, and a save the tab reported as failed may replace a newer one's rows.

A section is the set of its rows, and a change adds a row that no other change adds, so that a
row that is lost can be named. `unsent[s]` is the payload (`pendingPayloads`) of section `s` with its timer, `puts` the saves that
are not answered (`inFlight`), `stored` the workbook document, `scored` the workbook the client record
was last written from. A handler is what is left of its awaits (`Script`), with the answers and readings it
carries: `keys` the sections a flush or a merge still has to do, `ok` what the flush found, `err` the
`saveError` its closure was made with, `copy` the workbook it read last. A timer's sync holds the
`saveError` shown when the timer was set (`syncDue.err`), as the closure in `scheduleSyncRef` does. Every handler
ends by leaving its slot in `flow`; `ThenSync` makes the slot the sync it starts.

`missed` is history: rows that a save that failed carried, that an older save or a merge overwrote in the
store, or that a merge took off the screen, until they are stored again. `behind` is history: a
sync that was due came to nothing, or a request the tab had given up changed what is stored or scored, and no sync of
the tab has read the workbook since. `before` is what the user had typed
when Continue was pressed.

Left open: in which order a flush sends the sections. `FlushKeys` and the first `FlushNext` are one
step of the code; what could come between them could as well come before or after. `Reload` is the GET as stored; what the rebuild adds is in `BackSync`.

## 3. Runs

| run | configuration | question | answer |
|---|---|---|---|
| `wallet` | `MCTokenWallet.cfg` | Are tokens conserved, spending bounded, references moved once? | yes |
| `wallet_crash` | `MCTokenWalletCrash.cfg` | Is the balance the ledger's sum when nothing runs? | no: finding 1 |
| `quote` | `MCQuoteLifecycle.cfg` | Does one payment buy one run or one refund, and no write get lost? | yes |
| `quote_kept` | `MCQuotePaidIsKept.cfg` | Is a paid record kept for its grace period? | no: finding 2 |
| `billing` | `MCExtractionBilling.cfg` | Is every run charged, every refund deserved and within the charge? | yes |
| `billing_settled` | `MCExtractionSettled.cfg` | Is a charge the parser was told of settled in the end, by the sweep alone? | yes |
| `billing_reopened` | `MCExtractionReopened.cfg` | Does the refund of an unsettled quote close it? | no: finding 3 |
| `billing_stranded` | `MCExtractionStranded.cfg` | Is every debit settled in the end? | no: finding 4 |
| `web_services` | `MCWebServices.cfg` | Are purchases delivered, refunds paced, purges accounted for, mails sent once, ESG locks respected? | yes |
| `background` | `MCBackground.cfg` | Is there one walk per term? Is the workbook current once nothing is on its way, and does that come? Is no row typed in a tab forgotten or left behind, is what stays unscored accounted for, and does the tab come to rest? | yes |
| `esg_reopened` | `MCEsgReopened.cfg` | Is a reopening always on record in the workbook? | no: finding 5 |
| `autosave_merge` | `MCAutosaveMerge.cfg` | Do documents that are added leave what is stored alone? | no: finding 6 |

Each property of a passing run is also shown to fail on a mutated form of one definition
(`mutants` in `PROJECT.json`; the mutated operators stand beside the originals in the
modules, marked "Mutated form").

### Findings

1. A death between the balance update and the ledger line leaves them apart for good,
   where the header calls the balance a cache of the ledger's sum.
2. Checkout and a late FAILED notification overwrite `paid`; the record then loses its grace
   period, which the header of `redisQuoteStore.ts` promises to paid records.
3. When only the answer of settle is lost, authorize refunds a quote that is paid at the
   parser: a run can still claim it, where the comment says the refund closes it for good.
4. A web process that dies after the debit and before settle leaves a debit that no pass can
   settle: the unpaid record lives exactly as long as the sweep waits before voiding it.
5. The record of a reopening is among the cells of the ESG assumptions, which any tab replaces with its own,
   possibly older, copy: the record is erased, and the mirror of the lifted lock comes back, where
   the comment on the route says that a reopening is always traceable.
6. Adding documents writes back sections as it read them: a save of the same tab that lands in between is
   undone in the store, and the reload then takes it off the screen, where the comment on the route says
   that existing rows are never overwritten or deleted. The handler flushes but does not wait for saves already on
   their way.

Five more claims of comments are stated in the modules and are false; they have no row above.
`NeverOverdrawn` (`TokenWallet`, the header of `tokenWallet.ts`): a duplicate credit is spendable until it is
rolled back, and the rollback is unguarded (the constants of `MCTokenWallet.cfg`). What holds instead, and is
checked and proved, is `OverdraftIsUndoneCredit`. `SavedIsScored` (`WorkbookAutosave`,
`InformationRequest.tsx:3006`: scores sync automatically as you save): a sync that falls due while another is in flight is
dropped and not asked for again, so the last save stays out of the scorecard (the constants of
`MCAutosaveMerge.cfg`). What holds is `QuietIsScored`.
`NeverDenied` (`RefundPacing`, the comment at `extractionRefunds.ts:398-403`): a refund of 5 is starved by refunds
of 2 paid at instants 0 and 2 (by settlements, or by the authorize route), under an allowance of 3, a day of 1 and a window of 3, and the sweep then
drops it (three quotes, one settler, `TickLimit = 4`). `DuplicateRunIsHarmless` (`AuditRetention`, the
comment at `auditRetention.ts:341-342`): a pass that found a day unsealed and is slow, while the other seals,
archives and purges that day, reads what is left of it and uploads that over the archive's only copy (the
constants of `MCWebServices.cfg`; in the code, both replicas' first pass over days already past retention).
`OpenedIsDerived` (`BackSync`, the comment at `workbookRoutes.ts:1467-1470`): a record that
changes its key leaves a row under the old one, which the rebuild keeps (`MCBackground` with
`Entities = {e1}`, `KeyOf <- MCRenamedKeyOf`, one flush, one drainer and `Budget = 1`, the creation of the record).

### Bounds, and why they are enough

- **wallet**: two credits under one reference with different amounts (the two refund paths of
  a quote), two debits under one reference, a zero amount, a grant of 2, credits of 3 and 2, a
  debit of 7. The debit is covered only while both credits are on the balance, and then
  exactly, so the guard is exercised on both sides and at equality. Two calls per reference are
  every collision there is: the index admits one, and any number of others are alike.
- **quote**: six requests, one of each kind that matters and two runs; expiry 1, grace 2, floor
  1, time to 4, so that each deadline is reached and passed on its own. `MaxAttempts = 2`
  (5 in the code) gives one retry and one throw. The card notifications have a run of their
  own with three requests.
- **billing**: two authorize requests (a double click or a retry), one run, two settlers, one
  fault. One fault suffices for each hazard listed; a second is the same hazard for another
  actor. `ExpiresAt = UnusedAfter = 1` keeps the code's relation (`QUOTE_TTL` and
  `UNUSED_QUOTE_AFTER_MS` are both 30 minutes); `DeadAfter = 2` is later, as in the code. No debit
  or claim after instant 1 and time to 3, so every decision falls due within the run. Four
  documents of one token each, charged 2 together, because the batch is rounded up once and each
  document on its own. The grace period and the window reach past the last instant: what
  happens after the seven days is not asked here. Second and later runs are `OneRun` in `quote`.

- **orders**: two Pro orders, so that a term is granted twice; one with a failed attempt beside the
  one that succeeds, so that verdicts overtake each other; two requests, the number that can
  collide; one fault between any two steps; two days and a term of three, so that a grant may be of
  either day.
- **refunds**: an allowance of 3 with refunds of 5 and 2: one exceeds it alone, both together. Two
  settlers race in every way two can. The second was charged 3, so that the authorize route's refund of it differs
  from what a settlement owes. Ticks 0 to 3 let the rolling day of 1 clear twice.
- **audit**: two records, days 0 to 2 with retention 1, so that day 0 expires on day 2 and day 1 is sealed but kept;
  two passes; scan and purge limits of 2 and 1, so that both limits cut.
- **feedback**: one report, two addresses of which one joins later, two replicas, three attempts
  (eight in the code), a budget of 1 that is exhausted by the first, one crash.
- **ESG**: one tab, two requests in flight, one section of figures beside the assumptions, two turns (a
  submission and its reopening). Larger instances (three turns, 1.4 million states) give the same answers.
- **lease**: three lives, two of one pod; a term of 2 and time to 5, so that a term passes twice.
- **back-sync**: three records under two keys: one that is created and deleted, one that shares its key, so that an
  upsert replaces the other's row and a delete takes it away, and one beside them, so that a section written back whole
  sets back a row no payload was about. Two flushes, two drainers, one retry before giving up (eight in the code).
  `Budget = 3` bounds the records created, the failures and the openings of the editor together: two records and a
  failure or an opening, one record and two of those, three records and none. A record that
  changes its key is in `MCRenamedKeyOf`, with which the back-sync's properties hold too (`Entities = {e1}`,
  `Budget = 2`). What needs more than three of
  these at once is covered by `QuietRowsAreCurrent` only, which has no bound.
- **workbook tab**: two sections, so that a timer, a flush or a merge of one meets a change of the
  other; two rows typed, so that an older and a newer save of one section exist together; one document
  row, in one section; two handlers at once, the most that can disagree; one button and one failure. Syncs
  are not buttons and are not bounded. The failure may leave a request behind at the server, which is then carried out
  beside a newer save and a newer sync. More buttons and failures are covered by the theorems only.

Where a run stops (all calls ended, time at its bound) there is no deadlock to look for:
`CHECK_DEADLOCK FALSE` everywhere.

### Fairness

- `TokenWallet`: weak fairness of each call's own steps, none of `Die`: an event loop serves
  the continuation of every operation Mongo answered, or the call has died.
- `ExtractionBilling`: weak fairness of time, of each authorize request that has started, and of
  the sweep (`setInterval`, which no failure of a pass stops). None of runs, of upload screens
  or of an authorize request that has not arrived. Failures are bounded by `MaxFaults`: "in the
  end" means once the parser and the database answer again.
- `TokenOrders`: weak fairness of a request that is being served, strong fairness of PayFast's notification of each
  completed payment: it repeats what it has no success for, and while both replicas are busy it
  waits. Faults are bounded: "in the end" means once they cease.
- `FeedbackNotifier`: weak fairness of the sweeps, the deliveries they begin and time together. None of
  people filing reports or changing the list.
- `BackSync`: weak fairness of delivery as a whole: attempts end by their timeout, the drainer's
  interval and the batch's timer fire. Each of its steps brings it nearer to its end, so no
  single one has to be singled out.
- `WorkbookAutosave`: weak fairness of what the tab and the server do of themselves, taken together: timers fire,
  requests are answered, handlers go on. None of typing, of buttons or of failures, which are
  bounded. No single step is singled out: each brings the whole nearer to rest, unless a sync is set again, which
  `ComesToRest` excludes.
- `JobLease`, `AuditRetention`, `EsgWorkbook` state no liveness: a replica that stands down does not
  ask again, a pass runs once a day or not at all, and a request may always fail.
- `QuoteLifecycle` states no liveness: with bounded attempts a contended write may throw.

## 4. Proofs

`TokenWallet_proofs` proves, for any finite set of calls, any references and any integer
amounts, under `ConstantsAssumption` only (finitely many calls, a positive grant):

| theorem | statement |
|---|---|
| `IInvHolds` | `Spec => []IInv` |
| `TypeCorrect` | `Spec => []TypeOK` |
| `ConservationHolds` | `Spec => []Conservation` |
| `CacheExact` | `Spec => []CacheIsLedgerSum` |
| `OverdraftBounded` | `Spec => []OverdraftIsUndoneCredit` |
| `Refinement` | `Spec => ImplementsLedger` |

`Conservation` alone is not inductive: it says nothing of calls at `grant`, and a second
grant would break it. `IInv` adds what the control state implies. `WalletGranted`: a call past
`read` and `seed` runs against a wallet that has a balance, so no movement is added to null.
`GrantHasOwner`: a grant that is on the balance and not in the ledger is some call's to record, or died
with it. `CollisionIsRecorded`: a rollback is only of a reference that is posted. Each action then moves
one term of the equation and at most one other: `Seed` the balance and the missing grant, an apply
the balance and the unrecorded sum, `Record` the unrecorded sum and the ledger's, `Undo` the balance and
the unrecorded sum. `OverdraftBounded` needs its own step lemma: only `Undo` of a credit lowers the
balance without the guard, and it adds the same amount to the undone credits. `Refinement` maps every
step to one step of `IdempotentLedger` or to a stutter.

`FiniteSums` supplies what those steps need of `SumFunctionOnSet` (adding or removing an index adds
or removes its value, whatever the order the fold takes). The library's induction over finite sets cannot be
used with the provers at hand, so both inductions are written as minimal counterexamples in a
well-founded order. For billing it adds that a sum of naturals is a natural (`SumOfNaturals`), for refund pacing
that a part of a set sums to no more than the whole (`SumOfSubset`), and larger values to no less (`SumOfLarger`).

`QuoteLifecycle_proofs` proves, for any set of requests (finite or not), any instants and any
bounds on attempts, under `TimesAssumption` and `RequestsAssumption`:

| theorem | statement |
|---|---|
| `IInvHolds` | `Spec => []IInv` |
| `TypeCorrect` | `Spec => []TypeOK` |
| `OneRunHolds` | `Spec => []OneRun` |
| `VoidExcludesRun` | `Spec => []NeverVoidedAndRun` |
| `PaidBeforeRun` | `Spec => []RunWasPaid` |
| `MarksStay` | `Spec => MarksAreNeverLost` |
| `ConsumedStays` | `Spec => ConsumedIsKept` |
| `Refinement` | `Spec => ImplementsAtomicQuote` |

Everything rests on `HeldIsCurrent`: a transaction that Redis will still accept read the record as it
stands, and that record permits its write. So a guard judged at WATCH holds at EXEC. With
`WritesAreMarked` (a claim or a void that was written is marked on the record for as long as there is one)
a second claim, or a claim after a void, finds its guard false; `RunsAgree` says so without a
cardinality. `GateIsPaid` carries a payment from the gate to the claim although the status may have changed
in between, because payments that were written stay written. `ConsumedHasGrace` is
`ttlSecondsFor` as an invariant. For `Refinement`, `Exec` is the abstract write, `Tick` the clock and every
other step a stutter; the recording of an outcome, which may be written more than once, is not among
the abstract specification's once-only writes.

`ExtractionBilling_proofs` proves, for any requests, runs and settlers, any documents at any cost, any times
and any number of faults, under `BillingAssumption`, `OutcomesAssumption`, `NoneAssumption` and the quote's
`TimesAssumption`:

| theorem | statement |
|---|---|
| `BillingInvariant` | `Spec => []BillingInv` |
| `BillingTyped` | `Spec => []TypeOK` |
| `RunsAreCharged` | `Spec => []RunIsCharged` |
| `UnusedNeverRuns` | `Spec => []NeverRanNeverRuns` |
| `RefundsWithinCharge` | `Spec => []RefundWithinCharge` |
| `PartialRefundsAreEvidence` | `Spec => []PartialRefundIsEvidence` |
| `StandingChargesAreDelivered` | `Spec => []ChargeStandsOnlyIfDelivered` |
| `SettlementsAgree` | `Spec => []SettlementNeverOverstates` |

None of these is inductive: each speaks of the ledger and the record, while what will be written there is
already with a settler. `BillingInv` adds three things. `NothingBeforeDebit`: without a debit no settle request
is out, no run is past the gate and no settler has begun. `ClaimIsOne`: the record is claimed at most
once, by the one run that may still report, so a report is never replaced (`KnownStays`: closed stays closed,
evidence stays evidence, delivered stays delivered). `Carries`: what a settler decided is warranted when it credits, although it
judged an older record; a decision to refund an unused quote earns its warrant at the void; and between the look
at the ledger and the save, the refund seen is the one that stands, because a reference is credited once. One
step is easy to miss. A settler may find nothing to return while no refund stands and see one by the time it looks:
the settlement then states that refund and not its own decision.

`EsgWorkbook_proofs` proves, for any tabs, requests and sections and any bound on turns, under
`EsgConstants`:

| theorem | statement |
|---|---|
| `EsgInvariant` | `EsgSpec => []EsgInv` |
| `SubmissionsAreValid` | `EsgSpec => []SubmittedIsValid` |
| `RecordsAgree` | `EsgSpec => []RecordAgrees` |
| `LocksHold` | `EsgSpec => LockHolds` |

`SubmittedIsValid` needs that every document a request is about to store has it too: each was read as a
whole. `RecordAgrees` needs the same of every document and copy that is not older than the last turn:
such a document has the record that was reopened last, such a copy has the assumptions of an agreeing
workbook. `LockHolds` follows because a save or an import that read the workbook after the last turn read
it unlocked, and the turn of a request is later than every turn stored before.

`WebServices_proofs` proves of `TokenOrders`, for any orders, verdicts and requests, any term and number
of faults, under `OrderConstants`:

| theorem | statement |
|---|---|
| `OrderInvariant` | `OrderSpec => []OrderInv` |
| `OrderTyped` | `OrderSpec => []OrderTypeOK` |
| `PaidOrdersAreDelivered` | `OrderSpec => []PaidIsDelivered` |
| `AnsweredPaymentsAreSettled` | `OrderSpec => []AnsweredIsSettled` |

Neither property speaks of the handlers that bring it about, and several may serve one order. `Progress`
says what a handler has done by the step it is at: before `plan` the tokens are credited, before `pay` the
plan is granted too, before the answer the status is written. `Days` bounds the renewal date by today, so
that a grant made later never shortens a term. `UnansweredOrSettled` then says that a completed payment is still to be
notified or settled: a notification leaves `due` only with an answer, and `Progress` has settled it by then. A
fault leaves it in `due`.

Of `RefundPacing`, for any finite set of quotes and any amounts, settlers, allowance, day and window, under
`PacingConstants`:

| theorem | statement |
|---|---|
| `PacingInvariant` | `PacingSpec => []PacingInv` |
| `PacingTyped` | `PacingSpec => []PacingTypeOK` |
| `RefundsKeepPace` | `PacingSpec => []RefundsArePaced` |

The first half of `RefundsArePaced` speaks of the refunds that settlements paid without being overtaken; the others,
`raced` and `unpaced`, are outside the allowance in the code too. It needs what a call knows between its sum and its
credit: while it is alone, the room it found is still there (`SumsAreRecent`); any other refund paid meanwhile, the
authorize route's included, marks it, and it then joins `raced`. The room was found with every refund of the day in the
sum, and what the authorize route returned is no less than what a settlement owed (`PacingConstants`), so it was there
for those the property counts. Time passing takes refunds out of the day, and a part sums to no more than the whole. The
second half needs why a call left a run unpaid: there was a refund within the day (`LeftForAnother`), because a single
refund is allowed whatever its size, and time does not pass before the sweeps are done.

`WebServices_proofs` proves of `AuditRetention`, for any records, passes, limits and retention, with or without an
archive, under `AuditConstants`:

| theorem | statement |
|---|---|
| `AuditInvariant` | `AuditSpec => []AuditInv` |
| `AuditTypes` | `AuditSpec => []AuditTypeOK` |
| `PurgesAreSealed` | `AuditSpec => []PurgedIsAccountedFor` |
| `PurgesAreArchived` | `AuditSpec => []PurgedIsArchived` |
| `SealsStand` | `AuditSpec => SealsAreFinal` |

What a purge deletes is what is in the store then, so the invariant speaks of stored records: one
whose day is sealed, or was read by a pass on its way to seal it, is in that seal or reading, or late. The
history variable `late` is what makes this inductive when a write lands. For the archive, a blob that
was uploaded once is that of the pass still to insert its seal, or of the seal that says archived.

Of `FeedbackNotifier`, for any finite sets of reports, addresses, replicas and lanes, any attempts and
budget, under `NotifierConstants`:

| theorem | statement |
|---|---|
| `NotifierInvariant` | `NotifierSpec => []NotifierInv` |
| `NotifierTyped` | `NotifierSpec => []NotifierTypeOK` |
| `CopiesStayAccounted` | `NotifierSpec => []CopiesAreAccounted` |

A copy is sent by a lane that read the list of those missing earlier, so the copies to come count as well
(`SendsAreCounted`): those sent and those about to be stay within one, the claims taken over and the
mails unrecorded. That a new claim adds a lane without breaking this rests on two counts.
`LanesAreCounted`: at most one lane more is at work on a report than claims were taken over, and no more than
that number when the report has no claim, which a slow delivery that clears another's claim does not change.
`UnmarkedAreCounted`: what went to somebody who is not marked was lost, or a lane still has it to record; such lanes
and those about to send are different ones among those at work.

Of the five side by side (`WebServices`), with the assumptions of all:

| theorem | statement |
|---|---|
| `ServicesAreTheirOwn` | `ServicesSpec => OrderSpec /\ PacingSpec /\ AuditSpec /\ NotifierSpec /\ EsgSpec` |
| `ServicesTyped` | `ServicesSpec => []ServicesTypeOK` |

`WorkbookAutosave_proofs` proves, for any sections, rows, documents and number of handlers, and any
bounds on buttons and failures, under `AutosaveConstants`, `NoPayloadIsNoRows` and `NoFlowIsNoHandler` (the two
absent values are not rows and not a handler):

| theorem | statement |
|---|---|
| `AutosaveTyped` | `AutosaveSpec => [](AutosaveTypeOK /\ Awaits)` |
| `NoRowIsForgotten` | `AutosaveSpec => []NoRowForgotten` |
| `RestIsScored` | `AutosaveSpec => []QuietIsScored` |
| `LeavesNothingWaiting` | `AutosaveSpec => NothingLeftWaiting` |

The types need `Awaits`: a save that a handler sent finds it at its flush, so that the answer has a handler
to tell. `NoRowForgotten` is not inductive: an edit replaces the payload that waited by what the tab shows, so it
matters that the tab still shows it. `Remembers` splits the claim. A row typed is in the tab or known (stored or
missed; what is known stays known). What the tab shows waits, is sent or is known. What a handler has read is known,
which is why showing a reloaded workbook keeps the second part.

A request the tab has given up is one more reader: what it holds is known as well, and what it overwrites is missed.

The other two need to know where a handler is from what is left of its script. `OnScript` says that this is always an
end of its script, and the lemma `AtStage` turns a step into the stages it can be at. `RestIsScored` follows whatever
changes the store until the scorecard is made from it (`Scores`). Unless a sync is to come (`SyncToCome`: a
stored save is unanswered, the timer is set, a sync has yet to read, a merge that may have written is under way, or
`behind`), the scorecard is of what is stored or a sync that has read just that is about to write it. The tab never has
two syncs in flight (`OneSync`). That does not keep an older reading from being written last, because the server
goes on with a sync that failed for the tab: such a write, and a late save or merge that changes the store, set `behind`
again, however long after the sync that had cleared it. `LeavesNothingWaiting` follows a Continue to
Summary through its flush (`Flushed`): once the flush has listed the sections that wait, what was typed before into any
other has gone, and each section it sends adds its own; what has gone stays gone (`StepGone`), though timers, other
flushes and merges move it from the way to the store and into `missed`.

`Background_proofs` proves of `JobLease`, for any processes and names and any term, under `LeaseConstants`:

| theorem | statement |
|---|---|
| `LeaseInvariant` | `LeaseSpec => []LeaseInv` |
| `LeaseTypes` | `LeaseSpec => []LeaseTypeOK` |
| `LeaseExcludes` | `LeaseSpec => []OneWalkPerTerm` |
| `LeaseReleases` | `LeaseSpec => ReleasesItsOwn` |

`OneWalkPerTerm` says nothing of the document. The invariant adds that the lease of whoever
works within its term is the one in the document, that no time read is later than the clock, and that of
the lives of one container at most one is neither off nor dead. An upsert that stands then finds a lease that
ended by the time its process read, hence by now, hence nobody's running term. That a delete by name hits the
right lease rests on the lives of a container following one another: a lease under the name of a working
process is its own, because an earlier life's was replaced when it acquired and a later one has not begun.

Of `BackSync`, for any records and sequences of keys, shared or not, any web replicas and drainers, and any number of
retries, failures and openings, under `BackSyncConstants` and `NothingIsNoPayload` (the absent write and the absent
flush are not a payload and not a batch):

| theorem | statement |
|---|---|
| `BackSyncInvariant` | `BackSyncSpec => []BackSyncInv` |
| `BackSyncTyped` | `BackSyncSpec => []BackSyncTypeOK` |
| `QuietRowsAreCurrent` | `BackSyncSpec => []QuietIsCurrent` |

When nothing is on its way it is too late to say anything, so the invariant follows the last write under each key
while it is (`LastIsOnItsWay`): it is secure (its row is stored, a replica that will store it has it last in a
batch, or its key is excused) or it is queued, with a post or an open entry of the outbox. An entry is closed by a
drainer that was told yes earlier; in between, a late payload, another record's write or a section written back may have
undone the row, and `AnsweredIsSecure` carries over that moment that the write was applied or its key excused since, or
is no longer the last. A new write under a key finds no answer to itself, because nothing is heard of a payload before it
is written (`AllWritten`). That a batch leaves the row of its last payload and nothing else where it met one row or
none rests on each payload in it taking a row (`BatchesTake`); where it met several, the key is excused. Nothing is
asked of who shares a key with whom: the invariant is of keys, and the last write under one may be anybody's.

Of the three side by side (`Background`), with the assumptions of all:

| theorem | statement |
|---|---|
| `ActivitiesAreTheirOwn` | `BackgroundSpec => LeaseSpec /\ BackSyncSpec /\ AutosaveSpec` |
| `BackgroundTyped` | `BackgroundSpec => []BackgroundTypeOK` |

`CacheIsLedgerSum`, `MarksAreNeverLost` and `SubmittedIsValid` are proved and have no row among the runs: the first
two follow from the refinements that the runs check, the third is a part of the ESG workbook's invariant.

Only model-checked: liveness (`EventuallyExact`, `PaidChargeIsSettled`, `PaymentsAreDelivered`,
`ReportsAreSettled`, `BecomesQuiet`, `ComesToRest`: temporal fairness arguments are out of the prover's reach). Every
other property of a passing run is a theorem. The claims of comments that do not hold (section 3) are refuted on
an instance, which is all a refutation needs.

## 5. Plan

Next come proofs about what is modelled:

1. `TokenOrders`: an abstract specification of an order (credited at most once, by a payment that completed) and
   the refinement.
2. `BackSync`: that a payload given up or dropped is the only way a row stays excused, as an action property.

Then, where the code has state that several parties share: the import of a workbook and its
submission to the toolkit's collections (`workbookRoutes.ts`), and the status of certificates under
`certificateTextExtractionJob.ts`.

## 6. Not modelled

- **Most of the source by size** is the extraction itself (OCR, calls of models, heuristics over text), the
  B-BBEE and ESG arithmetic with its tables, the browser's screens, and generated or static data. It keeps no
  state between calls that others share, and its results are values the models choose freely: a report, a
  price, a payload, whether a section is complete. A reference definition of a calculator would repeat its
  tables.
- **Unit of work** (`apps/api/src/data-layer`): only its tests mount it.
- **In-memory stores** of the wallet, settlements, workbooks and quotes: production refuses them, or runs one process.
- **Routes of development only** (the simulated payment of token orders) and routes that only read
  (`verifyDay`, reports, exports).
- **Sessions, rate limits and access checks**: one request at a time, counters of one process.
- **Parts of modelled components**: the meta patches of the back-sync and the translation between a record's
  fields and its row's; presence and invitations in a workbook; registers of the ESG workbook row by row; the
  renaming of legacy ESG sections when they are read; the deletion of organisations; card payments of quotes
  together with the wallet's; several tabs on one workbook, the import of a spreadsheet into it, the rows and
  meta halves a section's save is put together from, and closing a tab while something waits.
- **Clock skew** between replicas, Mongo and Redis: one clock everywhere.
