---------------------------- MODULE QuoteLifecycle ----------------------------
(***************************************************************************)
(* One quote in the shared Redis store of the parser's replicas, from the *)
(* moment it was priced, and the requests that race over it               *)
(* (okiru-ai-parser routes/parser.ts, routes/esgParser.ts,                *)
(* services/quoteStore.ts, services/redisQuoteStore.ts).                   *)
(*                                                                         *)
(* A request reads the record and judges it (get), and later updates it:  *)
(* WATCH and GET on a connection of its own (watch), then MULTI/EXEC       *)
(* (exec), which Redis refuses if anyone wrote the key in between.  Every  *)
(* two of these are separated by an await, and requests interleave.  A     *)
(* request whose process dies takes no further step: what it wrote stays.  *)
(***************************************************************************)
EXTENDS QuoteRecord, FiniteSets

CONSTANTS
  Requests,       \* requests to the parser about this quote
  RouteOf,        \* the write each request is about
  MaxAttempts,    \* transactions updateIf tries before it throws
  RecordAttempts, \* updates recordExtractionOutcome tries before it gives up
  MaxNow          \* bound: the last instant considered

ASSUME RequestsAssumption ==
  /\ RouteOf \in [Requests -> Writes]
  /\ MaxAttempts \in Nat \ {0}
  /\ RecordAttempts \in Nat \ {0}
  /\ MaxNow \in Nat

VARIABLES
  record,     \* the stored record
  now,        \* the clock
  pc,         \* what each request does next, or how it ended
  held,       \* the record each request's transaction read
  tripped,    \* requests whose WATCHed key has been written since
  attempts    \* transactions each request has lost

vars == <<record, now, pc, held, tripped, attempts>>

-------------------------------------------------------------------------------
Steps == {"get", "watch", "exec", "reply"}

\* applied: wrote and was told so.  already: settle found it paid.  refused: by
\* a guard.  missing: no such record.  failed: updateIf threw.
Ends == {"applied", "already", "refused", "missing", "failed"}

TypeOK ==
  /\ record \in Record \cup {Absent}
  /\ now \in Nat
  /\ pc \in [Requests -> Steps \cup Ends]
  /\ held \in [Requests -> Record \cup {Absent}]
  /\ tripped \subseteq Requests
  /\ attempts \in [Requests -> Nat]

\* void, the simulated payment and the recording of an outcome update without
\* reading first.
FirstStep(w) == IF w \in {"void", "simulate", "outcome"} THEN "watch" ELSE "get"

Init ==
  /\ record = NewQuote
  /\ now = 0
  /\ pc = [r \in Requests |-> FirstStep(RouteOf[r])]
  /\ held = [r \in Requests |-> Absent]
  /\ tripped = {}
  /\ attempts = [r \in Requests |-> 0]

-------------------------------------------------------------------------------
\* Mutated form: the gate asks whether the quote is void or used, not paid.
GateWithoutPayment(rec) == ~rec.voidedAt /\ ~rec.consumedAt

\* authoriseExtraction: only a paid quote that is neither voided nor consumed.
GateOpens(rec) == rec.status = "paid" /\ ~rec.voidedAt /\ ~rec.consumedAt

\* What a route asks of the record it read before it goes on to update.
Proceeds(w, rec) ==
  CASE w = "checkout" -> StatusSeen(rec, now) # "paid" /\ now <= ExpiresAt
    [] w = "settle"   -> ~rec.consumedAt /\ ~rec.voidedAt /\ StatusSeen(rec, now) \notin {"paid", "expired"}
    [] w = "claim"    -> GateOpens(rec)
    [] OTHER          -> TRUE

\* settle is idempotent: a quote already paid is a success, with no write.
AlreadySettled(w, rec) ==
  w = "settle" /\ rec.status = "paid" /\ ~rec.consumedAt /\ ~rec.voidedAt

Goto(r, from, to) ==
  /\ pc[r] = from
  /\ pc' = [pc EXCEPT ![r] = to]

\* Mutated form: the lazy expiry is written back, as the in-memory store does.
GetMarksExpired(r) ==
  /\ Goto(r, "get", IF record # Absent /\ Proceeds(RouteOf[r], record) THEN "watch" ELSE "refused")
  /\ record' = IF record = Absent THEN Absent ELSE [record EXCEPT !.status = StatusSeen(record, now)]
  /\ UNCHANGED <<now, held, tripped, attempts>>

\* What a route makes of the record it read.
Judged(w, rec) ==
  CASE Proceeds(w, rec)       -> "watch"
    [] AlreadySettled(w, rec) -> "already"
    [] OTHER                  -> "refused"

\* The handler reads the record and answers, or goes on to write.
Get(r) ==
  /\ Goto(r, "get", IF record = Absent THEN "missing" ELSE Judged(RouteOf[r], record))
  /\ UNCHANGED <<record, now, held, tripped, attempts>>

\* An outcome is recorded by the run that claimed the quote, when it ends.
RunHasEnded == \E r \in Requests : RouteOf[r] = "claim" /\ pc[r] = "applied"

\* updateIf: WATCH the key, GET the record, judge the guard on it.
Watch(r) ==
  /\ RouteOf[r] = "outcome" => RunHasEnded
  /\ Goto(r, "watch", IF record = Absent THEN "missing"
                       ELSE IF Permits(RouteOf[r], record) THEN "exec" ELSE "refused")
  /\ held' = [held EXCEPT ![r] = IF pc'[r] = "exec" THEN record ELSE Absent]
  /\ UNCHANGED <<record, now, tripped, attempts>>

\* Redis marks the connections that WATCH a key when it is written.
Watching == {r \in Requests : pc[r] = "exec"}

\* EXEC on an untouched key: what was read is replaced by its patched form, and
\* every other transaction watching the key is lost.
Exec(r) ==
  /\ Goto(r, "exec", "reply")
  /\ r \notin tripped
  /\ record' = Written(RouteOf[r], held[r], now)
  /\ tripped' = Watching \ {r}
  /\ held' = [held EXCEPT ![r] = Absent]
  /\ UNCHANGED <<now, attempts>>

AttemptLimit(r) ==
  IF RouteOf[r] = "outcome" THEN MaxAttempts * RecordAttempts ELSE MaxAttempts

\* Mutated form: the same transaction is tried again on what was read before.
RetryStale(r, from, otherwise) ==
  /\ attempts' = [attempts EXCEPT ![r] = @ + 1]
  /\ Goto(r, from, IF attempts[r] + 1 < AttemptLimit(r) THEN "exec" ELSE otherwise)
  /\ tripped' = tripped \ {r}
  /\ UNCHANGED <<record, now, held>>

\* The attempt is lost: try again on the record as it now stands, or throw.
\* Either way the connection and its WATCH are gone.
Retry(r, from, otherwise) ==
  /\ attempts' = [attempts EXCEPT ![r] = @ + 1]
  /\ Goto(r, from, IF attempts[r] + 1 < AttemptLimit(r) THEN "watch" ELSE otherwise)
  /\ held' = [held EXCEPT ![r] = Absent]
  /\ tripped' = tripped \ {r}
  /\ UNCHANGED <<record, now>>

\* EXEC answers null: someone wrote the key since WATCH.
ExecAborted(r) ==
  /\ r \in tripped
  /\ Retry(r, "exec", "failed")

Reply(r) ==
  /\ Goto(r, "reply", "applied")
  /\ UNCHANGED <<record, now, held, tripped, attempts>>

\* recordExtractionOutcome catches an error whose write may stand, and tries again.
RecordAgain(r) ==
  /\ RouteOf[r] = "outcome"
  /\ Retry(r, "reply", "failed")

\* Time passes; Redis drops the key at its deadline, which counts as a write
\* of it to whoever is watching.
Tick ==
  /\ now < MaxNow
  /\ now' = now + 1
  /\ record' = KeptAt(record, now + 1)
  /\ tripped' = IF record' = record THEN tripped ELSE Watching
  /\ UNCHANGED <<pc, held, attempts>>

Next ==
  \/ Tick
  \/ \E r \in Requests :
       \/ Get(r)
       \/ Watch(r)
       \/ Exec(r)
       \/ ExecAborted(r)
       \/ Reply(r)
       \/ RecordAgain(r)

Spec == Init /\ [][Next]_vars

-------------------------------------------------------------------------------
(***************************************************************************)
(* Properties.                                                             *)
(***************************************************************************)

\* Requests whose write stands, whether or not they were told.
Wrote == {r \in Requests : pc[r] \in {"reply", "applied"}}

WroteAs(w) == {r \in Wrote : RouteOf[r] = w}

\* One payment buys one extraction: of all the runs that passed the gate, at
\* most one claims the quote (claimQuoteForRun).
OneRun == Cardinality(WroteAs("claim")) <= 1

\* A refund and a run never share a payment: once a void stands no run claims
\* the quote, and once a run has claimed it no void stands (the void route and
\* claimQuoteForRun), even after the record is gone.
NeverVoidedAndRun == WroteAs("void") = {} \/ WroteAs("claim") = {}

\* A run was paid for, whatever checkouts and failed payments were written
\* between the gate and the claim.
RunWasPaid == WroteAs("claim") # {} => \E w \in Payments : WroteAs(w) # {}

Marks(rec) == {m \in {"paidAt", "consumedAt", "voidedAt", "outcome"} : rec[m]}

\* No write undoes another replica's: a mark once set stays for as long as
\* there is a record (updateIf's WATCH/MULTI, against the lost update its
\* comment describes).
MarksAreNeverLost ==
  [][record # Absent /\ record' # Absent => Marks(record) \subseteq Marks(record')]_vars

\* What a refund is decided on stays readable: a record that a run has claimed
\* is kept for the whole grace period, even when a stale checkout or a late
\* failed payment takes its paid status away (ttlSecondsFor).
ConsumedIsKept ==
  [][record # Absent /\ record' = Absent /\ record.consumedAt => now' > ExpiresAt + Grace]_vars

Atomic == INSTANCE AtomicQuote
            WITH written <- {r \in Wrote : RouteOf[r] # "outcome"}

\* The transactions implement atomic writes: however requests interleave, abort
\* and retry, the record goes through the states of one write after another,
\* each guarded by the record it replaced, and no request writes twice.
ImplementsAtomicQuote == Atomic!Spec

\* What the header of redisQuoteStore.ts says of the time to live: a record that
\* was paid, and neither redeemed nor refunded, survives for the grace period.
PaidIsKept ==
  (\E w \in Payments : WroteAs(w) # {}) /\ now <= ExpiresAt + Grace => record # Absent
===============================================================================
