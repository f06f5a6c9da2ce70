------------------------------ MODULE QuoteRecord ------------------------------
(***************************************************************************)
(* The record of one extraction quote (okiru-ai-parser quoteStore.ts) and  *)
(* what each operation of the parser's routes writes to it.  The marks are *)
(* timestamps in the code; what any guard asks of them is whether they are *)
(* set.  deadline is the last instant at which Redis has the key: its time *)
(* to live is rounded up.                                                  *)
(***************************************************************************)
EXTENDS Integers

CONSTANTS
  ExpiresAt,    \* the quote's own expiry, in ticks after it was quoted
  Grace,        \* RETENTION_GRACE_MS: how long a redeemable record outlives it
  MinTTL        \* the floor under every key's time to live

ASSUME TimesAssumption ==
  /\ ExpiresAt \in Nat \ {0}
  /\ Grace \in Nat
  /\ MinTTL \in Nat \ {0}

\* No record: never quoted, or dropped by Redis.
Absent == [status |-> "absent"]

Statuses == {"not_started", "pending", "paid", "failed"}

Record ==
  [status : Statuses, paidAt : BOOLEAN, consumedAt : BOOLEAN, voidedAt : BOOLEAN,
   outcome : BOOLEAN, deadline : Nat]

Later(s, t) == IF s > t THEN s ELSE t

\* Mutated form: only the payment status earns the grace period.
PaidOnlyDeadline(rec, now) ==
  Later(now + MinTTL, IF rec.status = "paid" THEN ExpiresAt + Grace ELSE ExpiresAt)

\* ttlSecondsFor: the grace period goes to paid and to consumed records, and
\* every write restarts the key's time to live.
Deadline(rec, now) ==
  Later(now + MinTTL,
        IF rec.status = "paid" \/ rec.consumedAt THEN ExpiresAt + Grace ELSE ExpiresAt)

\* What quote-files puts.
NewQuote ==
  [status |-> "not_started", paidAt |-> FALSE, consumedAt |-> FALSE, voidedAt |-> FALSE,
   outcome |-> FALSE, deadline |-> Later(MinTTL, ExpiresAt)]

\* A record read by get: an unpaid one is expired once its time is past.
StatusSeen(rec, now) ==
  IF rec.status # "paid" /\ now > ExpiresAt THEN "expired" ELSE rec.status

-------------------------------------------------------------------------------
\* The writes of the routes: checkout, the two notifications of PayFast, settle
\* and the simulated payment, a run claiming the quote, a refund voiding it, and
\* a run recording its outcome.
Writes == {"checkout", "complete", "fail", "settle", "simulate", "claim", "void", "outcome"}

Payments == {"complete", "settle", "simulate"}

\* Mutated forms: the gate's own check is taken to be enough for a claim; a
\* refund voids whatever it finds.
PermitsAnyClaim(w, rec) == w = "void" => ~rec.consumedAt

PermitsAnyVoid(w, rec) == w = "claim" => ~rec.consumedAt /\ ~rec.voidedAt

\* The guard a write hands to updateIf, judged on the record it replaces.
Permits(w, rec) ==
  /\ w = "claim" => ~rec.consumedAt /\ ~rec.voidedAt
  /\ w = "void" => ~rec.consumedAt

Patched(w, rec) ==
  CASE w = "checkout" -> [rec EXCEPT !.status = "pending"]
    [] w \in Payments -> [rec EXCEPT !.status = "paid", !.paidAt = TRUE]
    [] w = "fail" -> [rec EXCEPT !.status = "failed"]
    [] w = "claim" -> [rec EXCEPT !.consumedAt = TRUE]
    [] w = "void" -> [rec EXCEPT !.voidedAt = TRUE]
    [] w = "outcome" -> [rec EXCEPT !.outcome = TRUE]

\* updateIf: the record with the patch merged in and a fresh time to live.
Written(w, rec, now) ==
  [Patched(w, rec) EXCEPT !.deadline = Deadline(Patched(w, rec), now)]

\* The record once the clock reads now.
KeptAt(rec, now) ==
  IF rec # Absent /\ rec.deadline < now THEN Absent ELSE rec
===============================================================================
