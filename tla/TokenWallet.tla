------------------------------ MODULE TokenWallet ------------------------------
(***************************************************************************)
(* The credit wallet of one organisation (apps/web/server/tokenWallet.ts). *)
(*                                                                         *)
(* debitTokens and creditTokens are sequences of single-document MongoDB  *)
(* operations with an await between any two of them, run concurrently by  *)
(* the request handlers, webhooks and sweeps of several replicas.  One    *)
(* action here is one such operation.  pc[c] is the operation call c      *)
(* performs next, or how the call ended:                                   *)
(*                                                                         *)
(*   read -> seed -> grant -> lookup -> apply -> record -> undo            *)
(*                                                                         *)
(* A call may die between any two operations: its process is killed, or   *)
(* an operation throws (the store is looked up per call and every error   *)
(* but a duplicate key propagates).  Nothing resumes it.                   *)
(***************************************************************************)
EXTENDS Integers, FiniteSets, Functions

CONSTANTS
  Calls,        \* calls of debitTokens and creditTokens, in any process
  References,   \* ledger references those calls carry
  RefOf,        \* the reference each call carries
  Welcome,      \* the ledger line of the opening grant, grant:<org>
  Amount,       \* tokens each line moves: < 0 spends, > 0 credits
  NoBalance     \* tokenBalance: null, an organisation not yet granted

\* A ledger line is named by the call that appends it: two calls may carry one
\* reference and move different amounts, as the two refunds of a quote do.
Lines == Calls \cup {Welcome}

ASSUME ConstantsAssumption ==
  /\ IsFiniteSet(Calls)
  /\ Welcome \notin Calls
  /\ RefOf \in [Calls -> References]
  /\ Amount \in [Lines -> Int]
  /\ Amount[Welcome] \in Nat \ {0}
  /\ NoBalance \notin Int

VARIABLES
  balance,      \* organizations.tokenBalance: a cache of the ledger's sum
  ledger,       \* lines in tokenLedger
  pc            \* the next operation, or the end, of each call

vars == <<balance, ledger, pc>>

-------------------------------------------------------------------------------
FreeTokenGrant == Amount[Welcome]

IsDebit(c) == Amount[c] < 0

\* References in the ledger, which the unique index answers for.
Posted == {RefOf[c] : c \in ledger \ {Welcome}}

Operations == {"read", "seed", "grant", "lookup", "apply", "record", "undo"}

\* applied: recorded by this call.  alreadyApplied: found in the ledger before
\* anything moved.  undone: collided on the reference, moved back.  insufficient:
\* refused.  nothing: a zero amount.  failed, ungranted, stranded: died; the
\* last two leave the document store between a movement and its record.
Ends == {"applied", "alreadyApplied", "undone", "insufficient", "nothing",
         "failed", "ungranted", "stranded"}

TypeOK ==
  /\ balance \in Int \cup {NoBalance}
  /\ ledger \subseteq Lines
  /\ pc \in [Calls -> Operations \cup Ends]

Init ==
  /\ balance = NoBalance
  /\ ledger = {}
  /\ pc = [c \in Calls |-> "read"]

-------------------------------------------------------------------------------
Goto(c, from, to) ==
  /\ pc[c] = from
  /\ pc' = [pc EXCEPT ![c] = to]

\* debitTokens and creditTokens return before touching the ledger when there
\* is nothing to move, but only after ensureWallet.
AfterEnsure(c) == IF Amount[c] = 0 THEN "nothing" ELSE "lookup"

\* ensureWallet: read the balance; a wallet already granted needs no seeding.
Read(c) ==
  /\ Goto(c, "read", IF balance = NoBalance THEN "seed" ELSE AfterEnsure(c))
  /\ UNCHANGED <<balance, ledger>>

\* Mutated form: the opening balance is set whatever the balance is by now.
SeedUnfiltered(c) ==
  /\ Goto(c, "seed", "grant")
  /\ balance' = FreeTokenGrant
  /\ UNCHANGED ledger

\* ensureWallet: set the opening balance if it is still null.  Of several
\* first reads exactly one matches the filter and goes on to record the grant.
Seed(c) ==
  /\ Goto(c, "seed", IF balance = NoBalance THEN "grant" ELSE AfterEnsure(c))
  /\ balance' = IF balance = NoBalance THEN FreeTokenGrant ELSE balance
  /\ UNCHANGED ledger

\* ensureWallet: the ledger line of the opening balance.
RecordGrant(c) ==
  /\ Goto(c, "grant", AfterEnsure(c))
  /\ ledger' = ledger \cup {Welcome}
  /\ UNCHANGED balance

\* The pre-check that gives a genuine repeat a clean answer.
Lookup(c) ==
  /\ Goto(c, "lookup", IF RefOf[c] \in Posted THEN "alreadyApplied" ELSE "apply")
  /\ UNCHANGED <<balance, ledger>>

\* Mutated form: the balance is checked before the update, not inside it.
UnguardedDebit(c) ==
  /\ IsDebit(c)
  /\ Goto(c, "apply", "record")
  /\ balance' = balance + Amount[c]
  /\ UNCHANGED ledger

\* applyDelta(-amount, requireBalance): the $gte guard and the decrement are
\* one update, which matches no document when the balance does not cover it.
ApplyDebit(c) ==
  /\ IsDebit(c)
  /\ Goto(c, "apply", "record")
  /\ balance >= -Amount[c]
  /\ balance' = balance + Amount[c]
  /\ UNCHANGED ledger

RefuseDebit(c) ==
  /\ IsDebit(c)
  /\ Goto(c, "apply", "insufficient")
  /\ balance < -Amount[c]
  /\ UNCHANGED <<balance, ledger>>

\* applyDelta(amount): a credit is unguarded.
ApplyCredit(c) ==
  /\ ~IsDebit(c)
  /\ Goto(c, "apply", "record")
  /\ balance' = balance + Amount[c]
  /\ UNCHANGED ledger

\* Mutated forms: no unique index; the line is keyed by its reference.
RecordWithoutIndex(c) ==
  /\ Goto(c, "record", "applied")
  /\ ledger' = ledger \cup {c}
  /\ UNCHANGED balance

RecordPerReference(c) ==
  /\ Goto(c, "record", "applied")
  /\ ledger' = ledger \cup {RefOf[c]}
  /\ UNCHANGED balance

\* appendLedger: the unique index on reference decides which call recorded it.
Record(c) ==
  /\ Goto(c, "record", IF RefOf[c] \in Posted THEN "undo" ELSE "applied")
  /\ ledger' = IF RefOf[c] \in Posted THEN ledger ELSE ledger \cup {c}
  /\ UNCHANGED balance

\* Mutated form: the collision is reported, the tokens are not put back.
UndoNothing(c) ==
  /\ Goto(c, "undo", "undone")
  /\ UNCHANGED <<balance, ledger>>

\* The rollback of a collision: applyDelta of the opposite amount, unguarded
\* for a debit and for a credit alike.
Undo(c) ==
  /\ Goto(c, "undo", "undone")
  /\ balance' = balance - Amount[c]
  /\ UNCHANGED ledger

\* The process dies or an operation throws: whatever the call already wrote
\* stays, whatever it had left to write is never written.
Die(c) ==
  /\ pc[c] \in Operations
  /\ pc' = [pc EXCEPT ![c] = CASE pc[c] \in {"record", "undo"} -> "stranded"
                               [] pc[c] = "grant" -> "ungranted"
                               [] OTHER -> "failed"]
  /\ UNCHANGED <<balance, ledger>>

Step(c) ==
  \/ Read(c)
  \/ Seed(c)
  \/ RecordGrant(c)
  \/ Lookup(c)
  \/ ApplyDebit(c)
  \/ RefuseDebit(c)
  \/ ApplyCredit(c)
  \/ Record(c)
  \/ Undo(c)

Next == \E c \in Calls : Step(c) \/ Die(c)

Spec == Init /\ [][Next]_vars

\* Every call is run by an event loop that keeps serving the continuations of
\* the operations MongoDB has answered; a call that is not served has died.
FairSpec == Spec /\ \A c \in Calls : WF_vars(Step(c))

-------------------------------------------------------------------------------
(***************************************************************************)
(* Properties.                                                             *)
(***************************************************************************)

\* The record of truth: the sum of the ledger.
LedgerSum == SumFunctionOnSet(Amount, ledger)

\* Movements that are on the balance and not, or not any more, in the ledger.
Unrecorded == {c \in Calls : pc[c] \in {"record", "undo", "stranded"}}

UnrecordedSum == SumFunctionOnSet(Amount, Unrecorded)

GrantUnrecorded ==
  IF Welcome \notin ledger THEN FreeTokenGrant ELSE 0

\* No token is made or lost: at every instant, the balance is the ledger's sum
\* plus exactly the movements that calls have applied and not yet recorded or
\* rolled back (appendLedger after applyDelta, the rollback, the seed before
\* the grant line).
Conservation ==
  IF balance = NoBalance
  THEN ledger = {} /\ Unrecorded = {}
  ELSE balance = LedgerSum + UnrecordedSum + GrantUnrecorded

\* A call that is between a movement and its record, for now or for ever.
Inexact(c) == pc[c] \in {"grant", "record", "undo", "ungranted", "stranded"}

\* The documented claim that the balance is a cache of the ledger's sum holds
\* whenever no call is between a movement and its record and none died there,
\* whatever calls collided, rolled back, were refused or died elsewhere.
CacheIsLedgerSum ==
  (balance # NoBalance /\ \A c \in Calls : ~Inexact(c)) => balance = LedgerSum

\* Credits that were applied, found a duplicate, and were taken back.
UndoneCredits == {c \in Calls : ~IsDebit(c) /\ pc[c] = "undone"}

\* The $gte guard bounds the overdraft: the balance is below zero by at most
\* the tokens that duplicate credits showed, and a rollback took back after a
\* debit had spent them.  Without duplicate credits it is never below zero.
OverdraftIsUndoneCredit ==
  balance # NoBalance =>
    balance + SumFunctionOnSet(Amount, UndoneCredits) >= 0

\* What a call at operation or end e has been told, as the abstract ledger sees it.
AnswerAt(e) ==
  CASE e \in Operations -> "none"
    [] e = "applied" -> "applied"
    [] e \in {"alreadyApplied", "undone"} -> "alreadyApplied"
    [] e = "insufficient" -> "refused"
    [] e = "nothing" -> "nothing"
    [] e \in {"failed", "ungranted", "stranded"} -> "lost"

Abstract == INSTANCE IdempotentLedger
              WITH posted <- Posted,
                   answer <- [c \in Calls |-> AnswerAt(pc[c])]

\* The wallet implements the idempotent ledger: a reference is posted at most
\* once, one call is told so, and a repeat is recognised, however calls under
\* the same reference interleave and wherever they die.
ImplementsLedger == Abstract!Spec

\* Once every call has ended the balance is the ledger's sum for good, unless
\* a call died between a movement and its record.
EventuallyExact ==
  <>[]( (balance # NoBalance /\ \A c \in Calls : pc[c] \notin {"ungranted", "stranded"})
          => balance = LedgerSum )

\* What the header of tokenWallet.ts says of spending: no path spends tokens
\* the organisation does not hold.
NeverOverdrawn == balance # NoBalance => balance >= 0

\* What the header of tokenWallet.ts says of the balance: a cache of the
\* ledger's sum, so the two agree once no call is running.
QuiescentBalanceIsLedgerSum ==
  (balance # NoBalance /\ \A c \in Calls : pc[c] \in Ends) => balance = LedgerSum
===============================================================================
