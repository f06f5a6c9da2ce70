--------------------------- MODULE IdempotentLedger ---------------------------
(***************************************************************************)
(* What the credit wallet promises its callers, with no balance in sight: *)
(* a movement carries a reference, the reference is posted to the ledger  *)
(* at most once, exactly one call is told that it posted it, and every    *)
(* later call under the same reference is told that the movement already  *)
(* stands.  A call may also be refused (a debit the balance does not      *)
(* cover), have nothing to move, or be lost, before or after its posting. *)
(*                                                                         *)
(* Module TokenWallet implements this with one MongoDB document for the   *)
(* balance and one uniquely indexed collection for the ledger.            *)
(***************************************************************************)
CONSTANTS
  Calls,        \* calls of debitTokens and creditTokens
  References,   \* idempotency keys: extract:<quote>, refund:<quote>, ...
  RefOf         \* the reference each call carries

VARIABLES
  posted,       \* references in the ledger
  answer        \* what each call has been told

vars == <<posted, answer>>

Answers == {"none", "applied", "alreadyApplied", "refused", "nothing", "lost"}

TypeOK ==
  /\ posted \subseteq References
  /\ answer \in [Calls -> Answers]

Init ==
  /\ posted = {}
  /\ answer = [c \in Calls |-> "none"]

Tell(c, a) ==
  /\ answer[c] = "none"
  /\ answer' = [answer EXCEPT ![c] = a]

\* The one call that posts its reference.
Post(c) ==
  /\ RefOf[c] \notin posted
  /\ posted' = posted \cup {RefOf[c]}
  /\ Tell(c, "applied")

\* Every other call under that reference: recognised, never applied again.
Recognise(c) ==
  /\ RefOf[c] \in posted
  /\ Tell(c, "alreadyApplied")
  /\ UNCHANGED posted

\* Nothing moved: not covered by the balance, a zero amount, or a lost call.
Decline(c) ==
  /\ \E a \in {"refused", "nothing", "lost"} : Tell(c, a)
  /\ UNCHANGED posted

Next == \E c \in Calls : Post(c) \/ Recognise(c) \/ Decline(c)

Spec == Init /\ [][Next]_vars
===============================================================================
