-------------------------- MODULE MCExtractionBilling --------------------------
(***************************************************************************)
(* One quote, two authorize requests (a double click or a retry), one run  *)
(* and two settlers: the upload screen and another replica's sweep, or the *)
(* sweep alone where the question is whether it gets there by itself.      *)
(*                                                                         *)
(* The clock has four readings.  A quote expires after 0..1, an unused     *)
(* debit is abandoned one tick after it was made (as in the code, a quote  *)
(* lives exactly as long as an unused debit is waited for), and a run is   *)
(* presumed dead two ticks after it began.  With no debit and no claim     *)
(* after instant 1, instant 3 is late enough for every decision.  The      *)
(* grace period and the sweep's window both reach past it: what happens a  *)
(* week later is not a question of these runs.                             *)
(***************************************************************************)
EXTENDS ExtractionBilling, TLC

CONSTANTS first, retry, esg, screen, replica, sweep, p1, p2, p3, p4

\* With no settler bound to the sweep's hours, callers of either kind are alike.
Symmetry == Permutations(Authorizers) \cup Permutations(Settlers)

\* Four small documents, each rounded up to a token of its own; together they
\* cost less than their parts.
MCCost == [f \in Files |-> 1]

\* One report for each way decideRefund can judge a run: it threw, nobody
\* received it, nothing was read, one document or all but one were empty, the
\* empty document is not certain.
MCOutcomes ==
  LET Result(delivered, attributed, empty, blank) ==
        [status |-> "resolved", delivered |-> delivered, attributed |-> attributed,
         empty |-> empty, blank |-> blank]
  IN {[status |-> "error"],
      Result(FALSE, TRUE, {}, FALSE),
      Result(TRUE, TRUE, Files, TRUE),
      Result(TRUE, TRUE, {p1}, FALSE),
      Result(TRUE, TRUE, {p1, p2, p3}, FALSE),
      Result(TRUE, FALSE, {p1}, FALSE)}
===============================================================================
