---------------------------- MODULE MCWebServices ----------------------------
(***************************************************************************)
(* Two orders, two refunds, two audit records, one report with two         *)
(* addresses and one ESG tab, so that one run explores the five services.  *)
(***************************************************************************)
EXTENDS WebServices

CONSTANTS
  o1, o2,           \* orders
  q1, q2,           \* quotes owed a refund
  x1, x2,           \* audit records
  f1,               \* a feedback report
  c1, c2            \* addresses

\* o1 has an attempt that fails and one that succeeds, o2 one still pending too.
MCVerdictsOf == [o \in {o1, o2} |-> IF o = o1 THEN {"COMPLETE", "FAILED"} ELSE {"COMPLETE", "OTHER"}]

\* One refund exceeds the daily allowance by itself.
MCOwed == [q \in {q1, q2} |-> IF q = q1 THEN 5 ELSE 2]

\* The other is owed for part of what it was charged.
MCCharged == [q \in {q1, q2} |-> IF q = q1 THEN 5 ELSE 3]
===============================================================================
