------------------------------ MODULE AtomicQuote ------------------------------
(***************************************************************************)
(* What the quote store promises the routes: every write is one atomic    *)
(* step, its guard is judged on the very record it replaces, and a request *)
(* writes at most once.  Recording an outcome is the exception: it is      *)
(* retried when its answer is lost, and may be written again.              *)
(*                                                                         *)
(* Module QuoteLifecycle implements this with WATCH, GET and MULTI/EXEC.   *)
(***************************************************************************)
EXTENDS QuoteRecord

CONSTANTS Requests, RouteOf

VARIABLES record, now, written

vars == <<record, now, written>>

Init ==
  /\ record = NewQuote
  /\ now = 0
  /\ written = {}

Write(r) ==
  /\ record # Absent
  /\ Permits(RouteOf[r], record)
  /\ r \notin written
  /\ record' = Written(RouteOf[r], record, now)
  /\ written' = IF RouteOf[r] = "outcome" THEN written ELSE written \cup {r}
  /\ UNCHANGED now

Tick ==
  /\ now' = now + 1
  /\ record' = KeptAt(record, now + 1)
  /\ UNCHANGED written

Next == Tick \/ \E r \in Requests : Write(r)

Spec == Init /\ [][Next]_vars
===============================================================================
