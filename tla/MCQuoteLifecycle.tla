--------------------------- MODULE MCQuoteLifecycle ---------------------------
(***************************************************************************)
(* A quote settled from the wallet while a card checkout is open, with two *)
(* runs, a refund of the unused quote and the outcome of whichever run got *)
(* it; and a quote paid by card whose earlier attempt failed.  A quote     *)
(* lives for one tick, the grace period is two, the floor of a key's time  *)
(* to live one: a write at the last instant outlives the expiry, and the   *)
(* grace period outlives both.                                             *)
(***************************************************************************)
EXTENDS QuoteLifecycle

CONSTANTS settle, checkout, run1, run2, refund, recorded, itn, failedItn

MCRequests == {settle, checkout, run1, run2, refund, recorded}
MCCardRequests == {itn, failedItn, checkout}

RouteOfRequest(r) ==
  CASE r = settle -> "settle"
    [] r = checkout -> "checkout"
    [] r \in {run1, run2} -> "claim"
    [] r = refund -> "void"
    [] r = recorded -> "outcome"
    [] r = itn -> "complete"
    [] r = failedItn -> "fail"

MCRouteOf == [r \in Requests |-> RouteOfRequest(r)]
===============================================================================
