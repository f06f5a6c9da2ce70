---------------------------- MODULE MCTokenWallet ----------------------------
(***************************************************************************)
(* One organisation and the smallest set of calls that has every           *)
(* collision: the two paths that refund one quote, one all of it and one   *)
(* a part, two requests that spend on another quote, and a batch priced at *)
(* nothing.  The spend is affordable only while both refunds are on the    *)
(* balance, and then with nothing to spare.                                *)
(***************************************************************************)
EXTENDS TokenWallet

CONSTANTS authorize, settlement, spend1, spend2, freebie,  \* calls
          grant, refund, extract, unpriced                 \* references

MCCalls == {authorize, settlement, spend1, spend2, freebie}
MCReferences == {refund, extract, unpriced}

MCAmount ==
  [l \in Lines |-> CASE l = grant -> 2
                     [] l = authorize -> 3
                     [] l = settlement -> 2
                     [] l \in {spend1, spend2} -> -7
                     [] l = freebie -> 0]

MCRefOf ==
  [c \in MCCalls |-> CASE c \in {authorize, settlement} -> refund
                       [] c \in {spend1, spend2} -> extract
                       [] c = freebie -> unpriced]
===============================================================================
