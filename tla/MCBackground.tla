----------------------------- MODULE MCBackground -----------------------------
(***************************************************************************)
(* Three lives of two containers; two records of a section that share a    *)
(* key and a third; and one tab with two sections, so that one run explores*)
(* the three activities.                                                   *)
(***************************************************************************)
EXTENDS Background, MCWorkbookAutosave

CONSTANTS
  l1, l2, l3,       \* lives of containers: l1 and then l2 of pod "a", l3 of pod "b"
  e1, e2, e3,       \* records of the section
  kA, kB,           \* composite keys
  w1, w2, d1, d2    \* flushes, drainers

MCNameOf == [p \in {l1, l2, l3} |-> IF p = l3 THEN "b" ELSE "a"]

MCOneName == [p \in {l1} |-> "a"]

\* A record that is created and deleted, one with its key, and one beside them.
MCKeyOf == [e \in {e1, e2, e3} |-> IF e = e1 THEN <<kA, kA>> ELSE IF e = e2 THEN <<kA>> ELSE <<kB>>]

\* A record that changes its key, and is deleted under the new one.
MCRenamedKeyOf == [e \in {e1} |-> <<kA, kB, kB>>]

\* One item of a batch, as flushBatch applies it to the rows of its key.
Item(list, p) == RowOf(p) \o (IF list = <<>> THEN <<>> ELSE Tail(list))

\* What the model keeps of a batch does what its items do one by one.
ASSUME BatchIsItsItems ==
  \A n, m \in 0..3 : \A items \in [1..n -> Payloads], list \in [1..m -> Payloads] :
    LET batch[i \in 0..n] == IF i = 0 THEN NoOps ELSE With(batch[i - 1], items[i])
        after[i \in 0..n] == IF i = 0 THEN list ELSE Item(after[i - 1], items[i])
    IN Applied(batch[n], list) = after[n]
===============================================================================
