------------------------- MODULE QuoteLifecycle_proofs -------------------------
(***************************************************************************)
(* Theorems about QuoteLifecycle, for every set of requests, every expiry  *)
(* and every bound on attempts.                                            *)
(*                                                                         *)
(* Everything rests on HeldIsCurrent: a transaction that Redis will still  *)
(* accept read the record as it stands, so the guard it passed holds of    *)
(* the record it replaces.                                                 *)
(***************************************************************************)
EXTENDS QuoteLifecycle, FiniteSetTheorems, TLAPS

\* WATCH: what an untripped transaction read is the record, and permits its write.
HeldIsCurrent ==
  \A r \in Requests : pc[r] = "exec" /\ r \notin tripped =>
    held[r] = record /\ record # Absent /\ Permits(RouteOf[r], record)

\* The marks of a claim and of a void stay on the record.
WritesAreMarked ==
  record # Absent => /\ WroteAs("claim") # {} => record.consumedAt
                     /\ WroteAs("void") # {} => record.voidedAt

\* One run: OneRun without its cardinality.
RunsAgree == \A r, s \in WroteAs("claim") : r = s

Paid == \E w \in Payments : WroteAs(w) # {}

\* A paid status is a payment's, and the gate lets no run through without one.
GateIsPaid ==
  /\ record # Absent /\ record.status = "paid" => Paid
  /\ \A r \in Requests : RouteOf[r] = "claim" /\ pc[r] \in {"watch", "exec", "reply", "applied"} => Paid

\* ttlSecondsFor: a claimed record has its grace period.
ConsumedHasGrace ==
  record # Absent /\ record.consumedAt => record.deadline >= ExpiresAt + Grace

IInv ==
  /\ TypeOK
  /\ HeldIsCurrent
  /\ WritesAreMarked
  /\ RunsAgree
  /\ NeverVoidedAndRun
  /\ GateIsPaid
  /\ ConsumedHasGrace

-------------------------------------------------------------------------------
\* The absent record is no record.
LEMMA AbsentIsNone == \A rec \in Record : rec # Absent
  BY DEF Record, Absent, Statuses

\* What a write leaves: a record of the same shape that keeps every mark and sets
\* its own, is paid by payments only, and has the grace period once claimed.
LEMMA WrittenFacts ==
  ASSUME NEW w \in Writes, NEW rec \in Record, NEW t \in Nat
  PROVE  /\ Written(w, rec, t) \in Record
         /\ rec.paidAt => Written(w, rec, t).paidAt
         /\ rec.outcome => Written(w, rec, t).outcome
         /\ rec.consumedAt \/ w = "claim" => Written(w, rec, t).consumedAt
         /\ rec.voidedAt \/ w = "void" => Written(w, rec, t).voidedAt
         /\ Written(w, rec, t).status = "paid" => rec.status = "paid" \/ w \in Payments
         /\ Written(w, rec, t).consumedAt => Written(w, rec, t).deadline >= ExpiresAt + Grace
<1> DEFINE p == Patched(w, rec)
<1>1. /\ p \in Record
      /\ rec.paidAt => p.paidAt
      /\ rec.outcome => p.outcome
      /\ rec.consumedAt \/ w = "claim" => p.consumedAt
      /\ rec.voidedAt \/ w = "void" => p.voidedAt
      /\ p.status = "paid" => rec.status = "paid" \/ w \in Payments
  <2>1. CASE w = "checkout"
    BY <2>1 DEF Patched, Record, Statuses, Payments
  <2>2. CASE w \in Payments
    BY <2>2 DEF Patched, Record, Statuses, Payments
  <2>3. CASE w = "fail"
    BY <2>3 DEF Patched, Record, Statuses, Payments
  <2>4. CASE w = "claim"
    BY <2>4 DEF Patched, Record, Statuses, Payments
  <2>5. CASE w = "void"
    BY <2>5 DEF Patched, Record, Statuses, Payments
  <2>6. CASE w = "outcome"
    BY <2>6 DEF Patched, Record, Statuses, Payments
  <2> QED BY <2>1, <2>2, <2>3, <2>4, <2>5, <2>6 DEF Writes, Payments
<1>2. /\ Deadline(p, t) \in Nat
      /\ p.consumedAt => Deadline(p, t) >= ExpiresAt + Grace
  <2>1. ExpiresAt \in Nat /\ Grace \in Nat /\ MinTTL \in Nat
    BY TimesAssumption
  <2> HIDE DEF p
  <2> QED BY <1>1, <2>1 DEF Deadline, Later
<1> HIDE DEF p
<1>3. Written(w, rec, t) = [p EXCEPT !.deadline = Deadline(p, t)]
  BY DEF Written, p
<1> QED BY <1>1, <1>2, <1>3 DEF Record

\* The record quote-files puts is neither claimed nor paid.
LEMMA NewQuoteFacts ==
  /\ NewQuote \in Record
  /\ ~NewQuote.consumedAt
  /\ NewQuote.status # "paid"
BY TimesAssumption DEF NewQuote, Record, Statuses, Later

\* The invariant holds of a quote that has just been priced.
LEMMA InitIInv == Init => IInv
<1> SUFFICES ASSUME Init PROVE IInv
  OBVIOUS
<1>1. TypeOK
  BY NewQuoteFacts, RequestsAssumption DEF Init, TypeOK, Steps, FirstStep
<1>2. \A r \in Requests : pc[r] = FirstStep(RouteOf[r])
  BY DEF Init
<1>3. \A r \in Requests : pc[r] \notin {"exec", "reply", "applied"}
  BY <1>2 DEF FirstStep
<1>4. \A w \in Writes : WroteAs(w) = {}
  BY <1>3 DEF WroteAs, Wrote
<1>5. HeldIsCurrent
  BY <1>3 DEF HeldIsCurrent
<1>6. GateIsPaid
  BY <1>2, NewQuoteFacts DEF GateIsPaid, FirstStep, Init
<1> QED BY <1>1, <1>4, <1>5, <1>6, NewQuoteFacts
        DEF IInv, WritesAreMarked, RunsAgree, NeverVoidedAndRun, ConsumedHasGrace, Init, Writes

-------------------------------------------------------------------------------
\* EXEC replaces the record as it stands, under its guard.
LEMMA ExecReplaces ==
  ASSUME TypeOK, HeldIsCurrent, NEW r \in Requests, Exec(r)
  PROVE  /\ RouteOf[r] \in Writes
         /\ record \in Record
         /\ Permits(RouteOf[r], record)
         /\ record' = Written(RouteOf[r], record, now)
         /\ pc[r] = "exec"
         /\ pc' = [pc EXCEPT ![r] = "reply"]
BY RequestsAssumption DEF TypeOK, HeldIsCurrent, Exec, Goto

\* Time leaves the record as it is, or takes it away.
LEMMA TickKeeps ==
  ASSUME TypeOK, Tick
  PROVE  /\ record' = record \/ record' = Absent
         /\ record # Absent /\ record' = Absent => record.deadline < now'
BY DEF TypeOK, Tick, KeptAt

\* Every step leaves the types as they are.
LEMMA StepType ==
  ASSUME TypeOK, HeldIsCurrent, [Next]_vars
  PROVE  TypeOK'
<1> USE RequestsAssumption DEF TypeOK, Steps, Ends, Goto
<1>1. ASSUME NEW r \in Requests, Get(r) PROVE TypeOK'
  BY <1>1 DEF Get, Judged
<1>2. ASSUME NEW r \in Requests, Watch(r) PROVE TypeOK'
  <2>1. pc' \in [Requests -> Steps \cup Ends]
    BY <1>2 DEF Watch
  <2>2. held' \in [Requests -> Record \cup {Absent}]
    BY <1>2 DEF Watch
  <2> QED BY <1>2, <2>1, <2>2 DEF Watch
<1>3. ASSUME NEW r \in Requests, Exec(r) PROVE TypeOK'
  <2>1. record' \in Record
    BY <1>3, ExecReplaces, WrittenFacts
  <2> QED BY <1>3, <2>1 DEF Exec, Watching
<1>4. ASSUME NEW r \in Requests, ExecAborted(r) PROVE TypeOK'
  BY <1>4 DEF ExecAborted, Retry
<1>5. ASSUME NEW r \in Requests, Reply(r) PROVE TypeOK'
  BY <1>5 DEF Reply
<1>6. ASSUME NEW r \in Requests, RecordAgain(r) PROVE TypeOK'
  BY <1>6 DEF RecordAgain, Retry
<1>7. CASE Tick
  BY <1>7, TickKeeps DEF Tick, Watching
<1>8. CASE UNCHANGED vars
  BY <1>8 DEF vars
<1> QED BY <1>1, <1>2, <1>3, <1>4, <1>5, <1>6, <1>7, <1>8 DEF Next

\* Redis: a transaction that was not tripped is still current after the step.
LEMMA StepHeld ==
  ASSUME TypeOK, HeldIsCurrent, [Next]_vars
  PROVE  HeldIsCurrent'
<1> USE DEF TypeOK, HeldIsCurrent, Goto
<1>1. ASSUME NEW r \in Requests, Get(r) PROVE HeldIsCurrent'
  <2>1. pc'[r] # "exec" /\ \A s \in Requests \ {r} : pc'[s] = pc[s]
    BY <1>1 DEF Get, Judged
  <2> QED BY <1>1, <2>1 DEF Get, Permits
<1>2. ASSUME NEW r \in Requests, Watch(r) PROVE HeldIsCurrent'
  <2>1. pc'[r] = "exec" => record # Absent /\ Permits(RouteOf[r], record) /\ held'[r] = record
    BY <1>2 DEF Watch
  <2>2. \A s \in Requests \ {r} : pc'[s] = pc[s] /\ held'[s] = held[s]
    BY <1>2 DEF Watch
  <2> QED BY <1>2, <2>1, <2>2 DEF Watch, Permits
<1>3. ASSUME NEW r \in Requests, Exec(r) PROVE HeldIsCurrent'
  <2>1. \A s \in Requests : pc'[s] = "exec" => s \in tripped'
    BY <1>3 DEF Exec, Watching
  <2> QED BY <2>1
<1>4. ASSUME NEW r \in Requests, ExecAborted(r) PROVE HeldIsCurrent'
  <2>1. pc'[r] # "exec" /\ \A s \in Requests \ {r} : pc'[s] = pc[s] /\ held'[s] = held[s]
    BY <1>4 DEF ExecAborted, Retry
  <2> QED BY <1>4, <2>1 DEF ExecAborted, Retry, Permits
<1>5. ASSUME NEW r \in Requests, Reply(r) PROVE HeldIsCurrent'
  <2>1. pc'[r] # "exec" /\ \A s \in Requests \ {r} : pc'[s] = pc[s]
    BY <1>5 DEF Reply
  <2> QED BY <1>5, <2>1 DEF Reply, Permits
<1>6. ASSUME NEW r \in Requests, RecordAgain(r) PROVE HeldIsCurrent'
  <2>1. pc'[r] # "exec" /\ \A s \in Requests \ {r} : pc'[s] = pc[s] /\ held'[s] = held[s]
    BY <1>6 DEF RecordAgain, Retry
  <2> QED BY <1>6, <2>1 DEF RecordAgain, Retry, Permits
<1>7. CASE Tick
  <2>1. CASE record' = record
    BY <1>7, <2>1 DEF Tick, Permits
  <2>2. CASE record' # record
    BY <1>7, <2>2 DEF Tick, Watching
  <2> QED BY <2>1, <2>2
<1>8. CASE UNCHANGED vars
  BY <1>8 DEF vars, Permits
<1> QED BY <1>1, <1>2, <1>3, <1>4, <1>5, <1>6, <1>7, <1>8 DEF Next

-------------------------------------------------------------------------------
\* Who wrote what, across the steps that write nothing: only the writing of an
\* outcome is ever taken up again.
LEMMA QuietWrote ==
  ASSUME TypeOK, Next, \A r \in Requests : ~Exec(r)
  PROVE  \A w \in Writes \ {"outcome"} : WroteAs(w)' = WroteAs(w)
<1> USE DEF TypeOK, Goto, WroteAs, Wrote
<1>1. ASSUME NEW r \in Requests, Get(r)
      PROVE  \A w \in Writes \ {"outcome"} : WroteAs(w)' = WroteAs(w)
  BY <1>1 DEF Get, Judged
<1>2. ASSUME NEW r \in Requests, Watch(r)
      PROVE  \A w \in Writes \ {"outcome"} : WroteAs(w)' = WroteAs(w)
  BY <1>2 DEF Watch
<1>3. ASSUME NEW r \in Requests, ExecAborted(r)
      PROVE  \A w \in Writes \ {"outcome"} : WroteAs(w)' = WroteAs(w)
  BY <1>3 DEF ExecAborted, Retry
<1>4. ASSUME NEW r \in Requests, Reply(r)
      PROVE  \A w \in Writes \ {"outcome"} : WroteAs(w)' = WroteAs(w)
  BY <1>4 DEF Reply
<1>5. ASSUME NEW r \in Requests, RecordAgain(r)
      PROVE  \A w \in Writes \ {"outcome"} : WroteAs(w)' = WroteAs(w)
  BY <1>5 DEF RecordAgain, Retry
<1>6. CASE Tick
  BY <1>6 DEF Tick
<1> QED BY <1>1, <1>2, <1>3, <1>4, <1>5, <1>6 DEF Next

\* ... and across the one that writes.
LEMMA ExecWrote ==
  ASSUME TypeOK, NEW r \in Requests, Exec(r)
  PROVE  \A w \in Writes : WroteAs(w)' = IF RouteOf[r] = w THEN WroteAs(w) \cup {r} ELSE WroteAs(w)
BY DEF TypeOK, Goto, WroteAs, Wrote, Exec

\* A step that is no EXEC leaves the record, or takes it away.
LEMMA QuietRecord ==
  ASSUME TypeOK, Next, \A r \in Requests : ~Exec(r)
  PROVE  record' = record \/ record' = Absent
BY TickKeeps DEF Next, Get, Watch, ExecAborted, Retry, Reply, RecordAgain

\* A claim and a void exclude each other and every second claim: the marks on the
\* record stand for the writes that set them.
LEMMA StepExclusive ==
  ASSUME IInv, [Next]_vars
  PROVE  WritesAreMarked' /\ RunsAgree' /\ NeverVoidedAndRun'
<1> USE DEF IInv
<1>1. ASSUME NEW r \in Requests, Exec(r)
      PROVE  WritesAreMarked' /\ RunsAgree' /\ NeverVoidedAndRun'
  <2>1. record \in Record /\ record # Absent
    BY <1>1, ExecReplaces, AbsentIsNone
  <2>2. /\ record.consumedAt \/ RouteOf[r] = "claim" => record'.consumedAt
        /\ record.voidedAt \/ RouteOf[r] = "void" => record'.voidedAt
    <3>1. now \in Nat
      BY DEF TypeOK
    <3> QED BY <1>1, <3>1, ExecReplaces, WrittenFacts
  <2>3. /\ WroteAs("claim")' = IF RouteOf[r] = "claim" THEN WroteAs("claim") \cup {r} ELSE WroteAs("claim")
        /\ WroteAs("void")' = IF RouteOf[r] = "void" THEN WroteAs("void") \cup {r} ELSE WroteAs("void")
    BY <1>1, ExecWrote DEF Writes
  <2>4. WritesAreMarked'
    BY <2>1, <2>2, <2>3 DEF WritesAreMarked
  <2>5. CASE RouteOf[r] = "claim"
    <3>1. WroteAs("claim") = {} /\ WroteAs("void") = {}
      BY <1>1, <2>1, <2>5, ExecReplaces DEF Permits, WritesAreMarked
    <3> QED BY <2>3, <2>4, <2>5, <3>1 DEF RunsAgree, NeverVoidedAndRun
  <2>6. CASE RouteOf[r] = "void"
    <3>1. WroteAs("claim") = {}
      BY <1>1, <2>1, <2>6, ExecReplaces DEF Permits, WritesAreMarked
    <3> QED BY <2>3, <2>4, <2>6, <3>1 DEF RunsAgree, NeverVoidedAndRun
  <2>7. CASE RouteOf[r] \notin {"claim", "void"}
    BY <2>3, <2>4, <2>7 DEF RunsAgree, NeverVoidedAndRun
  <2> QED BY <2>5, <2>6, <2>7
<1>2. CASE Next /\ \A r \in Requests : ~Exec(r)
  <2>1. WroteAs("claim")' = WroteAs("claim") /\ WroteAs("void")' = WroteAs("void")
    BY <1>2, QuietWrote DEF Writes
  <2>2. record' = record \/ record' = Absent
    BY <1>2, QuietRecord
  <2> QED BY <2>1, <2>2 DEF WritesAreMarked, RunsAgree, NeverVoidedAndRun
<1>3. CASE UNCHANGED vars
  BY <1>3 DEF vars, WroteAs, Wrote, WritesAreMarked, RunsAgree, NeverVoidedAndRun
<1> QED BY <1>1, <1>2, <1>3

\* Payments that were written stay written.
LEMMA PaidStays ==
  ASSUME TypeOK, [Next]_vars, Paid
  PROVE  Paid'
<1>1. PICK w \in Payments : WroteAs(w) # {}
  BY DEF Paid
<1>2. w \in Writes \ {"outcome"}
  BY DEF Payments, Writes
<1>3. WroteAs(w) \subseteq WroteAs(w)'
  <2>1. ASSUME NEW r \in Requests, Exec(r) PROVE WroteAs(w) \subseteq WroteAs(w)'
    BY <1>2, <2>1, ExecWrote
  <2>2. CASE Next /\ \A r \in Requests : ~Exec(r)
    BY <1>2, <2>2, QuietWrote
  <2>3. CASE UNCHANGED vars
    BY <2>3 DEF vars, WroteAs, Wrote
  <2> QED BY <2>1, <2>2, <2>3
<1> QED BY <1>1, <1>3 DEF Paid

\* The gate: a claim goes on to write only from a record that was paid.
LEMMA StepPaid ==
  ASSUME IInv, [Next]_vars
  PROVE  GateIsPaid'
<1> USE DEF IInv
<1>1. record' # Absent /\ record'.status = "paid" => Paid'
  <2>1. ASSUME NEW r \in Requests, Exec(r), record'.status = "paid" PROVE Paid'
    <3>1. record.status = "paid" \/ RouteOf[r] \in Payments
      <4>1. now \in Nat
        BY DEF TypeOK
      <4> QED BY <2>1, <4>1, ExecReplaces, WrittenFacts
    <3>2. CASE RouteOf[r] \in Payments
      BY <2>1, <3>2, ExecWrote, ExecReplaces DEF Paid
    <3>3. CASE record.status = "paid"
      BY <2>1, <3>3, ExecReplaces, AbsentIsNone, PaidStays DEF GateIsPaid
    <3> QED BY <3>1, <3>2, <3>3
  <2>2. CASE Next /\ \A r \in Requests : ~Exec(r)
    BY <2>2, QuietRecord, PaidStays DEF GateIsPaid
  <2>3. CASE UNCHANGED vars
    BY <2>3, PaidStays DEF GateIsPaid, vars
  <2> QED BY <2>1, <2>2, <2>3
<1>2. ASSUME NEW s \in Requests, RouteOf[s] = "claim", pc'[s] \in {"watch", "exec", "reply", "applied"}
      PROVE  Paid'
  <2>1. CASE pc[s] \in {"watch", "exec", "reply", "applied"}
    BY <1>2, <2>1, PaidStays DEF GateIsPaid
  <2>2. CASE pc[s] \notin {"watch", "exec", "reply", "applied"}
    <3>1. Get(s) /\ pc'[s] = "watch"
      <4>1. PICK r \in Requests : Get(r) \/ Watch(r) \/ Exec(r) \/ ExecAborted(r) \/ Reply(r) \/ RecordAgain(r)
        BY <1>2, <2>2 DEF Next, Tick, vars
      <4>2. /\ pc[r] # "get" => pc[r] \in {"watch", "exec", "reply"}
            /\ pc[r] = "get" => Get(r)
            /\ \A d \in Requests \ {r} : pc'[d] = pc[d]
        BY <4>1 DEF Goto, Get, Watch, Exec, ExecAborted, Retry, Reply, RecordAgain, TypeOK
      <4>3. r = s /\ pc[r] = "get" /\ Get(r)
        BY <1>2, <2>2, <4>2
      <4>4. Judged(RouteOf[s], record) \in {"watch", "already", "refused"}
        BY DEF Judged
      <4> QED BY <1>2, <4>3, <4>4 DEF Get, Goto, TypeOK
    <3>2. record # Absent /\ GateOpens(record)
      <4>1. Proceeds("claim", record) <=> GateOpens(record)
        BY DEF Proceeds
      <4>2. pc'[s] = "watch" => record # Absent /\ Proceeds(RouteOf[s], record)
        <5>1. record # Absent /\ Judged(RouteOf[s], record) = "watch"
          BY <3>1 DEF Get, Goto, TypeOK
        <5> QED BY <5>1, <1>2 DEF Judged, AlreadySettled
      <4> QED BY <1>2, <3>1, <4>1, <4>2
    <3> QED BY <3>2, PaidStays DEF GateOpens, GateIsPaid
  <2> QED BY <2>1, <2>2
<1> QED BY <1>1, <1>2 DEF GateIsPaid

\* Every write leaves a claimed record its grace period, and time takes none away.
LEMMA StepGrace ==
  ASSUME IInv, [Next]_vars
  PROVE  ConsumedHasGrace'
<1> USE DEF IInv
<1>1. ASSUME NEW r \in Requests, Exec(r) PROVE ConsumedHasGrace'
  <2>1. now \in Nat
    BY DEF TypeOK
  <2> QED BY <1>1, <2>1, ExecReplaces, WrittenFacts DEF ConsumedHasGrace
<1>2. CASE Next /\ \A r \in Requests : ~Exec(r)
  BY <1>2, QuietRecord DEF ConsumedHasGrace
<1>3. CASE UNCHANGED vars
  BY <1>3 DEF vars, ConsumedHasGrace
<1> QED BY <1>1, <1>2, <1>3

\* The invariant is inductive, and holds throughout.
THEOREM IInvHolds == Spec => []IInv
<1>1. IInv /\ [Next]_vars => IInv'
  BY StepType, StepHeld, StepExclusive, StepPaid, StepGrace DEF IInv
<1> QED BY <1>1, InitIInv, PTL DEF Spec

\* Type correctness of the quote store and of the requests over it.
THEOREM TypeCorrect == Spec => []TypeOK
<1>1. IInv => TypeOK
  BY DEF IInv
<1> QED BY <1>1, IInvHolds, PTL

\* One payment buys one extraction, whatever number of runs pass the gate
\* (claimQuoteForRun).
THEOREM OneRunHolds == Spec => []OneRun
<1>1. IInv => OneRun
  <2> SUFFICES ASSUME IInv PROVE Cardinality(WroteAs("claim")) <= 1
    BY DEF OneRun
  <2>1. CASE WroteAs("claim") = {}
    BY <2>1, FS_EmptySet
  <2>2. CASE WroteAs("claim") # {}
    <3>1. PICK r : WroteAs("claim") = {r}
      BY <2>2 DEF IInv, RunsAgree
    <3> QED BY <3>1, FS_Singleton
  <2> QED BY <2>1, <2>2
<1> QED BY <1>1, IInvHolds, PTL

\* A refund and a run never share a payment (the void route, claimQuoteForRun).
THEOREM VoidExcludesRun == Spec => []NeverVoidedAndRun
<1>1. IInv => NeverVoidedAndRun
  BY DEF IInv
<1> QED BY <1>1, IInvHolds, PTL

\* A run that claimed the quote was paid for (authoriseExtraction).
THEOREM PaidBeforeRun == Spec => []RunWasPaid
<1>1. IInv => RunWasPaid
  BY DEF IInv, GateIsPaid, RunWasPaid, Paid, WroteAs, Wrote
<1> QED BY <1>1, IInvHolds, PTL

\* No write takes a mark away (updateIf's WATCH).
THEOREM MarksStay == Spec => MarksAreNeverLost
<1>1. IInv /\ [Next]_vars => [record # Absent /\ record' # Absent => Marks(record) \subseteq Marks(record')]_vars
  <2> SUFFICES ASSUME IInv, [Next]_vars, record # Absent, record' # Absent
               PROVE  Marks(record) \subseteq Marks(record')
    OBVIOUS
  <2>1. ASSUME NEW r \in Requests, Exec(r) PROVE Marks(record) \subseteq Marks(record')
    <3>1. TypeOK /\ HeldIsCurrent /\ now \in Nat
      BY DEF IInv, TypeOK
    <3>2. /\ record.paidAt => record'.paidAt
          /\ record.outcome => record'.outcome
          /\ record.consumedAt => record'.consumedAt
          /\ record.voidedAt => record'.voidedAt
      BY <2>1, <3>1, ExecReplaces, WrittenFacts
    <3>3. record \in Record /\ record' \in Record
      BY <3>1, StepType DEF TypeOK
    <3> QED BY <3>2, <3>3 DEF Marks, Record
  <2>2. CASE Next /\ \A r \in Requests : ~Exec(r)
    BY <2>2, QuietRecord DEF IInv
  <2>3. CASE UNCHANGED vars
    BY <2>3 DEF vars
  <2> QED BY <2>1, <2>2, <2>3
<1> QED BY <1>1, IInvHolds, PTL DEF Spec, MarksAreNeverLost

\* A claimed record outlives its expiry by the grace period (ttlSecondsFor).
THEOREM ConsumedStays == Spec => ConsumedIsKept
<1>1. IInv /\ [Next]_vars
        => [record # Absent /\ record' = Absent /\ record.consumedAt => now' > ExpiresAt + Grace]_vars
  <2> SUFFICES ASSUME IInv, [Next]_vars, record # Absent, record' = Absent, record.consumedAt
               PROVE  now' > ExpiresAt + Grace
    OBVIOUS
  <2>1. TypeOK /\ HeldIsCurrent /\ record \in Record
    BY DEF IInv, TypeOK
  <2>2. \A r \in Requests : ~Exec(r)
    BY <2>1, ExecReplaces, WrittenFacts, AbsentIsNone DEF TypeOK
  <2>3. Tick
    BY <2>2 DEF Next, vars, Get, Watch, ExecAborted, Retry, Reply, RecordAgain
  <2>4. record.deadline < now' /\ record.deadline >= ExpiresAt + Grace
    BY <2>1, <2>3, TickKeeps DEF IInv, ConsumedHasGrace
  <2>5. record.deadline \in Nat /\ now' \in Nat /\ ExpiresAt \in Nat /\ Grace \in Nat
    BY <2>1, <2>3, TimesAssumption DEF Record, TypeOK, Tick
  <2> QED BY <2>4, <2>5
<1> QED BY <1>1, IInvHolds, PTL DEF Spec, ConsumedIsKept

-------------------------------------------------------------------------------
\* Requests that have had the one write they may have.
WroteOnce == {r \in Wrote : RouteOf[r] # "outcome"}

\* A step that is no EXEC gives and takes no such write.
LEMMA QuietOnce ==
  ASSUME TypeOK, Next, \A r \in Requests : ~Exec(r)
  PROVE  WroteOnce' = WroteOnce
<1> USE DEF TypeOK, Goto, WroteOnce, Wrote
<1>1. ASSUME NEW r \in Requests, Get(r) PROVE WroteOnce' = WroteOnce
  BY <1>1 DEF Get, Judged
<1>2. ASSUME NEW r \in Requests, Watch(r) PROVE WroteOnce' = WroteOnce
  BY <1>2 DEF Watch
<1>3. ASSUME NEW r \in Requests, ExecAborted(r) PROVE WroteOnce' = WroteOnce
  BY <1>3 DEF ExecAborted, Retry
<1>4. ASSUME NEW r \in Requests, Reply(r) PROVE WroteOnce' = WroteOnce
  BY <1>4 DEF Reply
<1>5. ASSUME NEW r \in Requests, RecordAgain(r) PROVE WroteOnce' = WroteOnce
  BY <1>5 DEF RecordAgain, Retry
<1>6. CASE Tick
  BY <1>6 DEF Tick
<1> QED BY <1>1, <1>2, <1>3, <1>4, <1>5, <1>6 DEF Next

\* The transactions implement atomic guarded writes: EXEC is the write, the
\* clock is the clock, and every other step is invisible.
THEOREM Refinement == Spec => ImplementsAtomicQuote
<1> USE DEF WroteOnce
<1>1. Init => Atomic!Init
  <2> SUFFICES ASSUME Init PROVE Atomic!Init
    OBVIOUS
  <2>1. Wrote = {}
    BY DEF Init, FirstStep, Wrote
  <2> QED BY <2>1 DEF Init, Atomic!Init, NewQuote, Atomic!NewQuote, Later, Atomic!Later
<1>2. IInv /\ [Next]_vars => [Atomic!Next]_(Atomic!vars)
  <2> SUFFICES ASSUME IInv, [Next]_vars PROVE [Atomic!Next]_(Atomic!vars)
    OBVIOUS
  <2>1. TypeOK /\ HeldIsCurrent
    BY DEF IInv
  <2>2. ASSUME NEW r \in Requests, Exec(r) PROVE Atomic!Write(r)
    <3>1. record # Absent /\ Permits(RouteOf[r], record) /\ record' = Written(RouteOf[r], record, now)
      BY <2>1, <2>2, ExecReplaces, AbsentIsNone
    <3>2. Written(RouteOf[r], record, now) = Atomic!Written(RouteOf[r], record, now)
      BY DEF Written, Atomic!Written, Patched, Atomic!Patched, Deadline, Atomic!Deadline,
             Later, Atomic!Later, Payments, Atomic!Payments
    <3>3. r \notin WroteOnce
      BY <2>1, <2>2, ExecReplaces DEF Wrote
    <3>4. WroteOnce' = IF RouteOf[r] = "outcome" THEN WroteOnce ELSE WroteOnce \cup {r}
      BY <2>1, <2>2, ExecReplaces DEF Wrote, TypeOK
    <3>5. now' = now
      BY <2>2 DEF Exec
    <3> QED BY <3>1, <3>2, <3>3, <3>4, <3>5 DEF Atomic!Write, Atomic!Permits, Permits, Absent, Atomic!Absent
  <2>3. CASE Tick
    <3>1. WroteOnce' = WroteOnce
      BY <2>3 DEF Tick, Wrote
    <3>2. Atomic!Tick
      BY <2>3, <3>1 DEF Tick, Atomic!Tick, KeptAt, Atomic!KeptAt, Absent, Atomic!Absent
    <3> QED BY <3>2 DEF Atomic!Next
  <2>4. CASE Next /\ ~Tick /\ \A r \in Requests : ~Exec(r)
    <3>1. record' = record /\ now' = now
      BY <2>4 DEF Next, Get, Watch, ExecAborted, Retry, Reply, RecordAgain
    <3>2. WroteOnce' = WroteOnce
      BY <2>1, <2>4, QuietOnce
    <3> QED BY <3>1, <3>2 DEF Atomic!vars
  <2>5. CASE UNCHANGED vars
    BY <2>5 DEF vars, Atomic!vars, Wrote
  <2> QED BY <2>2, <2>3, <2>4, <2>5 DEF Atomic!Next
<1> QED BY <1>1, <1>2, IInvHolds, PTL DEF Spec, Atomic!Spec, ImplementsAtomicQuote
===============================================================================
