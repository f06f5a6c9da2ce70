-------------------------- MODULE EsgWorkbook_proofs --------------------------
(***************************************************************************)
(* What module EsgWorkbook promises of the lock, for every set of tabs,    *)
(* handlers and sections and every number of turns.                        *)
(***************************************************************************)
EXTENDS EsgWorkbook, TLAPS

LEMMA EsgInitTypes == EsgInit => EsgTypeOK
<1> SUFFICES ASSUME EsgInit PROVE EsgTypeOK
  OBVIOUS
<1>1. 0 \in Turns
  BY EsgConstants DEF Turns
<1>2. [filled |-> FALSE, mirror |-> 0, trail |-> 0] \in Cells
  BY <1>1 DEF Cells
<1>3. workbook \in Workbooks
  BY <1>1, <1>2 DEF EsgInit, Workbooks
<1>4. turns \in Turns /\ last \in 0..turns /\ reopened \in Turns
  BY <1>1 DEF EsgInit
<1>5. /\ \A t \in Tabs : copy[t] \in {NoCopy}
      /\ \A r \in Handlers : handler[r] \in {Idle}
  BY DEF EsgInit
<1>6. outdated \in BOOLEAN
  BY Zenon DEF EsgInit
<1> QED
  BY <1>3, <1>4, <1>5, <1>6 DEF EsgInit, EsgTypeOK

\* What a request in flight will store is a workbook.
LEMMA OutcomeTypes ==
  ASSUME EsgTypeOK, NEW r \in Handlers, handler[r] # Idle
  PROVE  /\ handler[r].kind \in {"save", "import", "submit", "unlock"}
         /\ handler[r].section \in Sections
         /\ handler[r].turn \in Turns
         /\ handler[r].outcome \in Workbooks
         /\ handler[r].readAt \in Turns
         /\ handler[r].copiedAt \in Turns
BY DEF EsgTypeOK

\* A request that begins keeps the types.
LEMMA BeginTypes ==
  ASSUME EsgTypeOK, NEW r \in Handlers,
         NEW kind \in {"save", "import", "submit", "unlock"}, NEW k \in Sections,
         NEW turn \in Turns, NEW outcome \in Workbooks, NEW at \in Turns,
         Begin(r, kind, k, turn, outcome, at)
  PROVE  handler' \in [Handlers -> {Idle} \cup
       [kind : {"save", "import", "submit", "unlock"}, section : Sections,
        turn : Turns, outcome : Workbooks, readAt : Turns, copiedAt : Turns]]
<1>1. last \in Turns
  BY EsgConstants DEF EsgTypeOK, Turns
<1> QED
  BY <1>1 DEF EsgTypeOK, Begin

\* A section written into a workbook leaves a workbook.
LEMMA SectionTypes ==
  ASSUME NEW wb \in Workbooks, NEW k \in Sections, NEW cells \in Cells
  PROVE  /\ [wb EXCEPT !.sections[k] = cells] \in Workbooks
         /\ [wb EXCEPT !.sections[k] = cells].submitted = wb.submitted
         /\ [wb EXCEPT !.sections[k] = cells].sections = [wb.sections EXCEPT ![k] = cells]
BY DEF Workbooks

\* What submission makes of a workbook.
LEMMA SubmitOutcome ==
  ASSUME NEW wb \in Workbooks, NEW n \in Turns
  PROVE  /\ ApplySubmit(wb, n) \in Workbooks
         /\ ApplySubmit(wb, n).submitted = n
         /\ ApplySubmit(wb, n).sections[Assumptions].mirror = n
         /\ ApplySubmit(wb, n).sections[Assumptions].trail = wb.sections[Assumptions].trail
         /\ \A k \in Sections : ApplySubmit(wb, n).sections[k].filled = wb.sections[k].filled
<1>1. Assumptions \in Sections
  BY DEF Sections
<1> QED
  BY <1>1 DEF ApplySubmit, Workbooks, Cells

\* What reopening makes of a workbook.
LEMMA UnlockOutcome ==
  ASSUME NEW wb \in Workbooks
  PROVE  /\ ApplyReopen(wb) \in Workbooks
         /\ ApplyReopen(wb).submitted = 0
         /\ ApplyReopen(wb).sections[Assumptions].mirror = 0
         /\ ApplyReopen(wb).sections[Assumptions].trail = wb.submitted
<1>1. Assumptions \in Sections /\ 0 \in Turns
  BY EsgConstants DEF Sections, Turns
<1> QED
  BY <1>1 DEF ApplyReopen, Workbooks, Cells

-------------------------------------------------------------------------------
\* The requests and the copies of a state, one conjunct per reason the lock holds.

\* A turn is stored once: nothing was read after a turn still to be stored.
TurnsAreFresh ==
  \A r \in Handlers : (handler[r] # Idle /\ IsTurn(r)) =>
    /\ handler[r].turn # last
    /\ handler[r].turn \in 0..turns
    /\ \A q \in Handlers : handler[q] # Idle =>
         /\ handler[r].turn # handler[q].readAt
         /\ handler[r].turn # handler[q].copiedAt
         /\ (IsTurn(q) /\ handler[q].turn = handler[r].turn) => q = r
    /\ \A t \in Tabs : copy[t] # NoCopy => handler[r].turn # copy[t].of

\* Nothing is marked with a turn that has not begun.
MarksAreOld ==
  /\ \A r \in Handlers : handler[r] # Idle =>
       handler[r].readAt \in 0..turns /\ handler[r].copiedAt \in 0..turns
  /\ \A t \in Tabs : copy[t] # NoCopy => copy[t].of \in 0..turns

\* Only a submission stores a lock, and only over what it validated.
OutcomesAreJudged ==
  \A r \in Handlers : handler[r] # Idle =>
    /\ handler[r].kind # "submit" => handler[r].outcome.submitted = 0
    /\ handler[r].kind = "submit" =>
         /\ Valid(handler[r].outcome.sections)
         /\ handler[r].outcome.sections[Assumptions].mirror = handler[r].outcome.submitted
    /\ handler[r].kind = "unlock" => handler[r].outcome.sections[Assumptions].mirror = 0

\* What read an open workbook of this turn still finds it open.
OpenSinceRead ==
  \A r \in Handlers : (handler[r] # Idle /\ handler[r].kind # "unlock" /\ handler[r].readAt = last)
    => ~Locked

\* What was read or copied in this turn carries its record.
RecordsAreCarried ==
  ~outdated =>
    /\ \A r \in Handlers : (handler[r] # Idle /\ handler[r].kind # "unlock" /\ ~Outdated(r)) =>
         /\ handler[r].outcome.sections[Assumptions].trail = reopened
         /\ handler[r].outcome.sections[Assumptions].mirror = handler[r].outcome.submitted
    /\ \A t \in Tabs : (copy[t] # NoCopy /\ copy[t].of = last) =>
         /\ copy[t].sections[Assumptions].trail = reopened
         /\ copy[t].sections[Assumptions].mirror = workbook.submitted

EsgInv ==
  /\ EsgTypeOK
  /\ TurnsAreFresh
  /\ MarksAreOld
  /\ OutcomesAreJudged
  /\ OpenSinceRead
  /\ RecordsAreCarried
  /\ SubmittedIsValid
  /\ RecordAgrees
-------------------------------------------------------------------------------
LEMMA EsgInitInv == EsgInit => EsgInv
<1> SUFFICES ASSUME EsgInit PROVE EsgInv
  OBVIOUS
<1>1. EsgTypeOK
  BY EsgInitTypes
<1>2. Assumptions \in Sections
  BY DEF Sections
<1>3. /\ \A r \in Handlers : handler[r] = Idle
      /\ \A t \in Tabs : copy[t] = NoCopy
      /\ ~Locked
  BY DEF EsgInit, Locked
<1>4. RecordAgrees
  BY <1>2 DEF EsgInit, RecordAgrees
<1> QED
  BY <1>1, <1>3, <1>4 DEF EsgInv, TurnsAreFresh, MarksAreOld, OutcomesAreJudged,
     OpenSinceRead, RecordsAreCarried, SubmittedIsValid

\* A request that begins keeps the invariant, whatever it is, when it decides on
\* the workbook as it is and its copy is no younger than that.
LEMMA BeginKeeps ==
  ASSUME EsgInv, EsgTypeOK', NEW r \in Handlers, handler[r] = Idle,
         NEW kind \in {"save", "import", "submit", "unlock"}, NEW k \in Sections,
         NEW turn \in Turns, NEW outcome \in Workbooks, NEW at \in 0..turns,
         Begin(r, kind, k, turn, outcome, at),
         UNCHANGED <<workbook, last, reopened, outdated>>,
         turns' = turns \/ turns' = turns + 1,
         kind \in {"submit", "unlock"} => turn = turns + 1 /\ turns' = turns + 1,
         \A q \in Handlers : (handler[q] # Idle /\ IsTurn(q)) => handler[q].turn # at,
         kind # "unlock" => ~Locked,
         kind # "submit" => outcome.submitted = 0,
         kind = "submit" => /\ Valid(outcome.sections)
                            /\ outcome.sections[Assumptions].mirror = outcome.submitted,
         kind = "unlock" => outcome.sections[Assumptions].mirror = 0,
         (~outdated /\ kind # "unlock" /\ at = last) =>
            /\ outcome.sections[Assumptions].trail = reopened
            /\ outcome.sections[Assumptions].mirror = outcome.submitted,
         \A t \in Tabs : copy'[t] # NoCopy =>
            /\ copy[t] # NoCopy
            /\ copy'[t].of = copy[t].of
            /\ copy'[t].sections[Assumptions].trail = copy[t].sections[Assumptions].trail
            /\ copy'[t].sections[Assumptions].mirror = copy[t].sections[Assumptions].mirror
  PROVE  EsgInv'
<1>1. /\ turns \in Nat /\ last \in 0..turns
      /\ turns' \in Nat /\ 0..turns \subseteq 0..turns'
  BY EsgConstants DEF EsgInv, EsgTypeOK, Turns
<1>2. handler'[r] = [kind |-> kind, section |-> k, turn |-> turn, outcome |-> outcome,
                     readAt |-> last, copiedAt |-> at]
  BY DEF Begin, EsgInv, EsgTypeOK
<1>3. \A q \in Handlers : q # r => handler'[q] = handler[q]
  BY DEF Begin, EsgInv, EsgTypeOK
<1>4. TurnsAreFresh'
  <2> SUFFICES ASSUME NEW p \in Handlers, handler'[p] # Idle, IsTurn(p)'
               PROVE  /\ handler'[p].turn # last'
                      /\ handler'[p].turn \in 0..turns'
                      /\ \A q \in Handlers : handler'[q] # Idle =>
                           /\ handler'[p].turn # handler'[q].readAt
                           /\ handler'[p].turn # handler'[q].copiedAt
                           /\ (IsTurn(q)' /\ handler'[q].turn = handler'[p].turn) => q = p
                      /\ \A t \in Tabs : copy'[t] # NoCopy => handler'[p].turn # copy'[t].of
    BY DEF TurnsAreFresh
  <2>1. CASE p = r
    <3>1. handler'[p].turn = turns + 1 /\ turns' = turns + 1
      BY <1>2, <2>1 DEF IsTurn
    <3>2. \A q \in Handlers : (handler'[q] # Idle /\ q # r) =>
            /\ handler[q].readAt \in 0..turns /\ handler[q].copiedAt \in 0..turns
            /\ IsTurn(q)' => handler[q].turn \in 0..turns
      BY <1>3 DEF EsgInv, MarksAreOld, TurnsAreFresh, IsTurn
    <3>3. \A t \in Tabs : copy'[t] # NoCopy => copy'[t].of \in 0..turns
      BY DEF EsgInv, MarksAreOld
    <3> QED
      BY <1>1, <1>2, <1>3, <2>1, <3>1, <3>2, <3>3
  <2>2. CASE p # r
    <3>1. handler'[p] = handler[p] /\ IsTurn(p)
      BY <1>3, <2>2 DEF IsTurn
    <3>2. handler[p].turn \in 0..turns /\ handler[p].turn # last /\ handler[p].turn # at
      BY <3>1 DEF EsgInv, TurnsAreFresh
    <3>3. IsTurn(r)' => handler'[r].turn = turns + 1
      BY <1>2 DEF IsTurn
    <3>4. \A q \in Handlers : (handler'[q] # Idle /\ q # r) =>
            /\ handler'[p].turn # handler'[q].readAt
            /\ handler'[p].turn # handler'[q].copiedAt
            /\ (IsTurn(q)' /\ handler'[q].turn = handler'[p].turn) => q = p
      BY <1>3, <3>1 DEF EsgInv, TurnsAreFresh, IsTurn
    <3>5. \A t \in Tabs : copy'[t] # NoCopy => handler'[p].turn # copy'[t].of
      BY <3>1 DEF EsgInv, TurnsAreFresh
    <3> QED
      BY <1>1, <1>2, <3>1, <3>2, <3>3, <3>4, <3>5
  <2> QED
    BY <2>1, <2>2
<1>5. MarksAreOld'
  BY <1>1, <1>2, <1>3 DEF EsgInv, MarksAreOld
<1>6. OutcomesAreJudged'
  BY <1>2, <1>3 DEF EsgInv, OutcomesAreJudged, Valid
<1>7. OpenSinceRead'
  BY <1>2, <1>3 DEF EsgInv, OpenSinceRead, Locked
<1>8. RecordsAreCarried'
  <2>1. \A q \in Handlers : q # r => Outdated(q)' = Outdated(q)
    BY <1>3 DEF Outdated
  <2>2. ~Outdated(r)' => at = last
    BY <1>2 DEF Outdated
  <2> SUFFICES ASSUME ~outdated
               PROVE  /\ \A q \in Handlers :
                           (handler'[q] # Idle /\ handler'[q].kind # "unlock" /\ ~Outdated(q)') =>
                             /\ handler'[q].outcome.sections[Assumptions].trail = reopened
                             /\ handler'[q].outcome.sections[Assumptions].mirror
                                  = handler'[q].outcome.submitted
                      /\ \A t \in Tabs : (copy'[t] # NoCopy /\ copy'[t].of = last) =>
                           /\ copy'[t].sections[Assumptions].trail = reopened
                           /\ copy'[t].sections[Assumptions].mirror = workbook.submitted
    BY DEF RecordsAreCarried
  <2>3. ASSUME NEW q \in Handlers, handler'[q] # Idle, handler'[q].kind # "unlock", ~Outdated(q)'
        PROVE  /\ handler'[q].outcome.sections[Assumptions].trail = reopened
               /\ handler'[q].outcome.sections[Assumptions].mirror = handler'[q].outcome.submitted
    <3>1. CASE q = r
      BY <1>2, <2>2, <2>3, <3>1
    <3>2. CASE q # r
      BY <1>3, <2>1, <2>3, <3>2 DEF EsgInv, RecordsAreCarried
    <3> QED
      BY <3>1, <3>2
  <2>4. ASSUME NEW t \in Tabs, copy'[t] # NoCopy, copy'[t].of = last
        PROVE  /\ copy'[t].sections[Assumptions].trail = reopened
               /\ copy'[t].sections[Assumptions].mirror = workbook.submitted
    BY <2>4 DEF EsgInv, RecordsAreCarried
  <2> QED
    BY <2>3, <2>4
<1>9. SubmittedIsValid' /\ RecordAgrees'
  BY DEF EsgInv, SubmittedIsValid, RecordAgrees, Locked, Valid
<1> QED
  BY <1>4, <1>5, <1>6, <1>7, <1>8, <1>9 DEF EsgInv

-------------------------------------------------------------------------------
LEMMA LoadKeeps ==
  ASSUME EsgInv, NEW t \in Tabs, Load(t)
  PROVE  EsgInv'
<1>1. /\ turns \in Nat /\ last \in 0..turns /\ last \in Turns
      /\ workbook \in Workbooks
  BY EsgConstants DEF EsgInv, EsgTypeOK, Turns
<1>2. /\ copy'[t] = [sections |-> workbook.sections, of |-> last]
      /\ \A u \in Tabs : u # t => copy'[u] = copy[u]
  BY DEF Load, EsgInv, EsgTypeOK
<1>3. copy'[t] \in [sections : [Sections -> Cells], of : Turns]
  BY <1>1, <1>2 DEF Workbooks
<1>4. EsgTypeOK'
  BY <1>3 DEF Load, EsgInv, EsgTypeOK
<1>5. /\ \A r \in Handlers : IsTurn(r)' = IsTurn(r) /\ Outdated(r)' = Outdated(r)
      /\ UNCHANGED <<workbook, handler, turns, last, reopened, outdated>>
  BY DEF Load, IsTurn, Outdated
<1>6. TurnsAreFresh'
  BY <1>2, <1>5 DEF EsgInv, TurnsAreFresh
<1>7. MarksAreOld'
  BY <1>1, <1>2, <1>5 DEF EsgInv, MarksAreOld
<1>8. OutcomesAreJudged' /\ OpenSinceRead' /\ SubmittedIsValid' /\ RecordAgrees'
  BY <1>5 DEF EsgInv, OutcomesAreJudged, OpenSinceRead, SubmittedIsValid, RecordAgrees,
     Locked, Valid
<1>9. RecordsAreCarried'
  BY <1>2, <1>5 DEF EsgInv, RecordsAreCarried, RecordAgrees
<1> QED
  BY <1>4, <1>6, <1>7, <1>8, <1>9 DEF EsgInv

LEMMA SaveKeeps ==
  ASSUME EsgInv, NEW t \in Tabs, NEW r \in Handlers, NEW k \in Sections,
         NEW filled \in BOOLEAN, Save(t, r, k, filled)
  PROVE  EsgInv'
<1> DEFINE cells == [copy[t].sections[k] EXCEPT !.filled = filled]
           out == [workbook EXCEPT !.sections[k] = cells]
           at == IF k = Assumptions THEN copy[t].of ELSE last
<1>1. /\ turns \in Nat /\ last \in 0..turns /\ last \in Turns /\ 0 \in Turns
      /\ workbook \in Workbooks
      /\ Assumptions \in Sections
  BY EsgConstants DEF EsgInv, EsgTypeOK, Turns, Sections
<1>2. /\ copy[t] # NoCopy /\ handler[r] = Idle
      /\ copy' = [copy EXCEPT ![t].sections[k] = cells]
      /\ UNCHANGED <<workbook, turns, last, reopened, outdated>>
      /\ copy[t] \in [sections : [Sections -> Cells], of : Turns]
  BY DEF Save, EsgInv, EsgTypeOK
<1>3. /\ cells \in Cells
      /\ cells.mirror = copy[t].sections[k].mirror /\ cells.trail = copy[t].sections[k].trail
  BY <1>2 DEF Cells
<1>4. /\ copy'[t] = [sections |-> [copy[t].sections EXCEPT ![k] = cells], of |-> copy[t].of]
      /\ \A u \in Tabs : u # t => copy'[u] = copy[u]
  BY <1>2 DEF EsgInv, EsgTypeOK
<1>5. /\ copy'[t] \in [sections : [Sections -> Cells], of : Turns]
      /\ copy'[t].of = copy[t].of
      /\ copy'[t].sections[Assumptions].trail = copy[t].sections[Assumptions].trail
      /\ copy'[t].sections[Assumptions].mirror = copy[t].sections[Assumptions].mirror
  BY <1>1, <1>2, <1>3, <1>4
<1>6. copy' \in [Tabs -> {NoCopy} \cup [sections : [Sections -> Cells], of : Turns]]
  BY <1>2, <1>4, <1>5 DEF EsgInv, EsgTypeOK
<1>7. \A u \in Tabs : copy'[u] # NoCopy =>
         /\ copy[u] # NoCopy
         /\ copy'[u].of = copy[u].of
         /\ copy'[u].sections[Assumptions].trail = copy[u].sections[Assumptions].trail
         /\ copy'[u].sections[Assumptions].mirror = copy[u].sections[Assumptions].mirror
  BY <1>2, <1>4, <1>5
<1>8. CASE Locked
  <2>1. UNCHANGED handler
    BY <1>8 DEF Save
  <2>2. EsgTypeOK'
    BY <1>2, <1>6, <2>1 DEF EsgInv, EsgTypeOK
  <2>3. \A q \in Handlers : IsTurn(q)' = IsTurn(q) /\ Outdated(q)' = Outdated(q)
    BY <1>2, <2>1 DEF IsTurn, Outdated
  <2>4. TurnsAreFresh' /\ MarksAreOld' /\ RecordsAreCarried'
    BY <1>2, <1>7, <2>1, <2>3 DEF EsgInv, TurnsAreFresh, MarksAreOld, RecordsAreCarried
  <2>5. OutcomesAreJudged' /\ OpenSinceRead' /\ SubmittedIsValid' /\ RecordAgrees'
    BY <1>2, <2>1 DEF EsgInv, OutcomesAreJudged, OpenSinceRead, SubmittedIsValid, RecordAgrees,
       Locked, Valid
  <2> QED
    BY <2>2, <2>4, <2>5 DEF EsgInv
<1>9. CASE ~Locked
  <2>1. Begin(r, "save", k, 0, out, at)
    BY <1>9 DEF Save
  <2>2. /\ out \in Workbooks /\ out.submitted = workbook.submitted
        /\ out.sections = [workbook.sections EXCEPT ![k] = cells]
    BY <1>1, <1>3, SectionTypes
  <2>3. at \in 0..turns /\ at \in Turns
    BY <1>1, <1>2 DEF EsgInv, MarksAreOld
  <2>4. \A q \in Handlers : (handler[q] # Idle /\ IsTurn(q)) => handler[q].turn # at
    BY <1>2 DEF EsgInv, TurnsAreFresh
  <2>5. out.submitted = 0
    BY <1>9, <2>2 DEF Locked
  <2>6. (~outdated /\ at = last) =>
          /\ out.sections[Assumptions].trail = reopened
          /\ out.sections[Assumptions].mirror = out.submitted
    <3>1. CASE k = Assumptions
      <4>1. out.sections[Assumptions] = cells
        BY <1>1, <2>2, <3>1 DEF Workbooks
      <4> QED
        BY <1>2, <1>3, <2>2, <3>1, <4>1 DEF EsgInv, RecordsAreCarried
    <3>2. CASE k # Assumptions
      <4>1. out.sections[Assumptions] = workbook.sections[Assumptions]
        BY <1>1, <2>2, <3>2 DEF Workbooks
      <4> QED
        BY <2>2, <4>1 DEF EsgInv, RecordAgrees
    <3> QED
      BY <3>1, <3>2
  <2>7. EsgTypeOK'
    <3>1. handler' \in [Handlers -> {Idle} \cup
             [kind : {"save", "import", "submit", "unlock"}, section : Sections,
              turn : Turns, outcome : Workbooks, readAt : Turns, copiedAt : Turns]]
      <4> HIDE DEF out, at
      <4> QED
        BY <1>1, <2>1, <2>2, <2>3, BeginTypes DEF EsgInv
    <3> QED
      BY <1>2, <1>6, <3>1 DEF EsgInv, EsgTypeOK
  <2>8. /\ "save" \in {"save", "import", "submit", "unlock"}
        /\ ~("save" \in {"submit", "unlock"}) /\ "save" # "submit" /\ "save" # "unlock"
    OBVIOUS
  <2>9. UNCHANGED <<workbook, last, reopened, outdated>> /\ turns' = turns
    BY <1>2
  <2> HIDE DEF out, at, cells
  <2> QED
    BY <1>1, <1>2, <1>7, <1>9, <2>1, <2>2, <2>3, <2>4, <2>5, <2>6, <2>7, <2>8, <2>9, BeginKeeps
<1> QED
  BY <1>8, <1>9

LEMMA ImportKeeps ==
  ASSUME EsgInv, NEW r \in Handlers, NEW k \in Sections, Import(r, k)
  PROVE  EsgInv'
<1> DEFINE cells == Merge(workbook.sections[k])
           out == [workbook EXCEPT !.sections[k] = cells]
<1>1. /\ turns \in Nat /\ last \in 0..turns /\ last \in Turns /\ 0 \in Turns
      /\ workbook \in Workbooks
      /\ Assumptions \in Sections
  BY EsgConstants DEF EsgInv, EsgTypeOK, Turns, Sections
<1>2. /\ handler[r] = Idle /\ ~Locked
      /\ UNCHANGED <<workbook, copy, turns, last, reopened, outdated>>
      /\ Begin(r, "import", k, 0, out, last)
  BY DEF Import
<1>3. /\ cells \in Cells
      /\ cells.mirror = workbook.sections[k].mirror /\ cells.trail = workbook.sections[k].trail
  BY <1>1 DEF Workbooks, Cells, Merge
<1>4. /\ out \in Workbooks /\ out.submitted = workbook.submitted
      /\ out.sections = [workbook.sections EXCEPT ![k] = cells]
  BY <1>1, <1>3, SectionTypes
<1>5. /\ out.sections[Assumptions].trail = workbook.sections[Assumptions].trail
      /\ out.sections[Assumptions].mirror = workbook.sections[Assumptions].mirror
  BY <1>1, <1>3, <1>4 DEF Workbooks
<1>6. out.submitted = 0
  BY <1>2, <1>4 DEF Locked
<1>7. ~outdated => /\ out.sections[Assumptions].trail = reopened
                   /\ out.sections[Assumptions].mirror = out.submitted
  BY <1>4, <1>5 DEF EsgInv, RecordAgrees
<1>8. /\ "import" \in {"save", "import", "submit", "unlock"}
      /\ ~("import" \in {"submit", "unlock"}) /\ "import" # "submit" /\ "import" # "unlock"
  OBVIOUS
<1> HIDE DEF out, cells
<1>9. EsgTypeOK'
  BY <1>1, <1>2, <1>4, <1>8, BeginTypes DEF EsgInv, EsgTypeOK
<1>10. \A q \in Handlers : (handler[q] # Idle /\ IsTurn(q)) => handler[q].turn # last
  BY DEF EsgInv, TurnsAreFresh
<1>11. UNCHANGED <<workbook, last, reopened, outdated>> /\ turns' = turns
  BY <1>2
<1> QED
  BY <1>1, <1>2, <1>4, <1>6, <1>7, <1>8, <1>9, <1>10, <1>11, BeginKeeps

LEMMA SubmitKeeps ==
  ASSUME EsgInv, NEW r \in Handlers, Submit(r)
  PROVE  EsgInv'
<1> DEFINE n == turns + 1
           out == ApplySubmit(workbook, n)
<1>1. /\ turns \in Nat /\ last \in 0..turns /\ last \in Turns
      /\ n \in Turns /\ last \in 0..(turns + 1)
      /\ workbook \in Workbooks
      /\ Assumptions \in Sections
  BY EsgConstants DEF EsgInv, EsgTypeOK, Turns, Sections, Submit
<1>2. /\ handler[r] = Idle /\ ~Locked /\ Valid(workbook.sections)
      /\ UNCHANGED <<workbook, copy, last, reopened, outdated>>
      /\ turns' = turns + 1 /\ n = turns + 1
      /\ Begin(r, "submit", Assumptions, n, out, last)
  BY DEF Submit
<1> HIDE DEF n
<1>3. /\ out \in Workbooks
      /\ out.submitted = n
      /\ out.sections[Assumptions].mirror = n
      /\ out.sections[Assumptions].trail = workbook.sections[Assumptions].trail
      /\ \A k \in Sections : out.sections[k].filled = workbook.sections[k].filled
  BY <1>1, SubmitOutcome
<1> HIDE DEF out
<1>4. "submit" \in {"save", "import", "submit", "unlock"} /\ "submit" # "unlock"
  OBVIOUS
<1>5. Valid(out.sections)
  BY <1>2, <1>3 DEF Valid, Sections
<1>6. ~outdated => out.sections[Assumptions].trail = reopened
  BY <1>3 DEF EsgInv, RecordAgrees
<1>7. EsgTypeOK'
  BY <1>1, <1>2, <1>3, <1>4, BeginTypes DEF EsgInv, EsgTypeOK
<1>8. \A q \in Handlers : (handler[q] # Idle /\ IsTurn(q)) => handler[q].turn # last
  BY DEF EsgInv, TurnsAreFresh
<1>9. UNCHANGED <<workbook, last, reopened, outdated>> /\ (turns' = turns \/ turns' = turns + 1)
  BY <1>2
<1>10. \A t \in Tabs : copy'[t] # NoCopy =>
         /\ copy[t] # NoCopy
         /\ copy'[t].of = copy[t].of
         /\ copy'[t].sections[Assumptions].trail = copy[t].sections[Assumptions].trail
         /\ copy'[t].sections[Assumptions].mirror = copy[t].sections[Assumptions].mirror
  BY <1>2
<1>11. out.sections[Assumptions].mirror = out.submitted
  BY <1>3
<1> QED
  BY <1>1, <1>2, <1>3, <1>4, <1>5, <1>6, <1>7, <1>8, <1>9, <1>10, <1>11, BeginKeeps

LEMMA UnlockKeeps ==
  ASSUME EsgInv, NEW r \in Handlers, Unlock(r)
  PROVE  EsgInv'
<1> DEFINE n == turns + 1
           out == ApplyReopen(workbook)
<1>1. /\ turns \in Nat /\ last \in 0..turns /\ last \in Turns
      /\ n \in Turns /\ last \in 0..(turns + 1)
      /\ workbook \in Workbooks /\ workbook.submitted \in Turns
      /\ Assumptions \in Sections
  BY EsgConstants DEF EsgInv, EsgTypeOK, Turns, Sections, Unlock, Workbooks
<1>2. /\ handler[r] = Idle
      /\ UNCHANGED <<workbook, copy, last, reopened, outdated>>
      /\ turns' = turns + 1 /\ n = turns + 1
      /\ Begin(r, "unlock", Assumptions, n, out, last)
  BY DEF Unlock
<1>3. /\ out \in Workbooks
      /\ out.submitted = 0
      /\ out.sections[Assumptions].mirror = 0
  BY <1>1, UnlockOutcome
<1> HIDE DEF out, n
<1>4. "unlock" \in {"save", "import", "submit", "unlock"} /\ "unlock" # "submit"
  OBVIOUS
<1>5. EsgTypeOK'
  BY <1>1, <1>2, <1>3, <1>4, BeginTypes DEF EsgInv, EsgTypeOK
<1>6. \A q \in Handlers : (handler[q] # Idle /\ IsTurn(q)) => handler[q].turn # last
  BY DEF EsgInv, TurnsAreFresh
<1>7. UNCHANGED <<workbook, last, reopened, outdated>> /\ (turns' = turns \/ turns' = turns + 1)
  BY <1>2
<1>8. \A t \in Tabs : copy'[t] # NoCopy =>
         /\ copy[t] # NoCopy
         /\ copy'[t].of = copy[t].of
         /\ copy'[t].sections[Assumptions].trail = copy[t].sections[Assumptions].trail
         /\ copy'[t].sections[Assumptions].mirror = copy[t].sections[Assumptions].mirror
  BY <1>2
<1> QED
  BY <1>1, <1>2, <1>3, <1>4, <1>5, <1>6, <1>7, <1>8, BeginKeeps

\* What a store and a failure both do to the requests: one of them ends.
LEMMA EndingTypes ==
  ASSUME EsgTypeOK, NEW r \in Handlers, handler' = [handler EXCEPT ![r] = Idle]
  PROVE  /\ handler'[r] = Idle
         /\ \A q \in Handlers : q # r => handler'[q] = handler[q]
         /\ handler' \in [Handlers -> {Idle} \cup
              [kind : {"save", "import", "submit", "unlock"}, section : Sections,
               turn : Turns, outcome : Workbooks, readAt : Turns, copiedAt : Turns]]
BY DEF EsgTypeOK

LEMMA FailKeeps ==
  ASSUME EsgInv, NEW r \in Handlers, Fail(r)
  PROVE  EsgInv'
<1>1. /\ handler' = [handler EXCEPT ![r] = Idle]
      /\ UNCHANGED <<workbook, copy, turns, last, reopened, outdated>>
  BY DEF Fail
<1>2. /\ handler'[r] = Idle
      /\ \A q \in Handlers : q # r => handler'[q] = handler[q]
      /\ EsgTypeOK'
  BY <1>1, EndingTypes DEF EsgInv, EsgTypeOK
<1>3. \A q \in Handlers : handler'[q] # Idle =>
         q # r /\ handler'[q] = handler[q] /\ IsTurn(q)' = IsTurn(q) /\ Outdated(q)' = Outdated(q)
  BY <1>1, <1>2 DEF IsTurn, Outdated
<1>4. TurnsAreFresh'
  BY <1>1, <1>3 DEF EsgInv, TurnsAreFresh
<1>5. MarksAreOld' /\ OutcomesAreJudged' /\ OpenSinceRead'
  BY <1>1, <1>3 DEF EsgInv, MarksAreOld, OutcomesAreJudged, OpenSinceRead, Valid, Locked
<1>6. RecordsAreCarried'
  BY <1>1, <1>3 DEF EsgInv, RecordsAreCarried
<1>7. SubmittedIsValid' /\ RecordAgrees'
  BY <1>1 DEF EsgInv, SubmittedIsValid, RecordAgrees, Locked, Valid
<1> QED
  BY <1>2, <1>4, <1>5, <1>6, <1>7 DEF EsgInv

LEMMA StoreKeeps ==
  ASSUME EsgInv, NEW r \in Handlers, Store(r)
  PROVE  EsgInv'
<1> DEFINE out == handler[r].outcome
<1>1. /\ handler[r] # Idle
      /\ workbook' = out
      /\ last' = IF IsTurn(r) THEN handler[r].turn ELSE last
      /\ reopened' = IF handler[r].kind = "unlock" THEN out.sections[Assumptions].trail ELSE reopened
      /\ outdated' = (Outdated(r) \/ (outdated /\ handler[r].kind # "unlock"))
      /\ handler' = [handler EXCEPT ![r] = Idle]
      /\ UNCHANGED <<copy, turns>>
  BY DEF Store, Persisted
<1>2. /\ handler[r].kind \in {"save", "import", "submit", "unlock"}
      /\ handler[r].turn \in Turns
      /\ out \in Workbooks
      /\ Assumptions \in Sections
  BY <1>1, OutcomeTypes DEF EsgInv, Sections
<1>3. /\ handler'[r] = Idle
      /\ \A q \in Handlers : q # r => handler'[q] = handler[q]
  BY <1>1, EndingTypes DEF EsgInv
<1>4. \A q \in Handlers : handler'[q] # Idle =>
         q # r /\ handler[q] # Idle /\ handler'[q] = handler[q] /\ IsTurn(q)' = IsTurn(q)
  BY <1>3 DEF IsTurn
<1>5. /\ out.submitted \in Turns
      /\ out.sections[Assumptions].trail \in Turns
      /\ out.sections[Assumptions].mirror \in Turns
  BY <1>2 DEF Workbooks, Cells
<1>6. IsTurn(r) => handler[r].turn \in 0..turns /\ handler[r].turn # last
  BY <1>1 DEF EsgInv, TurnsAreFresh
<1>7. IsTurn(r) => \A q \in Handlers : handler'[q] # Idle =>
         handler[q].readAt # handler[r].turn /\ handler[q].copiedAt # handler[r].turn
  BY <1>1, <1>4 DEF EsgInv, TurnsAreFresh
<1>8. outdated' \in BOOLEAN
  BY <1>1, Zenon DEF Outdated
<1>9. EsgTypeOK'
  <2>1. handler' \in [Handlers -> {Idle} \cup
              [kind : {"save", "import", "submit", "unlock"}, section : Sections,
               turn : Turns, outcome : Workbooks, readAt : Turns, copiedAt : Turns]]
    BY <1>1, EndingTypes DEF EsgInv
  <2>2. last' \in 0..turns' /\ reopened' \in Turns /\ turns' \in Turns
    BY <1>1, <1>5, <1>6 DEF EsgInv, EsgTypeOK
  <2> QED
    BY <1>1, <1>2, <1>8, <2>1, <2>2 DEF EsgInv, EsgTypeOK
<1>10. TurnsAreFresh'
  <2> SUFFICES ASSUME NEW p \in Handlers, handler'[p] # Idle, IsTurn(p)'
               PROVE  /\ handler'[p].turn # last'
                      /\ handler'[p].turn \in 0..turns'
                      /\ \A q \in Handlers : handler'[q] # Idle =>
                           /\ handler'[p].turn # handler'[q].readAt
                           /\ handler'[p].turn # handler'[q].copiedAt
                           /\ (IsTurn(q)' /\ handler'[q].turn = handler'[p].turn) => q = p
                      /\ \A t \in Tabs : copy'[t] # NoCopy => handler'[p].turn # copy'[t].of
    BY DEF TurnsAreFresh
  <2>1. p # r /\ handler[p] # Idle /\ handler'[p] = handler[p] /\ IsTurn(p)
    BY <1>4
  <2>2. handler[p].turn # last'
    BY <1>1, <2>1 DEF EsgInv, TurnsAreFresh
  <2> QED
    BY <1>1, <1>4, <2>1, <2>2 DEF EsgInv, TurnsAreFresh
<1>11. MarksAreOld'
  BY <1>1, <1>4 DEF EsgInv, MarksAreOld
<1>12. OutcomesAreJudged'
  BY <1>4 DEF EsgInv, OutcomesAreJudged, Valid
<1>13. handler[r].kind # "submit" => out.submitted = 0
  BY <1>1 DEF EsgInv, OutcomesAreJudged
<1>14. OpenSinceRead'
  BY <1>1, <1>2, <1>4, <1>7, <1>13 DEF EsgInv, OpenSinceRead, Locked, IsTurn
<1>15. RecordsAreCarried'
  <2> SUFFICES ASSUME ~outdated'
               PROVE  /\ \A q \in Handlers :
                           (handler'[q] # Idle /\ handler'[q].kind # "unlock" /\ ~Outdated(q)') =>
                             /\ handler'[q].outcome.sections[Assumptions].trail = reopened'
                             /\ handler'[q].outcome.sections[Assumptions].mirror
                                  = handler'[q].outcome.submitted
                      /\ \A t \in Tabs : (copy'[t] # NoCopy /\ copy'[t].of = last') =>
                           /\ copy'[t].sections[Assumptions].trail = reopened'
                           /\ copy'[t].sections[Assumptions].mirror = workbook'.submitted
    BY DEF RecordsAreCarried
  <2>1. CASE IsTurn(r)
    <3>1. last' = handler[r].turn
      BY <1>1, <2>1
    <3>2. \A q \in Handlers : handler'[q] # Idle => Outdated(q)'
      BY <1>4, <1>7, <2>1, <3>1 DEF Outdated
    <3>3. \A t \in Tabs : copy'[t] # NoCopy => copy'[t].of # last'
      BY <1>1, <2>1, <3>1 DEF EsgInv, TurnsAreFresh
    <3> QED
      BY <3>2, <3>3
  <2>2. CASE ~IsTurn(r)
    <3>1. /\ handler[r].kind # "unlock" /\ handler[r].kind # "submit"
          /\ last' = last /\ reopened' = reopened
      BY <1>1, <2>2 DEF IsTurn
    <3>2. ~outdated /\ ~Outdated(r)
      BY <1>1, <3>1
    <3>3. workbook.submitted = 0 /\ workbook'.submitted = 0
      BY <1>1, <1>13, <3>1, <3>2 DEF EsgInv, OpenSinceRead, Outdated, Locked
    <3>4. \A q \in Handlers : handler'[q] # Idle => (~Outdated(q)' => ~Outdated(q))
      BY <1>4, <3>1 DEF Outdated
    <3> QED
      BY <1>1, <1>4, <3>1, <3>2, <3>3, <3>4 DEF EsgInv, RecordsAreCarried
  <2> QED
    BY <2>1, <2>2
<1>16. SubmittedIsValid'
  BY <1>1, <1>2, <1>13 DEF EsgInv, OutcomesAreJudged, SubmittedIsValid, Locked, Valid
<1>17. RecordAgrees'
  <2> SUFFICES ASSUME ~outdated'
               PROVE  /\ out.sections[Assumptions].mirror = out.submitted
                      /\ out.sections[Assumptions].trail = reopened'
    BY <1>1 DEF RecordAgrees
  <2>1. CASE handler[r].kind = "unlock"
    BY <1>1, <1>13, <2>1 DEF EsgInv, OutcomesAreJudged
  <2>2. CASE handler[r].kind # "unlock"
    <3>1. ~outdated /\ ~Outdated(r) /\ reopened' = reopened
      BY <1>1, <2>2
    <3> QED
      BY <1>1, <2>2, <3>1 DEF EsgInv, RecordsAreCarried
  <2> QED
    BY <2>1, <2>2
<1> QED
  BY <1>9, <1>10, <1>11, <1>12, <1>14, <1>15, <1>16, <1>17 DEF EsgInv

-------------------------------------------------------------------------------
LEMMA EsgStutters ==
  ASSUME EsgInv, UNCHANGED esgVars
  PROVE  EsgInv'
<1>1. \A r \in Handlers : IsTurn(r)' = IsTurn(r) /\ Outdated(r)' = Outdated(r)
  BY DEF esgVars, IsTurn, Outdated
<1> QED
  BY <1>1 DEF esgVars, EsgInv, EsgTypeOK, TurnsAreFresh, MarksAreOld, OutcomesAreJudged,
     OpenSinceRead, RecordsAreCarried, SubmittedIsValid, RecordAgrees, Locked, Valid

\* The invariant the other theorems rest on holds in every reachable state.
THEOREM EsgInvariant == EsgSpec => []EsgInv
<1>1. EsgInit => EsgInv
  BY EsgInitInv
<1>2. EsgInv /\ [EsgNext]_esgVars => EsgInv'
  <2> SUFFICES ASSUME EsgInv, [EsgNext]_esgVars PROVE EsgInv'
    OBVIOUS
  <2>1. ASSUME NEW t \in Tabs, Load(t) PROVE EsgInv'
    BY <2>1, LoadKeeps
  <2>2. ASSUME NEW t \in Tabs, NEW r \in Handlers, NEW k \in Sections,
               NEW filled \in Entries(k), Save(t, r, k, filled)
        PROVE  EsgInv'
    <3>1. filled \in BOOLEAN
      BY DEF Entries
    <3> QED
      BY <2>2, <3>1, SaveKeeps
  <2>3. ASSUME NEW r \in Handlers, NEW k \in Sections, Import(r, k) PROVE EsgInv'
    BY <2>3, ImportKeeps
  <2>4. ASSUME NEW r \in Handlers, Submit(r) PROVE EsgInv'
    BY <2>4, SubmitKeeps
  <2>5. ASSUME NEW r \in Handlers, Unlock(r) PROVE EsgInv'
    BY <2>5, UnlockKeeps
  <2>6. ASSUME NEW r \in Handlers, Store(r) PROVE EsgInv'
    BY <2>6, StoreKeeps
  <2>7. ASSUME NEW r \in Handlers, Fail(r) PROVE EsgInv'
    BY <2>7, FailKeeps
  <2>8. CASE UNCHANGED esgVars
    BY <2>8, EsgStutters
  <2> QED
    BY <2>1, <2>2, <2>3, <2>4, <2>5, <2>6, <2>7, <2>8 DEF EsgNext
<1> QED
  BY <1>1, <1>2, PTL DEF EsgSpec

\* However saves, imports and submissions race, a workbook stored as submitted
\* holds what validation asks for.
THEOREM SubmissionsAreValid == EsgSpec => []SubmittedIsValid
<1>1. EsgInv => SubmittedIsValid
  BY DEF EsgInv
<1> QED
  BY <1>1, EsgInvariant, PTL

\* While nothing older than the last turn is stored after it, the record among
\* the assumptions agrees with the lock and names the last reopening.
THEOREM RecordsAgree == EsgSpec => []RecordAgrees
<1>1. EsgInv => RecordAgrees
  BY DEF EsgInv
<1> QED
  BY <1>1, EsgInvariant, PTL

\* A submitted workbook changes by a reopening, or by a request that had read it
\* before that submission was stored.
THEOREM LocksHold == EsgSpec => LockHolds
<1> DEFINE Allowed ==
      Locked /\ workbook' # workbook =>
        \E r \in Handlers : /\ handler[r] # Idle /\ handler'[r] = Idle
                            /\ handler[r].kind = "unlock" \/ handler[r].readAt # last
<1>1. EsgInv /\ EsgNext => Allowed
  <2> SUFFICES ASSUME EsgInv, EsgNext, Locked, workbook' # workbook
               PROVE  \E r \in Handlers :
                        /\ handler[r] # Idle /\ handler'[r] = Idle
                        /\ handler[r].kind = "unlock" \/ handler[r].readAt # last
    OBVIOUS
  <2>1. PICK r \in Handlers : Store(r)
    BY DEF EsgNext, Load, Save, Import, Submit, Unlock, Fail
  <2>2. handler[r] # Idle /\ handler'[r] = Idle
    BY <2>1 DEF Store, EsgInv, EsgTypeOK
  <2>3. handler[r].kind = "unlock" \/ handler[r].readAt # last
    BY <2>2 DEF EsgInv, OpenSinceRead
  <2> QED
    BY <2>2, <2>3
<1> HIDE DEF Allowed
<1>2. EsgInv /\ [EsgNext]_esgVars => [Allowed]_esgVars
  BY <1>1
<1> USE DEF Allowed
<1> QED
  BY <1>2, EsgInvariant, PTL DEF EsgSpec, LockHolds
===============================================================================
