------------------------------ MODULE EsgWorkbook ------------------------------
(***************************************************************************)
(* The ESG workbook of one company: saves, imports, submission and reopen  *)
(* (apps/web/server/esgWorkbookRoutes.ts, esgWorkbookLock.ts), and the     *)
(* tabs that edit it (apps/web/EsgToolkit/src/lib/esgStore.ts).            *)
(*                                                                         *)
(* Every request reads the whole document, decides and computes without a  *)
(* pause, and stores the whole document: two steps with other requests in  *)
(* between, and a document that may be old when it is stored.  A tab sends *)
(* all cells of a section from its own copy of the workbook, and the lock  *)
(* leaves its record among the cells of the section "assumptions".         *)
(*                                                                         *)
(* A section is reduced to whether it holds the figures validation asks    *)
(* for.  Submissions and reopenings are numbered as their requests come.   *)
(***************************************************************************)
EXTENDS Integers

CONSTANTS
  Tabs,         \* browsers with the workbook open
  Handlers,     \* requests served at once, by all replicas
  Inputs,       \* sections beside assumptions
  TurnLimit,    \* bound of the model: submissions and reopenings
  NoCopy,       \* a tab before it loads
  Idle          \* a request not in use

Assumptions == "assumptions"

Sections == Inputs \cup {Assumptions}

ASSUME EsgConstants ==
  /\ TurnLimit \in Nat
  /\ Assumptions \notin Inputs

VARIABLES
  workbook,     \* the document: its sections, and submittedAt (0 for null)
  copy,         \* a tab's workbook
  handler,      \* per request in flight, the document it will store
  turns,        \* submissions and reopenings begun
  last,         \* history: the turn stored last
  reopened,     \* history: the submission the last stored reopening cleared
  outdated      \* history: has a document or a copy of an earlier turn been stored

esgVars == <<workbook, copy, handler, turns, last, reopened, outdated>>

Turns == 0..TurnLimit

\* filled: the figures; mirror: the cell _submittedAt; trail: the cells
\* _reopenedAt, _reopenedBy and _previouslySubmittedAt.
Cells == [filled : BOOLEAN, mirror : Turns, trail : Turns]

Workbooks == [sections : [Sections -> Cells], submitted : Turns]

EsgTypeOK ==
  /\ workbook \in Workbooks
  /\ copy \in [Tabs -> {NoCopy} \cup [sections : [Sections -> Cells], of : Turns]]
  /\ handler \in [Handlers -> {Idle} \cup
       [kind : {"save", "import", "submit", "unlock"}, section : Sections,
        turn : Turns, outcome : Workbooks, readAt : Turns, copiedAt : Turns]]
  /\ turns \in Turns /\ last \in 0..turns /\ reopened \in Turns
  /\ outdated \in BOOLEAN

EsgInit ==
  /\ workbook = [sections |-> [k \in Sections |-> [filled |-> FALSE, mirror |-> 0, trail |-> 0]],
                 submitted |-> 0]
  /\ copy = [t \in Tabs |-> NoCopy]
  /\ handler = [r \in Handlers |-> Idle]
  /\ turns = 0 /\ last = 0 /\ reopened = 0
  /\ outdated = FALSE

Locked == workbook.submitted # 0

\* What a person may make of a section; nothing asks it of the assumptions.
Entries(k) == IF k = Assumptions THEN {FALSE} ELSE BOOLEAN

\* No cell anybody has to give is missing.
Valid(sections) == \A k \in Inputs : sections[k].filled

-------------------------------------------------------------------------------
\* The store's load: the workbook as it is stored.
Load(t) ==
  /\ copy' = [copy EXCEPT ![t] = [sections |-> workbook.sections, of |-> last]]
  /\ UNCHANGED <<workbook, handler, turns, last, reopened, outdated>>

Begin(r, kind, k, turn, outcome, copiedAt) ==
  handler' = [handler EXCEPT ![r] =
    [kind |-> kind, section |-> k, turn |-> turn, outcome |-> outcome,
     readAt |-> last, copiedAt |-> copiedAt]]

\* A tab changes cells of a section in its copy, keeps the change whatever the
\* answer, and sends the section; refused while the workbook is submitted.
Save(t, r, k, filled) ==
  LET cells == [copy[t].sections[k] EXCEPT !.filled = filled]
  IN /\ copy[t] # NoCopy
     /\ handler[r] = Idle
     /\ copy' = [copy EXCEPT ![t].sections[k] = cells]
     /\ IF Locked
        THEN UNCHANGED handler
        ELSE Begin(r, "save", k, 0, [workbook EXCEPT !.sections[k] = cells],
                   IF k = Assumptions THEN copy[t].of ELSE last)
     /\ UNCHANGED <<workbook, turns, last, reopened, outdated>>

\* Mutated form: an import sets a section to what the file carries.
MergeReplacing(cells) == [filled |-> TRUE, mirror |-> 0, trail |-> 0]

\* mergeImportIntoSection: the file's figures beside the cells captured already.
Merge(cells) == [cells EXCEPT !.filled = TRUE]

\* Mutated form: the route asks nothing of the lock.
ImportAnyway(r, k) ==
  /\ handler[r] = Idle
  /\ Begin(r, "import", k, 0, [workbook EXCEPT !.sections[k] = Merge(@)], last)
  /\ UNCHANGED <<workbook, copy, turns, last, reopened, outdated>>

\* The confirmed import of a file with figures for one section.
Import(r, k) ==
  /\ handler[r] = Idle
  /\ ~Locked
  /\ Begin(r, "import", k, 0, [workbook EXCEPT !.sections[k] = Merge(@)], last)
  /\ UNCHANGED <<workbook, copy, turns, last, reopened, outdated>>

\* The lock, mirrored among the assumptions.
ApplySubmit(wb, n) ==
  [sections |-> [wb.sections EXCEPT ![Assumptions].mirror = n], submitted |-> n]

\* The lock cleared, and the record of what was reopened.
ApplyReopen(wb) ==
  [sections |-> [wb.sections EXCEPT ![Assumptions].mirror = 0,
                                    ![Assumptions].trail = wb.submitted],
   submitted |-> 0]

\* A submission that passes validation.
Submit(r) ==
  /\ handler[r] = Idle
  /\ ~Locked
  /\ Valid(workbook.sections)
  /\ turns < TurnLimit
  /\ turns' = turns + 1
  /\ Begin(r, "submit", Assumptions, turns + 1, ApplySubmit(workbook, turns + 1), last)
  /\ UNCHANGED <<workbook, copy, last, reopened, outdated>>

\* An administrator's reopening of a submitted workbook.
Unlock(r) ==
  /\ handler[r] = Idle
  /\ Locked
  /\ turns < TurnLimit
  /\ turns' = turns + 1
  /\ Begin(r, "unlock", Assumptions, turns + 1, ApplyReopen(workbook), last)
  /\ UNCHANGED <<workbook, copy, last, reopened, outdated>>

\* What persistEsgWorkbook leaves: the document the request read and changed.
Persisted(r) == handler[r].outcome

IsTurn(r) == handler[r].kind \in {"submit", "unlock"}

\* Does r store what it read, or what its tab copied, before the last turn.
Outdated(r) == handler[r].readAt # last \/ handler[r].copiedAt # last

Store(r) ==
  /\ handler[r] # Idle
  /\ workbook' = Persisted(r)
  /\ last' = IF IsTurn(r) THEN handler[r].turn ELSE last
  /\ reopened' = IF handler[r].kind = "unlock"
                 THEN handler[r].outcome.sections[Assumptions].trail ELSE reopened
  /\ outdated' = (Outdated(r) \/ (outdated /\ handler[r].kind # "unlock"))
  /\ handler' = [handler EXCEPT ![r] = Idle]
  /\ UNCHANGED <<copy, turns>>

\* The write fails and the request answers 500, or its process dies.
Fail(r) ==
  /\ handler[r] # Idle
  /\ handler' = [handler EXCEPT ![r] = Idle]
  /\ UNCHANGED <<workbook, copy, turns, last, reopened, outdated>>

EsgNext ==
  \/ \E t \in Tabs : Load(t)
  \/ \E t \in Tabs, r \in Handlers, k \in Sections : \E filled \in Entries(k) : Save(t, r, k, filled)
  \/ \E r \in Handlers, k \in Sections : Import(r, k)
  \/ \E r \in Handlers : Submit(r) \/ Unlock(r) \/ Store(r) \/ Fail(r)

EsgSpec == EsgInit /\ [][EsgNext]_esgVars

-------------------------------------------------------------------------------
\* A workbook stored as submitted holds what validation asks for: the saves and
\* imports that race the submission never get into it, because each of them
\* stores the document it read, the lock included.
SubmittedIsValid == Locked => Valid(workbook.sections)

\* While nothing read or copied before the last submission or reopening is
\* stored after it, the record in the assumptions section agrees with the lock
\* and names the submission that was last reopened.
RecordAgrees ==
  LET record == workbook.sections[Assumptions]
  IN outdated \/ (record.mirror = workbook.submitted /\ record.trail = reopened)

\* A submitted workbook is changed by a reopening, or by a request that had read
\* it before that submission was stored.
LockHolds ==
  [][Locked /\ workbook' # workbook =>
       \E r \in Handlers : /\ handler[r] # Idle /\ handler'[r] = Idle
                           /\ handler[r].kind = "unlock" \/ handler[r].readAt # last]_esgVars

\* What the unlock route says of itself: a reopening is always traceable on the
\* workbook.  FALSE: a tab with an older copy sends the assumptions without it.
ReopenIsTraceable == reopened # 0 => workbook.sections[Assumptions].trail = reopened
===============================================================================
