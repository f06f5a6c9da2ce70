--------------------------- MODULE WorkbookAutosave ---------------------------
(***************************************************************************)
(* One browser tab editing a company's workbook (WorkbookView in           *)
(* InformationRequest.tsx) and the routes that serve it                    *)
(* (workbookRoutes.ts).                                                    *)
(*                                                                         *)
(* A change waits 0.8 s in the tab, then its whole section is sent.  An    *)
(* answered save sets a timer that syncs the scorecard from the stored     *)
(* workbook.  Save, Continue to Summary and Add documents first send what  *)
(* still waits.  None of these holds back another: saves overtake saves,   *)
(* and a merge of documents writes back sections it read earlier.  A       *)
(* request the tab has given up may still be carried out by the server,    *)
(* from what it had read, after newer ones.                                *)
(*                                                                         *)
(* A section is the set of its rows.  A change adds a row of its own, so   *)
(* that what is lost of a section can be named.                            *)
(***************************************************************************)
EXTENDS Sequences, FiniteSets, Integers

CONSTANTS
  Sections,    \* sections of the workbook
  Typed,       \* rows the user may type: bound of the model on changes
  Documents,   \* Documents[s]: the rows the user's documents have for section s
  Flows,       \* handlers that may be under way at once in the tab
  ClickLimit,  \* bound of the model on buttons pressed
  TabFaultLimit,  \* bound of the model on failures and time-outs
  NoPayload,   \* no change of a section waits
  NoFlow,      \* a handler that is not under way
  Timer        \* stands for the timer among those that send saves

ASSUME AutosaveConstants ==
  /\ IsFiniteSet(Sections) /\ IsFiniteSet(Typed)
  /\ \A s \in Sections : Documents[s] \cap Typed = {}
  /\ ClickLimit \in Nat /\ TabFaultLimit \in Nat
  /\ Timer \notin Flows

VARIABLES
  tab,        \* workbookRef: the workbook as the tab shows it
  made,       \* history: the rows typed so far
  unsent,     \* pendingPayloads, with a timer each
  puts,       \* saves sent and not answered, inFlight
  stored,     \* the workbook document
  late,       \* requests the tab has given up and the server still works on
  saveError,  \* whether the last save to start or end says it failed
  syncDue,    \* the sync timer, with the saveError its callback sees
  flow,       \* what is left of each handler under way
  scored,     \* the workbook the client record's scorecard was last made from
  left,       \* the user has gone to the summary: the editor is unmounted
  missed,     \* history: rows lost with a failed save, to an older save, or to a merge
  behind,     \* history: a sync was due and came to nothing, or a request given up
              \* took effect, and no sync has read since
  clicks,     \* buttons pressed
  tabFaults   \* failures so far

tabVars == <<tab, made, left>>

histVars == <<missed, behind>>

boundVars == <<clicks, tabFaults>>

autosaveVars == <<tabVars, unsent, puts, stored, late, saveError, syncDue, flow,
                  scored, histVars, boundVars>>

Rows == Typed \cup UNION {Documents[s] : s \in Sections}

Workbooks == [Sections -> SUBSET Rows]

ASSUME NoPayloadIsNoRows == \A rows \in SUBSET Rows : NoPayload # rows

Empty == [s \in Sections |-> {}]

\* Mutated form: Continue to Summary does not send what still waits.
HastyScript == [
  save     |-> <<"keys", "flush", "wait">>,
  continue |-> <<"wait", "leave">>,
  sync     |-> <<"wait", "keys", "flush", "wait", "check", "read", "project", "load">>,
  quick    |-> <<"wait", "read", "project", "load">>,
  merge    |-> <<"keys", "flush", "compare", "write", "reload", "show">>]

\* What each handler awaits, in order: handleManualSave, handleContinueToSummary,
\* syncWorkbookToScorecard without and with skipFlush, mergeDocuments.
Script == [
  save     |-> <<"keys", "flush", "wait">>,
  continue |-> <<"wait", "keys", "flush", "wait", "leave">>,
  sync     |-> <<"wait", "keys", "flush", "wait", "check", "read", "project", "load">>,
  quick    |-> <<"wait", "read", "project", "load">>,
  merge    |-> <<"keys", "flush", "compare", "write", "reload", "show">>]

Kinds == DOMAIN Script

Steps == {"keys", "flush", "wait", "leave", "check", "read", "project", "load",
          "compare", "write", "reload", "show"}

Handlers ==
  [kind : Kinds, rest : Seq(Steps) \ {<<>>}, keys : SUBSET Sections, ok : BOOLEAN,
   err : BOOLEAN, copy : Workbooks, before : [Sections -> SUBSET Typed]]

ASSUME NoFlowIsNoHandler == NoFlow \notin Handlers

\* A handler as it starts: err is the saveError its closure holds, copy the
\* workbook as a request last read it; history: before is what the user had typed
\* when he pressed Continue to Summary.
Starting(kind, err) ==
  [kind |-> kind, rest |-> Script[kind], keys |-> {}, ok |-> TRUE, err |-> err,
   copy |-> Empty, before |-> IF kind = "continue" THEN made ELSE Empty]

At(f, step) == flow[f] # NoFlow /\ Head(flow[f].rest) = step

Doing(f) == IF flow[f] = NoFlow THEN "nothing" ELSE flow[f].kind

\* The handler goes on, its fields changed; at the end of its script it is done.
GoOn(x) == IF Len(x.rest) = 1 THEN NoFlow ELSE [x EXCEPT !.rest = Tail(@)]

Step(f, x) == flow' = [flow EXCEPT ![f] = GoOn(x)]

Stop(f) == flow' = [flow EXCEPT ![f] = NoFlow]

\* syncInFlightRef.
Syncing == \E f \in Flows : Doing(f) \in {"sync", "quick"}

\* What is left of a request at the server, told apart by the failure that ended
\* it for the tab: to read the workbook and write the client from it, or to read it
\* for the documents and write the sections they add to, or to write a section.
LateWork ==
  [no : 1..TabFaultLimit, todo : {"read", "project", "compare", "write"},
   keys : SUBSET Sections, copy : Workbooks]

NotDue == [due |-> FALSE, err |-> FALSE]

AutosaveTypeOK ==
  /\ tab \in Workbooks /\ stored \in Workbooks /\ scored \in Workbooks
  /\ made \in [Sections -> SUBSET Typed]
  /\ unsent \in [Sections -> (SUBSET Rows) \cup {NoPayload}]
  /\ puts \subseteq [sec : Sections, rows : SUBSET Rows, by : Flows \cup {Timer},
                     state : {"sent", "stored", "refused"}]
  /\ syncDue \in [due : BOOLEAN, err : BOOLEAN]
  /\ flow \in [Flows -> Handlers \cup {NoFlow}]
  /\ saveError \in BOOLEAN /\ left \in BOOLEAN /\ behind \in BOOLEAN
  /\ missed \in Workbooks
  /\ clicks \in 0..ClickLimit /\ tabFaults \in 0..TabFaultLimit
  /\ late \subseteq LateWork

AutosaveInit ==
  /\ tab = Empty /\ made = Empty /\ stored = Empty /\ scored = Empty
  /\ unsent = [s \in Sections |-> NoPayload]
  /\ puts = {} /\ late = {}
  /\ saveError = FALSE /\ syncDue = NotDue
  /\ flow = [f \in Flows |-> NoFlow]
  /\ left = FALSE
  /\ missed = Empty /\ behind = FALSE
  /\ clicks = 0 /\ tabFaults = 0

TabFault ==
  /\ tabFaults < TabFaultLimit
  /\ tabFaults' = tabFaults + 1
  /\ UNCHANGED clicks

\* The server goes on with the request that just failed for the tab.
CarriesOn(todo, K, w) ==
  late' = late \cup {[no |-> tabFaults + 1, todo |-> todo, keys |-> K, copy |-> w]}

\* History: rows L of section s may be missed from here on; what is stored is not.
MayMiss(s, L) ==
  missed' = [x \in Sections |->
    (missed[x] \cup (IF x = s THEN L ELSE {})) \ stored'[x]]

-------------------------------------------------------------------------------
(***************************************************************************)
(* Editing and saving.                                                     *)
(***************************************************************************)

\* Mutated form: one timer and one payload for all sections.
EditUnderOneTimer(s, r) ==
  /\ ~left
  /\ \A x \in Sections : r \notin made[x]
  /\ made' = [made EXCEPT ![s] = @ \cup {r}]
  /\ tab' = [tab EXCEPT ![s] = @ \cup {r}]
  /\ unsent' = [x \in Sections |-> IF x = s THEN tab[s] \cup {r} ELSE NoPayload]
  /\ UNCHANGED <<puts, stored, late, saveError, syncDue, flow, scored, left, histVars, boundVars>>

\* handleRowsChange, scheduleSave: the newest rows of the section replace those
\* that waited, and the wait starts again.
Edit(s, r) ==
  /\ ~left
  /\ \A x \in Sections : r \notin made[x]
  /\ made' = [made EXCEPT ![s] = @ \cup {r}]
  /\ tab' = [tab EXCEPT ![s] = @ \cup {r}]
  /\ unsent' = [unsent EXCEPT ![s] = tab[s] \cup {r}]
  /\ UNCHANGED <<puts, stored, late, saveError, syncDue, flow, scored, left, histVars, boundVars>>

\* The payload that waits is taken, and saveSection sends it.
Send(s, by) ==
  /\ unsent' = [unsent EXCEPT ![s] = NoPayload]
  /\ IF unsent[s] = NoPayload
     THEN UNCHANGED <<puts, saveError>>
     ELSE /\ puts' = puts \cup
                {[sec |-> s, rows |-> unsent[s], by |-> by, state |-> "sent"]}
          /\ saveError' = FALSE

\* The timer of section s.
TimerFires(s) ==
  /\ unsent[s] # NoPayload
  /\ Send(s, Timer)
  /\ UNCHANGED <<tabVars, stored, late, syncDue, flow, scored, histVars, boundVars>>

\* PUT of the section: the stored section is replaced.
StorePut(p) ==
  /\ p.state = "sent"
  /\ puts' = (puts \ {p}) \cup {[p EXCEPT !.state = "stored"]}
  /\ stored' = [stored EXCEPT ![p.sec] = p.rows]
  /\ MayMiss(p.sec, stored[p.sec])
  /\ UNCHANGED <<tabVars, unsent, late, saveError, syncDue, flow, scored, behind, boundVars>>

\* The server refuses it, or it is lost on its way there.
RefusePut(p) ==
  /\ p.state = "sent"
  /\ TabFault
  /\ puts' = (puts \ {p}) \cup {[p EXCEPT !.state = "refused"]}
  /\ UNCHANGED <<tabVars, unsent, stored, late, saveError, syncDue, flow, scored, behind>>
  /\ MayMiss(p.sec, p.rows)

\* A handler that awaited p learns whether it was saved.
Told(p, ok) ==
  IF p.by = Timer \/ ok THEN UNCHANGED flow
  ELSE flow' = [flow EXCEPT ![p.by].ok = FALSE]

\* Mutated form: a save does not ask for a sync.
AnswerOnly(p) ==
  /\ p.state = "stored"
  /\ puts' = puts \ {p}
  /\ UNCHANGED <<syncDue, flow, tabVars, unsent, stored, late, saveError, scored, histVars, boundVars>>

\* The answer of a save that was stored: the sync timer starts again.
AnswerPut(p) ==
  /\ p.state = "stored"
  /\ puts' = puts \ {p}
  /\ syncDue' = [due |-> TRUE, err |-> saveError]
  /\ UNCHANGED <<flow, tabVars, unsent, stored, late, saveError, scored, histVars, boundVars>>

\* The answer of a save that failed.  Its payload is gone; the tab still shows it.
FailPut(p) ==
  /\ p.state = "refused"
  /\ puts' = puts \ {p}
  /\ saveError' = TRUE
  /\ Told(p, FALSE)
  /\ UNCHANGED <<tabVars, unsent, stored, late, syncDue, scored, histVars, boundVars>>

\* The answer of a save that was stored is lost.
LoseAnswer(p) ==
  /\ p.state = "stored"
  /\ TabFault
  /\ puts' = puts \ {p}
  /\ saveError' = TRUE
  /\ Told(p, FALSE)
  /\ behind' = TRUE
  /\ UNCHANGED <<tabVars, unsent, stored, late, syncDue, scored, missed>>

\* The request fails for the tab while the server has yet to store it.
GiveUpPut(p) ==
  /\ p.state = "sent"
  /\ TabFault
  /\ puts' = puts \ {p}
  /\ saveError' = TRUE
  /\ Told(p, FALSE)
  /\ CarriesOn("write", {p.sec}, [Empty EXCEPT ![p.sec] = p.rows])
  /\ UNCHANGED <<tabVars, unsent, stored, syncDue, scored, behind>>
  /\ MayMiss(p.sec, p.rows)

-------------------------------------------------------------------------------
(***************************************************************************)
(* Handlers.                                                               *)
(***************************************************************************)

\* A button: Save, Continue to Summary, or the end of Add documents, which shows
\* one merge at a time.
Click(f, kind) ==
  /\ ~left
  /\ clicks < ClickLimit
  /\ clicks' = clicks + 1
  /\ flow[f] = NoFlow
  /\ kind = "merge" => \A g \in Flows : Doing(g) # "merge"
  /\ flow' = [flow EXCEPT ![f] = Starting(kind, saveError)]
  /\ UNCHANGED <<tabVars, unsent, puts, stored, late, saveError, syncDue, scored, histVars, tabFaults>>

\* The sync timer: nothing happens while a sync is in flight.
SyncTimerFires(f) ==
  /\ syncDue.due
  /\ flow[f] = NoFlow
  /\ syncDue' = NotDue
  /\ IF Syncing
     THEN behind' = TRUE /\ UNCHANGED flow
     ELSE flow' = [flow EXCEPT ![f] = Starting("sync", syncDue.err)] /\ UNCHANGED behind
  /\ UNCHANGED <<tabVars, unsent, puts, stored, late, saveError, scored, missed, boundVars>>

\* waitForInFlight.
WaitEnds(f) ==
  /\ At(f, "wait")
  /\ puts = {}
  /\ Step(f, flow[f])
  /\ UNCHANGED <<tabVars, unsent, puts, stored, late, saveError, syncDue, scored, histVars, boundVars>>

\* After fifteen seconds it waits no longer.
WaitGivesUp(f) ==
  /\ At(f, "wait")
  /\ puts # {}
  /\ TabFault
  /\ Step(f, flow[f])
  /\ UNCHANGED <<tabVars, unsent, puts, stored, late, saveError, syncDue, scored, histVars>>

\* flushAllPending lists the sections with a timer,
FlushKeys(f) ==
  /\ At(f, "keys")
  /\ Step(f, [flow[f] EXCEPT !.keys = {s \in Sections : unsent[s] # NoPayload}])
  /\ UNCHANGED <<tabVars, unsent, puts, stored, late, saveError, syncDue, scored, histVars, boundVars>>

Awaited(f) == {p \in puts : p.by = f}

\* and sends one after the other, each awaited; in what order is left open.
FlushNext(f) ==
  /\ At(f, "flush")
  /\ Awaited(f) = {}
  /\ IF flow[f].keys = {}
     THEN Step(f, flow[f]) /\ UNCHANGED <<unsent, puts, saveError>>
     ELSE \E s \in flow[f].keys :
            /\ flow' = [flow EXCEPT ![f].keys = @ \ {s}]
            /\ Send(s, f)
  /\ UNCHANGED <<tabVars, stored, late, syncDue, scored, histVars, boundVars>>

\* syncWorkbookToScorecard with skipFlush, after f's own work: not while another
\* sync is in flight.
ThenSync(f) ==
  /\ flow' = [flow EXCEPT ![f] = IF Syncing THEN NoFlow ELSE Starting("quick", FALSE)]
  /\ behind' = (behind \/ Syncing)

\* handleContinueToSummary leaves; unmounting clears the sync timer.
Leave(f) ==
  /\ At(f, "leave")
  /\ IF flow[f].ok /\ ~flow[f].err
     THEN /\ left' = TRUE
          /\ syncDue' = NotDue
          /\ ThenSync(f)
     ELSE Stop(f) /\ UNCHANGED <<left, syncDue, behind>>
  /\ UNCHANGED <<tab, made, unsent, puts, stored, late, saveError, scored, missed, boundVars>>

\* A sync goes on only if what it sent was saved and no error was shown.
CheckSaved(f) ==
  /\ At(f, "check")
  /\ IF flow[f].ok /\ ~flow[f].err
     THEN Step(f, flow[f]) /\ UNCHANGED behind
     ELSE Stop(f) /\ behind' = TRUE
  /\ UNCHANGED <<tabVars, unsent, puts, stored, late, saveError, syncDue, scored, missed, boundVars>>

\* handleWorkbookScorecardSync reads the workbook,
SyncRead(f) ==
  /\ At(f, "read")
  /\ Step(f, [flow[f] EXCEPT !.copy = stored])
  /\ behind' = FALSE
  /\ UNCHANGED <<tabVars, unsent, puts, stored, late, saveError, syncDue, scored, missed, boundVars>>

\* and writes the client from it,
SyncProject(f) ==
  /\ At(f, "project")
  /\ scored' = flow[f].copy
  /\ Step(f, flow[f])
  /\ UNCHANGED <<tabVars, unsent, puts, stored, late, saveError, syncDue, histVars, boundVars>>

\* or fails: refused by the server, or given up by the tab, which then counts it
\* as over while the server goes on.
SyncFails(f) ==
  /\ At(f, "read") \/ At(f, "project")
  /\ TabFault
  /\ Stop(f)
  /\ behind' = TRUE
  /\ UNCHANGED late \/ CarriesOn(Head(flow[f].rest), {}, flow[f].copy)
  /\ UNCHANGED <<tabVars, unsent, puts, stored, saveError, syncDue, scored, missed>>

\* Mutated form: the sync is not taken off syncInFlightRef.
SyncKept(f) ==
  /\ At(f, "load")
  /\ UNCHANGED autosaveVars

\* The tab loads the client's data before the sync counts as over.
SyncEnds(f) ==
  /\ At(f, "load")
  /\ Step(f, flow[f])
  /\ UNCHANGED <<tabVars, unsent, puts, stored, late, saveError, syncDue, scored, histVars, boundVars>>

\* The sections the documents add to, and the workbook with their rows.
AddedTo == {s \in Sections : ~(Documents[s] \subseteq stored[s])}

Merged(w) == [s \in Sections |-> w[s] \cup Documents[s]]

\* merge-documents reads the workbook and compares,
MergeCompare(f) ==
  /\ At(f, "compare")
  /\ Step(f, [flow[f] EXCEPT !.copy = stored, !.keys = AddedTo])
  /\ UNCHANGED <<tabVars, unsent, puts, stored, late, saveError, syncDue, scored, histVars, boundVars>>

\* and writes each of the sections, as it read it with the documents' rows.
MergeWrite(f) ==
  /\ At(f, "write")
  /\ \E s \in flow[f].keys :
       /\ stored' = [stored EXCEPT ![s] = Merged(flow[f].copy)[s]]
       /\ flow' = [flow EXCEPT ![f].keys = @ \ {s}]
       /\ MayMiss(s, stored[s])
  /\ UNCHANGED <<tabVars, unsent, puts, late, saveError, syncDue, scored, behind, boundVars>>

MergeAnswered(f) ==
  /\ At(f, "write")
  /\ flow[f].keys = {}
  /\ Step(f, flow[f])
  /\ UNCHANGED <<tabVars, unsent, puts, stored, late, saveError, syncDue, scored, histVars, boundVars>>

\* It fails, before or after some of them, or is given up while the server goes on.
MergeFails(f) ==
  /\ At(f, "compare") \/ At(f, "write")
  /\ TabFault
  /\ Stop(f)
  /\ behind' = TRUE
  /\ UNCHANGED late \/ CarriesOn(Head(flow[f].rest), flow[f].keys, Merged(flow[f].copy))
  /\ UNCHANGED <<tabVars, unsent, puts, stored, saveError, syncDue, scored, missed>>

\* The tab reads the workbook again,
Reload(f) ==
  /\ At(f, "reload")
  /\ Step(f, [flow[f] EXCEPT !.copy = stored])
  /\ UNCHANGED <<tabVars, unsent, puts, stored, late, saveError, syncDue, scored, histVars, boundVars>>

\* shows it in place of its own, and syncs.
Show(f) ==
  /\ At(f, "show")
  /\ tab' = flow[f].copy
  /\ ThenSync(f)
  /\ UNCHANGED <<made, left, unsent, puts, stored, late, saveError, syncDue, scored, boundVars>>
  /\ missed' = [s \in Sections |-> (missed[s] \cup (tab[s] \ flow[f].copy[s])) \ stored[s]]

\* It cannot be read: the tab keeps its own, and syncs.
ReloadFails(f) ==
  /\ At(f, "reload")
  /\ TabFault
  /\ ThenSync(f)
  /\ UNCHANGED <<tabVars, unsent, puts, stored, late, saveError, syncDue, scored, missed>>

-------------------------------------------------------------------------------
(***************************************************************************)
(* Requests the tab has given up.                                          *)
(***************************************************************************)

Replace(x, y) == late' = (late \ {x}) \cup {y}

\* A sync, or a merge, reads the workbook.
LateRead(x) ==
  /\ \/ x.todo = "read" /\ Replace(x, [x EXCEPT !.todo = "project", !.copy = stored])
     \/ /\ x.todo = "compare"
        /\ Replace(x, [x EXCEPT !.todo = "write", !.keys = AddedTo, !.copy = Merged(stored)])
  /\ UNCHANGED <<tabVars, unsent, puts, stored, saveError, syncDue, flow, scored, histVars, boundVars>>

\* A sync writes the client from what it read.
LateProject(x) ==
  /\ x.todo = "project"
  /\ late' = late \ {x}
  /\ scored' = x.copy
  /\ behind' = (behind \/ x.copy # stored)
  /\ UNCHANGED <<tabVars, unsent, puts, stored, saveError, syncDue, flow, missed, boundVars>>

\* A save or a merge writes a section.
LateWrite(x) ==
  /\ x.todo = "write"
  /\ \E s \in x.keys :
       /\ Replace(x, [x EXCEPT !.keys = @ \ {s}])
       /\ stored' = [stored EXCEPT ![s] = x.copy[s]]
       /\ behind' = (behind \/ x.copy[s] # stored[s])
       /\ MayMiss(s, stored[s])
  /\ UNCHANGED <<tabVars, unsent, puts, saveError, syncDue, flow, scored, boundVars>>

\* The server is done with it, or fails.
LateEnds(x) ==
  /\ late' = late \ {x}
  /\ UNCHANGED <<tabVars, unsent, puts, stored, saveError, syncDue, flow, scored, histVars, boundVars>>

-------------------------------------------------------------------------------
\* What goes on of itself.
Machinery ==
  \/ \E s \in Sections : TimerFires(s)
  \/ \E p \in puts : StorePut(p) \/ AnswerPut(p) \/ FailPut(p)
  \/ \E x \in late : LateRead(x) \/ LateProject(x) \/ LateWrite(x) \/ LateEnds(x)
  \/ \E f \in Flows :
       \/ SyncTimerFires(f)
       \/ WaitEnds(f) \/ FlushKeys(f) \/ FlushNext(f) \/ Leave(f) \/ CheckSaved(f)
       \/ SyncRead(f) \/ SyncProject(f) \/ SyncEnds(f)
       \/ MergeCompare(f) \/ MergeWrite(f) \/ MergeAnswered(f) \/ Reload(f) \/ Show(f)

AutosaveNext ==
  \/ \E s \in Sections, r \in Typed : Edit(s, r)
  \/ \E f \in Flows, kind \in {"save", "continue", "merge"} : Click(f, kind)
  \/ Machinery
  \/ \E p \in puts : RefusePut(p) \/ LoseAnswer(p) \/ GiveUpPut(p)
  \/ \E f \in Flows : WaitGivesUp(f) \/ SyncFails(f) \/ MergeFails(f) \/ ReloadFails(f)

AutosaveSpec == AutosaveInit /\ [][AutosaveNext]_autosaveVars

\* Timers fire, requests are answered, and what awaits them goes on.
FairAutosaveSpec == AutosaveSpec /\ WF_autosaveVars(Machinery)

-------------------------------------------------------------------------------
(***************************************************************************)
(* Properties.                                                             *)
(***************************************************************************)

Waiting(s) == IF unsent[s] = NoPayload THEN {} ELSE unsent[s]

Sent(s) == UNION {p.rows : p \in {q \in puts : q.sec = s /\ q.state = "sent"}}

\* A row typed is always somewhere: it waits in the tab, it is on its way, or it
\* is stored; unless the save that carried it failed, an older save or a merge,
\* given up by the tab or not, wrote the section back without it, or a merge made
\* the tab forget it.  Edits of one section never cost another one its rows, and
\* neither do flushes that race timers or one another.
NoRowForgotten ==
  \A s \in Sections : made[s] \subseteq Waiting(s) \cup Sent(s) \cup stored[s] \cup missed[s]

\* Nothing waits, is on its way or is under way.
TabQuiet ==
  /\ \A s \in Sections : unsent[s] = NoPayload
  /\ puts = {} /\ late = {}
  /\ ~syncDue.due
  /\ \A f \in Flows : flow[f] = NoFlow

\* At rest the scorecard is of the workbook as it is stored, unless a sync was
\* refused because another was in flight, was given up for a save that failed,
\* failed, or was never asked for because an answer was lost; or unless a sync that
\* had failed for the tab wrote an older reading, or a save or merge that had
\* failed changed the workbook, after the last sync had read it.
QuietIsScored == TabQuiet => scored = stored \/ behind

\* What the page says: scores sync automatically as you save.
SavedIsScored == TabQuiet => scored = stored

\* The user who continues to the summary leaves nothing typed before that waiting
\* in the tab, though timers, syncs and merges send and fail beside it.
NothingLeftWaiting ==
  [][~left /\ left' =>
       \E f \in Flows :
         /\ At(f, "leave")
         /\ \A s \in Sections : flow[f].before[s] \subseteq
              (UNION {p.rows : p \in {q \in puts : q.sec = s}}) \cup stored[s] \cup missed[s]
    ]_autosaveVars

\* Saves ask for syncs and syncs send saves, but that comes to an end: once the
\* user rests, so does the tab.
ComesToRest == <>[]TabQuiet

\* What the comment on merge-documents says: existing values and rows are never
\* overwritten or deleted.
MergeDeletesNothing ==
  [][\A f \in Flows : MergeWrite(f) => \A s \in Sections : stored[s] \subseteq stored'[s]
    ]_autosaveVars
===============================================================================
