----------------------- MODULE WorkbookAutosave_proofs -----------------------
(***************************************************************************)
(* What module WorkbookAutosave promises of the rows a user types, for     *)
(* every set of sections, rows, documents and handlers.                    *)
(***************************************************************************)
EXTENDS WorkbookAutosave, SequenceTheorems, TLAPS

Saves ==
  [sec : Sections, rows : SUBSET Rows, by : Flows \cup {Timer},
   state : {"sent", "stored", "refused"}]

\* The types, one conjunct for each part of the state.
TabTypes ==
  /\ tab \in Workbooks
  /\ made \in [Sections -> SUBSET Typed]
  /\ unsent \in [Sections -> (SUBSET Rows) \cup {NoPayload}]

StoreTypes ==
  /\ stored \in Workbooks
  /\ scored \in Workbooks
  /\ missed \in Workbooks
  /\ puts \subseteq Saves
  /\ late \subseteq LateWork

FlowTypes == flow \in [Flows -> Handlers \cup {NoFlow}]

FlagTypes ==
  /\ syncDue \in [due : BOOLEAN, err : BOOLEAN]
  /\ saveError \in BOOLEAN /\ left \in BOOLEAN /\ behind \in BOOLEAN

BoundTypes == clicks \in 0..ClickLimit /\ tabFaults \in 0..TabFaultLimit

LEMMA TypeParts ==
  AutosaveTypeOK <=> TabTypes /\ StoreTypes /\ FlowTypes /\ FlagTypes /\ BoundTypes
BY DEF AutosaveTypeOK, TabTypes, StoreTypes, FlowTypes, FlagTypes, BoundTypes, Saves

-------------------------------------------------------------------------------
\* Every handler has something to do when it starts.
LEMMA KindsAre == Kinds = {"save", "continue", "sync", "quick", "merge"}
BY DEF Kinds, Script

LEMMA ScriptTypes ==
  ASSUME NEW kind \in Kinds
  PROVE  Script[kind] \in Seq(Steps) \ {<<>>}
<1>1. CASE kind = "save"
  <2>1. Script[kind] = <<"keys", "flush", "wait">>
    BY <1>1 DEF Script
  <2> QED
    BY <2>1 DEF Steps
<1>2. CASE kind = "continue"
  <2>1. Script[kind] = <<"wait", "keys", "flush", "wait", "leave">>
    BY <1>2 DEF Script
  <2> QED
    BY <2>1 DEF Steps
<1>3. CASE kind = "sync"
  <2>1. Script[kind] =
          <<"wait", "keys", "flush", "wait", "check", "read", "project", "load">>
    BY <1>3 DEF Script
  <2> QED
    BY <2>1 DEF Steps
<1>4. CASE kind = "quick"
  <2>1. Script[kind] = <<"wait", "read", "project", "load">>
    BY <1>4 DEF Script
  <2> QED
    BY <2>1 DEF Steps
<1>5. CASE kind = "merge"
  <2>1. Script[kind] = <<"keys", "flush", "compare", "write", "reload", "show">>
    BY <1>5 DEF Script
  <2> QED
    BY <2>1 DEF Steps
<1> QED
  BY <1>1, <1>2, <1>3, <1>4, <1>5, KindsAre

LEMMA StartingTypes ==
  ASSUME TabTypes,
         NEW kind \in {"save", "continue", "sync", "quick", "merge"}, NEW err \in BOOLEAN
  PROVE  Starting(kind, err) \in Handlers
<1>1. kind \in Kinds
  BY KindsAre
<1>2. Script[kind] \in Seq(Steps) \ {<<>>}
  BY <1>1, ScriptTypes
<1>3. Empty \in Workbooks /\ Empty \in [Sections -> SUBSET Typed]
  BY DEF Empty, Workbooks
<1>4. (IF kind = "continue" THEN made ELSE Empty) \in [Sections -> SUBSET Typed]
  BY <1>3 DEF TabTypes
<1> QED
  BY <1>1, <1>2, <1>3, <1>4 DEF Starting, Handlers

\* What is left of a list of more than one is a list of at least one.
LEMMA TailKept ==
  ASSUME NEW S, NEW q \in Seq(S), q # <<>>, Len(q) # 1
  PROVE  Tail(q) \in Seq(S) \ {<<>>}
<1>1. Len(q) \in Nat /\ Len(q) # 0
  BY EmptySeq
<1>2. Tail(q) \in Seq(S) /\ Len(Tail(q)) = Len(q) - 1
  BY HeadTailProperties
<1>3. Len(Tail(q)) # 0
  BY <1>1, <1>2
<1> QED
  BY <1>2, <1>3, EmptySeq

\* A handler that goes on is a handler, or is done.
LEMMA GoOnTypes ==
  ASSUME NEW x \in Handlers
  PROVE  GoOn(x) \in Handlers \cup {NoFlow}
<1>1. CASE Len(x.rest) = 1
  BY <1>1 DEF GoOn
<1>2. CASE Len(x.rest) # 1
  <2>1. x.rest \in Seq(Steps) /\ x.rest # <<>>
    BY DEF Handlers
  <2>2. Tail(x.rest) \in Seq(Steps) \ {<<>>}
    BY <1>2, <2>1, TailKept
  <2>3. [x EXCEPT !.rest = Tail(x.rest)] \in Handlers
    BY <2>2 DEF Handlers
  <2> QED
    BY <1>2, <2>3 DEF GoOn
<1> QED
  BY <1>1, <1>2

LEMMA StepTypes ==
  ASSUME FlowTypes, NEW f \in Flows, NEW x \in Handlers, Step(f, x)
  PROVE  FlowTypes'
BY GoOnTypes DEF FlowTypes, Step

LEMMA StopTypes ==
  ASSUME FlowTypes, NEW f \in Flows, Stop(f)
  PROVE  FlowTypes'
BY DEF FlowTypes, Stop

\* A handler at a step is a handler, and so it is with other keys or another copy.
LEMMA AtTypes ==
  ASSUME FlowTypes, NEW f \in Flows, NEW step, At(f, step)
  PROVE  /\ flow[f] \in Handlers
         /\ \A K \in SUBSET Sections :
              /\ [flow[f] EXCEPT !.keys = K] \in Handlers
              /\ [flow EXCEPT ![f].keys = K] \in [Flows -> Handlers \cup {NoFlow}]
         /\ \A w \in Workbooks : [flow[f] EXCEPT !.copy = w] \in Handlers
         /\ \A w \in Workbooks, K \in SUBSET Sections :
              [flow[f] EXCEPT !.copy = w, !.keys = K] \in Handlers
<1>1. flow[f] \in Handlers
  BY DEF FlowTypes, At
<1>2. ASSUME NEW K \in SUBSET Sections
      PROVE  /\ [flow[f] EXCEPT !.keys = K] \in Handlers
             /\ [flow EXCEPT ![f].keys = K] \in [Flows -> Handlers \cup {NoFlow}]
  <2>1. [flow[f] EXCEPT !.keys = K] \in Handlers
    BY <1>1 DEF Handlers
  <2> QED
    BY <2>1 DEF FlowTypes
<1>3. ASSUME NEW w \in Workbooks
      PROVE  [flow[f] EXCEPT !.copy = w] \in Handlers
  BY <1>1, <1>3 DEF Handlers
<1>4. ASSUME NEW w \in Workbooks, NEW K \in SUBSET Sections
      PROVE  [flow[f] EXCEPT !.copy = w, !.keys = K] \in Handlers
  BY <1>1, <1>4 DEF Handlers
<1> QED
  BY <1>1, <1>2, <1>3, <1>4

LEMMA ThenSyncTypes ==
  ASSUME TabTypes, FlowTypes, behind \in BOOLEAN, NEW f \in Flows, ThenSync(f)
  PROVE  FlowTypes' /\ behind' \in BOOLEAN
<1>1. Starting("quick", FALSE) \in Handlers
  BY StartingTypes
<1>2. FlowTypes'
  BY <1>1 DEF FlowTypes, ThenSync
<1>3. Syncing \in BOOLEAN
  BY DEF Syncing
<1>4. behind' \in BOOLEAN
  BY <1>3 DEF ThenSync
<1> QED
  BY <1>2, <1>4

\* Sending keeps the types.
LEMMA SendTypes ==
  ASSUME TabTypes, StoreTypes, FlagTypes, NEW s \in Sections, NEW by \in Flows \cup {Timer},
         Send(s, by)
  PROVE  /\ unsent' \in [Sections -> (SUBSET Rows) \cup {NoPayload}]
         /\ puts' \subseteq Saves
         /\ saveError' \in BOOLEAN
<1>1. unsent' \in [Sections -> (SUBSET Rows) \cup {NoPayload}]
  BY DEF Send, TabTypes
<1>2. CASE unsent[s] = NoPayload
  BY <1>1, <1>2 DEF Send, StoreTypes, FlagTypes
<1>3. CASE unsent[s] # NoPayload
  <2>1. unsent[s] \in SUBSET Rows
    BY <1>3 DEF TabTypes
  <2>2. [sec |-> s, rows |-> unsent[s], by |-> by, state |-> "sent"] \in Saves
    BY <2>1 DEF Saves
  <2> QED
    BY <1>1, <1>3, <2>2 DEF Send, StoreTypes
<1> QED
  BY <1>2, <1>3

\* The sections a merge adds to are sections, and the workbook it makes is one.
LEMMA AddedToTypes == AddedTo \in SUBSET Sections
BY DEF AddedTo

LEMMA MergedTypes ==
  ASSUME NEW w \in Workbooks
  PROVE  Merged(w) \in Workbooks
BY DEF Merged, Workbooks, Rows

\* A request given up is work the server may still do.
LEMMA CarriesOnTypes ==
  ASSUME BoundTypes, late \subseteq LateWork, TabFault,
         NEW todo \in {"read", "project", "compare", "write"},
         NEW K \in SUBSET Sections, NEW w \in Workbooks, CarriesOn(todo, K, w)
  PROVE  late' \subseteq LateWork
<1>1. tabFaults + 1 \in 1..TabFaultLimit
  BY AutosaveConstants DEF BoundTypes, TabFault
<1>2. [no |-> tabFaults + 1, todo |-> todo, keys |-> K, copy |-> w] \in LateWork
  BY <1>1 DEF LateWork
<1> QED
  BY <1>2 DEF CarriesOn

LEMMA MissTypes ==
  ASSUME StoreTypes, NEW s \in Sections, NEW L \in SUBSET Rows, MayMiss(s, L)
  PROVE  missed' \in Workbooks
BY DEF StoreTypes, MayMiss, Workbooks
\* A save that a handler awaits finds the handler where it sent it.
Awaits == \A p \in puts : p.by # Timer => At(p.by, "flush")

\* A save told that it failed leaves a handler a handler, and where it is.
LEMMA ToldKeeps ==
  ASSUME FlowTypes, StoreTypes, Awaits, NEW p \in puts, NEW ok \in BOOLEAN, Told(p, ok),
         puts' = puts \ {p}
  PROVE  FlowTypes' /\ Awaits'
<1>1. CASE p.by = Timer \/ ok
  BY <1>1 DEF Told, FlowTypes, Awaits, At
<1>2. CASE ~(p.by = Timer \/ ok)
  <2>1. p.by \in Flows /\ flow[p.by] \in Handlers
    BY <1>2 DEF StoreTypes, Saves, Awaits, At, FlowTypes
  <2>2. flow' = [flow EXCEPT ![p.by] = [flow[p.by] EXCEPT !.ok = FALSE]]
    BY <1>2 DEF Told
  <2>3. [flow[p.by] EXCEPT !.ok = FALSE] \in Handlers
    BY <2>1 DEF Handlers
  <2>4. FlowTypes'
    BY <2>1, <2>2, <2>3 DEF FlowTypes
  <2>5. ASSUME NEW g \in Flows, At(g, "flush")
        PROVE  At(g, "flush")'
    <3>1. CASE g = p.by
      <4>1. flow'[g] \in Handlers /\ flow'[g].rest = flow[g].rest
        BY <2>1, <2>2, <2>3, <3>1 DEF FlowTypes, Handlers
      <4>2. flow'[g] # NoFlow
        BY <2>5, <3>1, <2>2, <2>1, <4>1, NoFlowIsNoHandler DEF FlowTypes
      <4> QED
        BY <2>5, <4>1, <4>2 DEF At
    <3>2. CASE g # p.by
      BY <2>5, <2>2, <3>2, <2>1 DEF FlowTypes, At
    <3> QED
      BY <3>1, <3>2
  <2>6. \A q \in puts' : q.by # Timer => q.by \in Flows /\ At(q.by, "flush")
    BY DEF StoreTypes, Saves, Awaits
  <2> QED
    BY <2>4, <2>5, <2>6 DEF Awaits
<1> QED
  BY <1>1, <1>2

\* What a handler does away from its flush leaves the awaited saves as they are.
LEMMA AwaitsKept ==
  ASSUME FlowTypes, StoreTypes, Awaits, NEW f \in Flows, NEW x, ~At(f, "flush"),
         flow' = [flow EXCEPT ![f] = x], puts' = puts
  PROVE  Awaits'
<1>1. \A p \in puts : p.by # Timer => p.by \in Flows /\ p.by # f
  BY DEF StoreTypes, Saves, Awaits
<1> QED
  BY <1>1 DEF FlowTypes, Awaits, At

LEMMA FaultTypes ==
  ASSUME BoundTypes, TabFault
  PROVE  BoundTypes'
BY AutosaveConstants DEF BoundTypes, TabFault
-------------------------------------------------------------------------------
\* The types, with what a handler that is told of a failed save relies on.
Typing == TabTypes /\ StoreTypes /\ FlowTypes /\ FlagTypes /\ BoundTypes

TypeInv == Typing /\ Awaits

LEMMA TypeInvInit ==
  ASSUME AutosaveInit
  PROVE  TypeInv
<1>1. Empty \in Workbooks /\ Empty \in [Sections -> SUBSET Typed]
  BY DEF Empty, Workbooks
<1>2. TabTypes /\ StoreTypes /\ FlowTypes /\ FlagTypes
  BY <1>1 DEF AutosaveInit, TabTypes, StoreTypes, FlowTypes, FlagTypes, NotDue
<1>3. BoundTypes
  BY AutosaveConstants DEF AutosaveInit, BoundTypes
<1>4. Awaits
  BY DEF AutosaveInit, Awaits
<1> QED
  BY <1>2, <1>3, <1>4 DEF TypeInv, Typing

\* A change, and what becomes of its save.
LEMMA SavingKeepsTypes ==
  ASSUME TypeInv,
         \/ \E s \in Sections, r \in Typed : Edit(s, r)
         \/ \E s \in Sections : TimerFires(s)
         \/ \E p \in puts :
              \/ StorePut(p) \/ RefusePut(p) \/ AnswerPut(p) \/ FailPut(p) \/ LoseAnswer(p)
              \/ GiveUpPut(p)
  PROVE  TypeInv'
<1> USE DEF TypeInv, Typing
<1>1. ASSUME NEW s \in Sections, NEW r \in Typed, Edit(s, r)
      PROVE  TypeInv'
  <2>1. r \in Rows
    BY DEF Rows
  <2>2. tab[s] \cup {r} \in SUBSET Rows
    BY <2>1 DEF TabTypes, Workbooks
  <2>3. tab' \in Workbooks /\ unsent' \in [Sections -> (SUBSET Rows) \cup {NoPayload}]
    BY <1>1, <2>2 DEF Edit, TabTypes, Workbooks
  <2>4. made' \in [Sections -> SUBSET Typed]
    BY <1>1 DEF Edit, TabTypes
  <2> QED
    BY <1>1, <2>3, <2>4
    DEF Edit, TabTypes, StoreTypes, FlowTypes, FlagTypes, BoundTypes, Awaits, At,
        histVars, boundVars
<1>2. ASSUME NEW s \in Sections, TimerFires(s)
      PROVE  TypeInv'
  <2>1. /\ unsent' \in [Sections -> (SUBSET Rows) \cup {NoPayload}]
        /\ puts' \subseteq Saves
        /\ saveError' \in BOOLEAN
    BY <1>2, SendTypes DEF TimerFires
  <2>2. Awaits'
    BY <1>2 DEF TimerFires, Send, Awaits, At
  <2> QED
    BY <1>2, <2>1, <2>2
    DEF TimerFires, TabTypes, StoreTypes, FlowTypes, FlagTypes, BoundTypes,
        tabVars, histVars, boundVars
<1>3. ASSUME NEW p \in puts, StorePut(p)
      PROVE  TypeInv'
  <2>1. p \in Saves
    BY DEF StoreTypes
  <2>2. [p EXCEPT !.state = "stored"] \in Saves /\ [p EXCEPT !.state = "stored"].by = p.by
    BY <2>1 DEF Saves
  <2>3. stored' \in Workbooks /\ puts' \subseteq Saves
    BY <1>3, <2>1, <2>2 DEF StorePut, StoreTypes, Workbooks, Saves
  <2>4. p.sec \in Sections /\ stored[p.sec] \in SUBSET Rows
    BY <2>1 DEF Saves, StoreTypes, Workbooks
  <2>5. missed' \in Workbooks
    BY <1>3, <2>4, MissTypes DEF StorePut
  <2>6. Awaits'
    BY <1>3, <2>2 DEF StorePut, Awaits, At
  <2> QED
    BY <1>3, <2>3, <2>5, <2>6
    DEF StorePut, TabTypes, StoreTypes, FlowTypes, FlagTypes, BoundTypes, tabVars, boundVars
<1>4. ASSUME NEW p \in puts, RefusePut(p)
      PROVE  TypeInv'
  <2>1. p \in Saves
    BY DEF StoreTypes
  <2>2. [p EXCEPT !.state = "refused"] \in Saves /\ [p EXCEPT !.state = "refused"].by = p.by
    BY <2>1 DEF Saves
  <2>3. puts' \subseteq Saves
    BY <1>4, <2>2 DEF RefusePut, StoreTypes
  <2>4. p.sec \in Sections /\ p.rows \in SUBSET Rows
    BY <2>1 DEF Saves
  <2>5. missed' \in Workbooks
    BY <1>4, <2>4, MissTypes DEF RefusePut
  <2>6. Awaits'
    BY <1>4, <2>2 DEF RefusePut, Awaits, At
  <2>7. BoundTypes'
    BY <1>4, FaultTypes DEF RefusePut
  <2> QED
    BY <1>4, <2>3, <2>5, <2>6, <2>7
    DEF RefusePut, TabTypes, StoreTypes, FlowTypes, FlagTypes, tabVars
<1>5. ASSUME NEW p \in puts, AnswerPut(p)
      PROVE  TypeInv'
  BY <1>5
  DEF AnswerPut, TabTypes, StoreTypes, FlowTypes, FlagTypes, BoundTypes, Awaits, At,
      tabVars, histVars, boundVars
<1>6. ASSUME NEW p \in puts, FailPut(p)
      PROVE  TypeInv'
  <2>1. FlowTypes' /\ Awaits'
    BY <1>6, ToldKeeps DEF FailPut
  <2> QED
    BY <1>6, <2>1
    DEF FailPut, TabTypes, StoreTypes, FlagTypes, BoundTypes, tabVars, histVars, boundVars
<1>7. ASSUME NEW p \in puts, LoseAnswer(p)
      PROVE  TypeInv'
  <2>1. FlowTypes' /\ Awaits'
    BY <1>7, ToldKeeps DEF LoseAnswer
  <2>2. BoundTypes'
    BY <1>7, FaultTypes DEF LoseAnswer
  <2> QED
    BY <1>7, <2>1, <2>2 DEF LoseAnswer, TabTypes, StoreTypes, FlagTypes, tabVars
<1>8. ASSUME NEW p \in puts, GiveUpPut(p)
      PROVE  TypeInv'
  <2>1. FlowTypes' /\ Awaits'
    BY <1>8, ToldKeeps DEF GiveUpPut
  <2>2. BoundTypes'
    BY <1>8, FaultTypes DEF GiveUpPut
  <2>3. p.sec \in Sections /\ p.rows \in SUBSET Rows
    BY DEF StoreTypes, Saves
  <2>4. missed' \in Workbooks
    BY <1>8, <2>3, MissTypes DEF GiveUpPut
  <2>5. {p.sec} \in SUBSET Sections /\ [Empty EXCEPT ![p.sec] = p.rows] \in Workbooks
    BY <2>3 DEF Empty, Workbooks
  <2>6. late' \subseteq LateWork
    BY <1>8, <2>5, CarriesOnTypes DEF GiveUpPut, StoreTypes
  <2> QED
    BY <1>8, <2>1, <2>2, <2>4, <2>6 DEF GiveUpPut, TabTypes, StoreTypes, FlagTypes, tabVars
<1> QED
  BY <1>1, <1>2, <1>3, <1>4, <1>5, <1>6, <1>7, <1>8
\* A handler starts.
LEMMA StartsKeepTypes ==
  ASSUME TypeInv, NEW f \in Flows,
         \/ \E kind \in {"save", "continue", "merge"} : Click(f, kind)
         \/ SyncTimerFires(f)
  PROVE  TypeInv'
<1> USE DEF TypeInv, Typing
<1>1. ASSUME NEW kind \in {"save", "continue", "merge"}, Click(f, kind)
      PROVE  TypeInv'
  <2>1. Starting(kind, saveError) \in Handlers
    BY StartingTypes DEF FlagTypes
  <2>2. FlowTypes'
    BY <1>1, <2>1 DEF Click, FlowTypes
  <2>3. ~At(f, "flush")
    BY <1>1 DEF Click, At
  <2>4. Awaits'
    BY <1>1, <2>3, AwaitsKept DEF Click
  <2>5. BoundTypes'
    BY <1>1, AutosaveConstants DEF Click, BoundTypes
  <2> QED
    BY <1>1, <2>2, <2>4, <2>5 DEF Click, TabTypes, StoreTypes, FlagTypes, tabVars, histVars
<1>2. ASSUME SyncTimerFires(f)
      PROVE  TypeInv'
  <2>1. Starting("sync", syncDue.err) \in Handlers
    BY StartingTypes DEF FlagTypes
  <2>2. FlowTypes' /\ behind' \in BOOLEAN
    BY <1>2, <2>1 DEF SyncTimerFires, FlowTypes, FlagTypes
  <2>3. ~At(f, "flush")
    BY <1>2 DEF SyncTimerFires, At
  <2>4. Awaits'
    <3>1. CASE Syncing
      BY <1>2, <3>1 DEF SyncTimerFires, Awaits, At
    <3>2. CASE ~Syncing
      BY <1>2, <3>2, <2>3, AwaitsKept DEF SyncTimerFires
    <3> QED
      BY <3>1, <3>2
  <2>5. syncDue' \in [due : BOOLEAN, err : BOOLEAN]
    BY <1>2 DEF SyncTimerFires, NotDue
  <2> QED
    BY <1>2, <2>2, <2>4, <2>5
    DEF SyncTimerFires, TabTypes, StoreTypes, FlagTypes, BoundTypes, tabVars, boundVars
<1> QED
  BY <1>1, <1>2

\* At another step a handler is not at its flush.
LEMMA NotFlushing ==
  ASSUME NEW f \in Flows, NEW step, At(f, step), step # "flush"
  PROVE  ~At(f, "flush")
BY DEF At

\* A handler that goes on from another step, or stops there, keeps the types of the
\* handlers.
LEMMA StepKeeps ==
  ASSUME TypeInv, NEW f \in Flows, ~At(f, "flush"), NEW x \in Handlers, Step(f, x), puts' = puts
  PROVE  FlowTypes' /\ Awaits'
BY StepTypes, AwaitsKept DEF TypeInv, Typing, Step

LEMMA StopKeeps ==
  ASSUME TypeInv, NEW f \in Flows, ~At(f, "flush"), Stop(f), puts' = puts
  PROVE  FlowTypes' /\ Awaits'
BY StopTypes, AwaitsKept DEF TypeInv, Typing, Stop

LEMMA ThenSyncKeeps ==
  ASSUME TypeInv, NEW f \in Flows, ~At(f, "flush"), ThenSync(f), puts' = puts
  PROVE  FlowTypes' /\ Awaits' /\ behind' \in BOOLEAN
BY ThenSyncTypes, AwaitsKept DEF TypeInv, Typing, ThenSync, FlagTypes
\* A handler goes on from what it awaited.
LEMMA WaitingKeepsTypes ==
  ASSUME TypeInv, NEW f \in Flows,
         WaitEnds(f) \/ WaitGivesUp(f) \/ FlushKeys(f) \/ FlushNext(f)
  PROVE  TypeInv'
<1> USE DEF TypeInv, Typing
<1>1. CASE WaitEnds(f)
  <2>1. flow[f] \in Handlers /\ ~At(f, "flush")
    BY <1>1, AtTypes, NotFlushing DEF WaitEnds
  <2>2. FlowTypes' /\ Awaits'
    BY <1>1, <2>1, StepKeeps DEF WaitEnds
  <2> QED
    BY <1>1, <2>2
    DEF WaitEnds, TabTypes, StoreTypes, FlagTypes, BoundTypes, tabVars, histVars, boundVars
<1>2. CASE WaitGivesUp(f)
  <2>1. flow[f] \in Handlers /\ ~At(f, "flush")
    BY <1>2, AtTypes, NotFlushing DEF WaitGivesUp
  <2>2. FlowTypes' /\ Awaits'
    BY <1>2, <2>1, StepKeeps DEF WaitGivesUp
  <2>3. BoundTypes'
    BY <1>2, FaultTypes DEF WaitGivesUp
  <2> QED
    BY <1>2, <2>2, <2>3 DEF WaitGivesUp, TabTypes, StoreTypes, FlagTypes, tabVars, histVars
<1>3. CASE FlushKeys(f)
  <2> DEFINE K == {s \in Sections : unsent[s] # NoPayload}
  <2>1. K \in SUBSET Sections
    OBVIOUS
  <2>2. [flow[f] EXCEPT !.keys = K] \in Handlers /\ ~At(f, "flush")
    BY <1>3, <2>1, AtTypes, NotFlushing DEF FlushKeys
  <2>3. FlowTypes' /\ Awaits'
    BY <1>3, <2>2, StepKeeps DEF FlushKeys
  <2> QED
    BY <1>3, <2>3
    DEF FlushKeys, TabTypes, StoreTypes, FlagTypes, BoundTypes, tabVars, histVars, boundVars
<1>4. CASE FlushNext(f)
  <2>1. flow[f] \in Handlers
    BY <1>4, AtTypes DEF FlushNext
  <2>2. CASE flow[f].keys = {}
    <3>1. FlowTypes'
      BY <1>4, <2>1, <2>2, StepTypes DEF FlushNext
    <3>2. \A p \in puts : p.by # f
      BY <1>4 DEF FlushNext, Awaited
    <3>3. Awaits'
      BY <1>4, <2>2, <3>2 DEF FlushNext, Step, Awaits, At, StoreTypes, Saves, FlowTypes
    <3> QED
      BY <1>4, <2>2, <3>1, <3>3
      DEF FlushNext, TabTypes, StoreTypes, FlagTypes, BoundTypes, tabVars, histVars, boundVars
  <2>3. CASE flow[f].keys # {}
    <3>1. PICK s \in flow[f].keys :
            /\ flow' = [flow EXCEPT ![f].keys = flow[f].keys \ {s}]
            /\ Send(s, f)
      BY <1>4, <2>3 DEF FlushNext
    <3>2. s \in Sections /\ flow[f].keys \ {s} \in SUBSET Sections
      BY <2>1 DEF Handlers
    <3>3. FlowTypes'
      BY <1>4, <3>1, <3>2, AtTypes DEF FlushNext, FlowTypes
    <3>4. /\ unsent' \in [Sections -> (SUBSET Rows) \cup {NoPayload}]
          /\ puts' \subseteq Saves
          /\ saveError' \in BOOLEAN
      BY <3>1, <3>2, SendTypes
    <3>5. ASSUME NEW g \in Flows, At(g, "flush")
          PROVE  At(g, "flush")'
      <4>1. flow[g] \in Handlers
        BY <3>5, AtTypes
      <4>2. flow'[g] # NoFlow /\ flow'[g].rest = flow[g].rest
        <5>1. CASE g # f
          BY <3>1, <3>5, <5>1 DEF FlowTypes, At
        <5>2. CASE g = f
          <6>1. flow'[f] = [flow[f] EXCEPT !.keys = flow[f].keys \ {s}]
            BY <3>1 DEF FlowTypes
          <6>2. [flow[f] EXCEPT !.keys = flow[f].keys \ {s}] \in Handlers
            BY <2>1, <3>2 DEF Handlers
          <6> QED
            BY <2>1, <5>2, <6>1, <6>2, NoFlowIsNoHandler DEF Handlers
        <5> QED
          BY <5>1, <5>2
      <4> QED
        BY <3>5, <4>2 DEF At
    <3>6. \A p \in puts' : p.by # Timer => p.by \in Flows /\ At(p.by, "flush")
      BY <1>4, <3>1 DEF FlushNext, Send, Awaits, StoreTypes, Saves
    <3>7. Awaits'
      BY <3>5, <3>6 DEF Awaits
    <3> QED
      BY <1>4, <3>3, <3>4, <3>7
      DEF FlushNext, TabTypes, StoreTypes, FlagTypes, BoundTypes, tabVars, histVars, boundVars
  <2> QED
    BY <2>2, <2>3
<1> QED
  BY <1>1, <1>2, <1>3, <1>4
\* A handler leaves, or syncs.
LEMMA SyncingKeepsTypes ==
  ASSUME TypeInv, NEW f \in Flows,
         \/ Leave(f) \/ CheckSaved(f)
         \/ SyncRead(f) \/ SyncProject(f) \/ SyncFails(f) \/ SyncEnds(f)
  PROVE  TypeInv'
<1> USE DEF TypeInv, Typing
<1>1. CASE Leave(f)
  <2>1. ~At(f, "flush")
    BY <1>1, NotFlushing DEF Leave
  <2>2. FlowTypes' /\ Awaits' /\ behind' \in BOOLEAN
    <3>1. CASE flow[f].ok /\ ~flow[f].err
      BY <1>1, <2>1, <3>1, ThenSyncKeeps DEF Leave
    <3>2. CASE ~(flow[f].ok /\ ~flow[f].err)
      BY <1>1, <2>1, <3>2, StopKeeps DEF Leave, FlagTypes
    <3> QED
      BY <3>1, <3>2
  <2>3. left' \in BOOLEAN /\ syncDue' \in [due : BOOLEAN, err : BOOLEAN]
    <3>1. CASE flow[f].ok /\ ~flow[f].err
      <4>1. left' = TRUE /\ syncDue' = NotDue
        BY <1>1, <3>1 DEF Leave
      <4> QED
        BY <4>1 DEF NotDue
    <3>2. CASE ~(flow[f].ok /\ ~flow[f].err)
      <4>1. left' = left /\ syncDue' = syncDue
        BY <1>1, <3>2 DEF Leave
      <4> QED
        BY <4>1 DEF FlagTypes
    <3> QED
      BY <3>1, <3>2
  <2> QED
    BY <1>1, <2>2, <2>3 DEF Leave, TabTypes, StoreTypes, FlagTypes, BoundTypes, boundVars
<1>2. CASE CheckSaved(f)
  <2>1. flow[f] \in Handlers /\ ~At(f, "flush")
    BY <1>2, AtTypes, NotFlushing DEF CheckSaved
  <2>2. FlowTypes' /\ Awaits' /\ behind' \in BOOLEAN
    <3>1. CASE flow[f].ok /\ ~flow[f].err
      BY <1>2, <2>1, <3>1, StepKeeps DEF CheckSaved, FlagTypes
    <3>2. CASE ~(flow[f].ok /\ ~flow[f].err)
      BY <1>2, <2>1, <3>2, StopKeeps DEF CheckSaved
    <3> QED
      BY <3>1, <3>2
  <2> QED
    BY <1>2, <2>2
    DEF CheckSaved, TabTypes, StoreTypes, FlagTypes, BoundTypes, tabVars, boundVars
<1>3. CASE SyncRead(f)
  <2>1. [flow[f] EXCEPT !.copy = stored] \in Handlers /\ ~At(f, "flush")
    BY <1>3, AtTypes, NotFlushing DEF SyncRead, StoreTypes
  <2>2. FlowTypes' /\ Awaits'
    BY <1>3, <2>1, StepKeeps DEF SyncRead
  <2> QED
    BY <1>3, <2>2 DEF SyncRead, TabTypes, StoreTypes, FlagTypes, BoundTypes, tabVars, boundVars
<1>4. CASE SyncProject(f)
  <2>1. flow[f] \in Handlers /\ ~At(f, "flush")
    BY <1>4, AtTypes, NotFlushing DEF SyncProject
  <2>2. FlowTypes' /\ Awaits'
    BY <1>4, <2>1, StepKeeps DEF SyncProject
  <2>3. scored' \in Workbooks
    BY <1>4, <2>1 DEF SyncProject, Handlers
  <2> QED
    BY <1>4, <2>2, <2>3
    DEF SyncProject, TabTypes, StoreTypes, FlagTypes, BoundTypes, tabVars, histVars, boundVars
<1>5. CASE SyncFails(f)
  <2>1. ~At(f, "flush")
    BY <1>5, NotFlushing DEF SyncFails
  <2>2. FlowTypes' /\ Awaits'
    BY <1>5, <2>1, StopKeeps DEF SyncFails
  <2>3. BoundTypes'
    BY <1>5, FaultTypes DEF SyncFails
  <2>4. late' \subseteq LateWork
    <3>1. CASE late' = late
      BY <3>1 DEF StoreTypes
    <3>2. CASE CarriesOn(Head(flow[f].rest), {}, flow[f].copy)
      <4>1. Head(flow[f].rest) \in {"read", "project", "compare", "write"}
        BY <1>5 DEF SyncFails, At
      <4>2. flow[f].copy \in Workbooks
        BY <1>5, AtTypes DEF SyncFails, Handlers
      <4> QED
        BY <1>5, <3>2, <4>1, <4>2, CarriesOnTypes DEF SyncFails, StoreTypes
    <3> QED
      BY <1>5, <3>1, <3>2 DEF SyncFails
  <2> QED
    BY <1>5, <2>2, <2>3, <2>4 DEF SyncFails, TabTypes, StoreTypes, FlagTypes, tabVars
<1>6. CASE SyncEnds(f)
  <2>1. flow[f] \in Handlers /\ ~At(f, "flush")
    BY <1>6, AtTypes, NotFlushing DEF SyncEnds
  <2>2. FlowTypes' /\ Awaits'
    BY <1>6, <2>1, StepKeeps DEF SyncEnds
  <2> QED
    BY <1>6, <2>2
    DEF SyncEnds, TabTypes, StoreTypes, FlagTypes, BoundTypes, tabVars, histVars, boundVars
<1> QED
  BY <1>1, <1>2, <1>3, <1>4, <1>5, <1>6

\* A merge compares, writes, and shows what it left.
LEMMA MergingKeepsTypes ==
  ASSUME TypeInv, NEW f \in Flows,
         \/ MergeCompare(f) \/ MergeWrite(f) \/ MergeAnswered(f) \/ MergeFails(f)
         \/ Reload(f) \/ Show(f) \/ ReloadFails(f)
  PROVE  TypeInv'
<1> USE DEF TypeInv, Typing
<1>1. CASE MergeCompare(f)
  <2>1. [flow[f] EXCEPT !.copy = stored, !.keys = AddedTo] \in Handlers /\ ~At(f, "flush")
    BY <1>1, AtTypes, AddedToTypes, NotFlushing DEF MergeCompare, StoreTypes
  <2>2. FlowTypes' /\ Awaits'
    BY <1>1, <2>1, StepKeeps DEF MergeCompare
  <2> QED
    BY <1>1, <2>2
    DEF MergeCompare, TabTypes, StoreTypes, FlagTypes, BoundTypes, tabVars, histVars, boundVars
<1>2. CASE MergeWrite(f)
  <2>1. flow[f] \in Handlers /\ ~At(f, "flush")
    BY <1>2, AtTypes, NotFlushing DEF MergeWrite
  <2>2. PICK s \in flow[f].keys :
          /\ stored' = [stored EXCEPT ![s] = Merged(flow[f].copy)[s]]
          /\ flow' = [flow EXCEPT ![f].keys = flow[f].keys \ {s}]
          /\ MayMiss(s, stored[s])
    BY <1>2 DEF MergeWrite
  <2>3. s \in Sections /\ flow[f].keys \ {s} \in SUBSET Sections
    BY <2>1 DEF Handlers
  <2>4. FlowTypes'
    BY <1>2, <2>2, <2>3, AtTypes DEF MergeWrite, FlowTypes
  <2>5. Awaits'
    <3>1. flow' = [flow EXCEPT ![f] = [flow[f] EXCEPT !.keys = flow[f].keys \ {s}]]
      BY <2>2
    <3> QED
      BY <1>2, <2>1, <3>1, AwaitsKept DEF MergeWrite
  <2>6. Merged(flow[f].copy)[s] \in SUBSET Rows
    BY <2>1, <2>3, MergedTypes DEF Handlers, Workbooks
  <2>7. stored' \in Workbooks
    BY <2>2, <2>3, <2>6 DEF StoreTypes, Workbooks
  <2>8. stored[s] \in SUBSET Rows
    BY <2>3 DEF StoreTypes, Workbooks
  <2>9. missed' \in Workbooks
    BY <2>2, <2>3, <2>8, MissTypes
  <2> QED
    BY <1>2, <2>4, <2>5, <2>7, <2>9
    DEF MergeWrite, TabTypes, StoreTypes, FlagTypes, BoundTypes, tabVars, boundVars
<1>3. CASE MergeAnswered(f)
  <2>1. flow[f] \in Handlers /\ ~At(f, "flush")
    BY <1>3, AtTypes, NotFlushing DEF MergeAnswered
  <2>2. FlowTypes' /\ Awaits'
    BY <1>3, <2>1, StepKeeps DEF MergeAnswered
  <2> QED
    BY <1>3, <2>2
    DEF MergeAnswered, TabTypes, StoreTypes, FlagTypes, BoundTypes, tabVars, histVars, boundVars
<1>4. CASE MergeFails(f)
  <2>1. ~At(f, "flush")
    BY <1>4, NotFlushing DEF MergeFails
  <2>2. FlowTypes' /\ Awaits'
    BY <1>4, <2>1, StopKeeps DEF MergeFails
  <2>3. BoundTypes'
    BY <1>4, FaultTypes DEF MergeFails
  <2>4. late' \subseteq LateWork
    <3>1. CASE late' = late
      BY <3>1 DEF StoreTypes
    <3>2. CASE CarriesOn(Head(flow[f].rest), flow[f].keys, Merged(flow[f].copy))
      <4>1. Head(flow[f].rest) \in {"read", "project", "compare", "write"}
        BY <1>4 DEF MergeFails, At
      <4>2. flow[f] \in Handlers
        BY <1>4 DEF MergeFails, At, FlowTypes
      <4>3. flow[f].keys \in SUBSET Sections /\ flow[f].copy \in Workbooks
        BY <4>2 DEF Handlers
      <4>4. Merged(flow[f].copy) \in Workbooks
        BY <4>3, MergedTypes
      <4> QED
        BY <1>4, <3>2, <4>1, <4>3, <4>4, CarriesOnTypes DEF MergeFails, StoreTypes
    <3> QED
      BY <1>4, <3>1, <3>2 DEF MergeFails
  <2> QED
    BY <1>4, <2>2, <2>3, <2>4 DEF MergeFails, TabTypes, StoreTypes, FlagTypes, tabVars
<1>5. CASE Reload(f)
  <2>1. [flow[f] EXCEPT !.copy = stored] \in Handlers /\ ~At(f, "flush")
    BY <1>5, AtTypes, NotFlushing DEF Reload, StoreTypes
  <2>2. FlowTypes' /\ Awaits'
    BY <1>5, <2>1, StepKeeps DEF Reload
  <2> QED
    BY <1>5, <2>2
    DEF Reload, TabTypes, StoreTypes, FlagTypes, BoundTypes, tabVars, histVars, boundVars
<1>6. CASE Show(f)
  <2>1. flow[f] \in Handlers /\ ~At(f, "flush")
    BY <1>6, AtTypes, NotFlushing DEF Show
  <2>2. FlowTypes' /\ Awaits' /\ behind' \in BOOLEAN
    BY <1>6, <2>1, ThenSyncKeeps DEF Show
  <2>3. tab' \in Workbooks
    BY <1>6, <2>1 DEF Show, Handlers
  <2>4. missed' \in Workbooks
    BY <1>6 DEF Show, StoreTypes, TabTypes, Workbooks
  <2> QED
    BY <1>6, <2>2, <2>3, <2>4 DEF Show, TabTypes, StoreTypes, FlagTypes, BoundTypes, boundVars
<1>7. CASE ReloadFails(f)
  <2>1. ~At(f, "flush")
    BY <1>7, NotFlushing DEF ReloadFails
  <2>2. FlowTypes' /\ Awaits' /\ behind' \in BOOLEAN
    BY <1>7, <2>1, ThenSyncKeeps DEF ReloadFails
  <2>3. BoundTypes'
    BY <1>7, FaultTypes DEF ReloadFails
  <2> QED
    BY <1>7, <2>2, <2>3 DEF ReloadFails, TabTypes, StoreTypes, FlagTypes, tabVars
<1> QED
  BY <1>1, <1>2, <1>3, <1>4, <1>5, <1>6, <1>7

\* The server goes on with a request given up: the tab and its handlers stay as they
\* are.
LEMMA LateKeepsTypes ==
  ASSUME TypeInv, NEW x \in late, LateRead(x) \/ LateProject(x) \/ LateWrite(x) \/ LateEnds(x)
  PROVE  TypeInv'
<1> USE DEF TypeInv, Typing
<1>1. x \in LateWork
  BY DEF StoreTypes
<1>2. TabTypes' /\ FlowTypes' /\ Awaits' /\ BoundTypes'
  BY DEF LateRead, LateProject, LateWrite, LateEnds, TabTypes, FlowTypes, Awaits, At,
         BoundTypes, tabVars, boundVars
<1>3. CASE LateRead(x)
  <2>1. stored \in Workbooks /\ Merged(stored) \in Workbooks /\ AddedTo \in SUBSET Sections
    BY MergedTypes, AddedToTypes DEF StoreTypes
  <2>2. /\ [x EXCEPT !.todo = "project", !.copy = stored] \in LateWork
        /\ [x EXCEPT !.todo = "write", !.keys = AddedTo, !.copy = Merged(stored)] \in LateWork
    BY <1>1, <2>1 DEF LateWork
  <2>3. late' \subseteq LateWork
    BY <1>3, <2>2 DEF LateRead, Replace, StoreTypes
  <2> QED
    BY <1>2, <1>3, <2>3 DEF LateRead, StoreTypes, FlagTypes, tabVars, histVars
<1>4. CASE LateProject(x)
  <2>1. scored' \in Workbooks /\ behind' \in BOOLEAN /\ late' \subseteq LateWork
    BY <1>1, <1>4 DEF LateProject, LateWork, StoreTypes, FlagTypes
  <2> QED
    BY <1>2, <1>4, <2>1 DEF LateProject, StoreTypes, FlagTypes, tabVars
<1>5. CASE LateWrite(x)
  <2>1. PICK s \in x.keys :
          /\ Replace(x, [x EXCEPT !.keys = x.keys \ {s}])
          /\ stored' = [stored EXCEPT ![s] = x.copy[s]]
          /\ behind' = (behind \/ x.copy[s] # stored[s])
          /\ MayMiss(s, stored[s])
    BY <1>5 DEF LateWrite
  <2>2. s \in Sections /\ x.copy[s] \in SUBSET Rows /\ stored[s] \in SUBSET Rows
    BY <1>1, <2>1 DEF LateWork, Workbooks, StoreTypes
  <2>3. [x EXCEPT !.keys = x.keys \ {s}] \in LateWork
    BY <1>1 DEF LateWork
  <2>4. late' \subseteq LateWork
    BY <2>1, <2>3 DEF Replace, StoreTypes
  <2>5. stored' \in Workbooks
    BY <2>1, <2>2 DEF StoreTypes, Workbooks
  <2>6. missed' \in Workbooks
    BY <2>1, <2>2, MissTypes
  <2>7. behind' \in BOOLEAN
    BY <2>1 DEF FlagTypes
  <2> QED
    BY <1>2, <1>5, <2>4, <2>5, <2>6, <2>7 DEF LateWrite, StoreTypes, FlagTypes, tabVars
<1>6. CASE LateEnds(x)
  BY <1>2, <1>6 DEF LateEnds, StoreTypes, FlagTypes, tabVars, histVars
<1> QED
  BY <1>3, <1>4, <1>5, <1>6

\* Nothing changes.
LEMMA StutterKeepsTypes ==
  ASSUME TypeInv, UNCHANGED autosaveVars
  PROVE  TypeInv'
BY DEF TypeInv, Typing, TabTypes, StoreTypes, FlowTypes, FlagTypes, BoundTypes, Awaits, At,
       autosaveVars, tabVars, histVars, boundVars

\* What the server, the timers and the handlers do, one step at a time.
LEMMA StepKeepsTypes ==
  ASSUME TypeInv, [AutosaveNext]_autosaveVars
  PROVE  TypeInv'
BY SavingKeepsTypes, StartsKeepTypes, WaitingKeepsTypes, SyncingKeepsTypes,
   MergingKeepsTypes, LateKeepsTypes, StutterKeepsTypes
DEF AutosaveNext, Machinery

\* The state of the tab and of the store keeps its types: handlers follow their
\* scripts to the end, and a save that fails finds the handler that awaits it.
THEOREM AutosaveTyped == AutosaveSpec => [](AutosaveTypeOK /\ Awaits)
<1>1. AutosaveInit => TypeInv
  BY TypeInvInit
<1>2. TypeInv /\ [AutosaveNext]_autosaveVars => TypeInv'
  BY StepKeepsTypes
<1>3. TypeInv => AutosaveTypeOK /\ Awaits
  BY TypeParts DEF TypeInv, Typing
<1> QED
  BY <1>1, <1>2, <1>3, PTL DEF AutosaveSpec
-------------------------------------------------------------------------------
(***************************************************************************)
(* No row is forgotten.  A row that was stored once is stored or missed   *)
(* from then on (Known).  The rows typed are in the tab unless they are    *)
(* known, what is in the tab waits, is sent or is known, and what a        *)
(* handler read of the store, a merge's reload among it, is known, and     *)
(* stays known when the server carries out a request given up.             *)
(***************************************************************************)
Known(s) == stored[s] \cup missed[s]

Kept(s) == Waiting(s) \cup Sent(s) \cup Known(s)

TypedShown == \A s \in Sections : made[s] \subseteq tab[s] \cup Known(s)

ShownKept == \A s \in Sections : tab[s] \subseteq Kept(s)

ReadKnown ==
  \A f \in Flows : flow[f] # NoFlow => \A s \in Sections : flow[f].copy[s] \subseteq Known(s)

Remembers == TypedShown /\ ShownKept /\ ReadKnown

LEMMA RememberedIsNotForgotten ==
  ASSUME Remembers
  PROVE  NoRowForgotten
BY DEF Remembers, TypedShown, ShownKept, NoRowForgotten, Kept, Known

\* What is missed of a section covers what it loses, so nothing known is lost.
LEMMA MissKeepsKnown ==
  ASSUME StoreTypes, NEW s \in Sections, NEW L \in SUBSET Rows, MayMiss(s, L),
         \A x \in Sections : x # s => stored'[x] = stored[x],
         stored[s] \subseteq stored'[s] \cup L
  PROVE  /\ \A x \in Sections : Known(x) \subseteq Known(x)'
         /\ L \subseteq Known(s)'
<1>1. \A x \in Sections :
        missed'[x] = (missed[x] \cup (IF x = s THEN L ELSE {})) \ stored'[x]
  BY DEF MayMiss
<1>2. ASSUME NEW x \in Sections
      PROVE  Known(x) \subseteq Known(x)'
  BY <1>1 DEF Known
<1>3. L \subseteq Known(s)'
  BY <1>1 DEF Known
<1> QED
  BY <1>2, <1>3

\* A save that is stored.
LEMMA StorePutKeepsKnown ==
  ASSUME TypeInv, NEW p \in puts, StorePut(p)
  PROVE  /\ p.sec \in Sections
         /\ \A x \in Sections : Known(x) \subseteq Known(x)'
         /\ p.rows \subseteq Known(p.sec)'
<1>1. StoreTypes /\ p.sec \in Sections
  BY DEF TypeInv, Typing, StoreTypes, Saves
<1>2. /\ stored[p.sec] \in SUBSET Rows
      /\ stored'[p.sec] = p.rows
      /\ \A x \in Sections : x # p.sec => stored'[x] = stored[x]
  BY <1>1 DEF StorePut, StoreTypes, Workbooks
<1>3. \A x \in Sections : Known(x) \subseteq Known(x)'
  BY <1>1, <1>2, MissKeepsKnown DEF StorePut
<1> QED
  BY <1>1, <1>2, <1>3 DEF Known

\* A save that is refused, or that the tab gives up.
LEMMA RefusePutKeepsKnown ==
  ASSUME TypeInv, NEW p \in puts, RefusePut(p) \/ GiveUpPut(p)
  PROVE  /\ p.sec \in Sections
         /\ \A x \in Sections : Known(x) \subseteq Known(x)'
         /\ p.rows \subseteq Known(p.sec)'
<1>1. StoreTypes /\ p.sec \in Sections /\ p.rows \in SUBSET Rows
  BY DEF TypeInv, Typing, StoreTypes, Saves
<1>2. stored' = stored /\ MayMiss(p.sec, p.rows)
  BY DEF RefusePut, GiveUpPut
<1> QED
  BY <1>1, <1>2, MissKeepsKnown

\* A merge that writes a section.
LEMMA MergeWriteKeepsKnown ==
  ASSUME TypeInv, NEW f \in Flows, MergeWrite(f)
  PROVE  \A x \in Sections : Known(x) \subseteq Known(x)'
<1>1. StoreTypes /\ flow[f] \in Handlers
  BY AtTypes DEF TypeInv, Typing, MergeWrite
<1>2. PICK s \in flow[f].keys :
        /\ stored' = [stored EXCEPT ![s] = Merged(flow[f].copy)[s]]
        /\ MayMiss(s, stored[s])
  BY DEF MergeWrite
<1>3. s \in Sections
  BY <1>1 DEF Handlers
<1>4. stored[s] \in SUBSET Rows /\ \A x \in Sections : x # s => stored'[x] = stored[x]
  BY <1>1, <1>2, <1>3 DEF StoreTypes, Workbooks
<1> QED
  BY <1>1, <1>2, <1>3, <1>4, MissKeepsKnown

\* A request given up that writes a section.
LEMMA LateWriteKeepsKnown ==
  ASSUME TypeInv, NEW x \in late, LateWrite(x)
  PROVE  \A y \in Sections : Known(y) \subseteq Known(y)'
<1>1. StoreTypes /\ x \in LateWork
  BY DEF TypeInv, Typing, StoreTypes
<1>2. PICK s \in x.keys :
        /\ stored' = [stored EXCEPT ![s] = x.copy[s]]
        /\ MayMiss(s, stored[s])
  BY DEF LateWrite
<1>3. s \in Sections
  BY <1>1 DEF LateWork
<1>4. stored[s] \in SUBSET Rows /\ \A y \in Sections : y # s => stored'[y] = stored[y]
  BY <1>1, <1>2, <1>3 DEF StoreTypes, Workbooks
<1> QED
  BY <1>1, <1>2, <1>3, <1>4, MissKeepsKnown

\* A merge that shows what it read again.
LEMMA ShowKeepsKnown ==
  ASSUME TypeInv, NEW f \in Flows, Show(f)
  PROVE  \A s \in Sections :
           /\ Known(s) \subseteq Known(s)'
           /\ tab[s] \subseteq tab'[s] \cup Known(s)'
<1>1. /\ stored' = stored /\ tab' = flow[f].copy
      /\ \A s \in Sections :
           missed'[s] = (missed[s] \cup (tab[s] \ flow[f].copy[s])) \ stored[s]
  BY DEF Show
<1> QED
  BY <1>1 DEF Known

-------------------------------------------------------------------------------
\* A handler has read nothing new, or it starts, or it has read the store.
CopyStep(g) ==
  flow'[g] # NoFlow =>
    \/ flow[g] # NoFlow /\ flow'[g].copy = flow[g].copy
    \/ flow'[g].copy = Empty
    \/ flow'[g].copy = stored

LEMMA StepCopies ==
  ASSUME TypeInv, NEW f \in Flows, flow[f] # NoFlow, NEW x \in Handlers,
         x.copy \in {flow[f].copy, stored}, Step(f, x)
  PROVE  \A g \in Flows : CopyStep(g)
<1>1. flow' = [flow EXCEPT ![f] = GoOn(x)]
  BY DEF Step
<1>2. GoOn(x) # NoFlow => GoOn(x).copy = x.copy
  BY DEF GoOn, Handlers
<1> QED
  BY <1>1, <1>2 DEF CopyStep, TypeInv, Typing, FlowTypes

LEMMA StopCopies ==
  ASSUME TypeInv, NEW f \in Flows, Stop(f)
  PROVE  \A g \in Flows : CopyStep(g)
BY DEF Stop, CopyStep, TypeInv, Typing, FlowTypes

LEMMA ThenSyncCopies ==
  ASSUME TypeInv, NEW f \in Flows, ThenSync(f)
  PROVE  \A g \in Flows : CopyStep(g)
BY DEF ThenSync, Starting, CopyStep, TypeInv, Typing, FlowTypes

LEMMA KeysCopies ==
  ASSUME TypeInv, NEW f \in Flows, flow[f] \in Handlers, flow[f] # NoFlow, NEW K,
         flow' = [flow EXCEPT ![f].keys = K]
  PROVE  \A g \in Flows : CopyStep(g)
BY DEF CopyStep, TypeInv, Typing, FlowTypes, Handlers

LEMMA SameCopies ==
  ASSUME flow' = flow
  PROVE  \A g \in Flows : CopyStep(g)
BY DEF CopyStep

LEMMA ToldCopies ==
  ASSUME TypeInv, NEW p \in puts, NEW ok \in BOOLEAN, Told(p, ok)
  PROVE  \A g \in Flows : CopyStep(g)
<1>1. CASE p.by = Timer \/ ok
  BY <1>1, SameCopies DEF Told
<1>2. CASE ~(p.by = Timer \/ ok)
  <2>1. p.by \in Flows /\ flow[p.by] # NoFlow
    BY <1>2 DEF TypeInv, Typing, StoreTypes, Saves, Awaits, At
  <2>2. flow[p.by] \in Handlers
    BY <2>1 DEF TypeInv, Typing, FlowTypes
  <2>3. flow' = [flow EXCEPT ![p.by].ok = FALSE]
    BY <1>2 DEF Told
  <2> QED
    BY <2>1, <2>2, <2>3 DEF CopyStep, TypeInv, Typing, FlowTypes, Handlers
<1> QED
  BY <1>1, <1>2
\* Every step of the tab, its handlers and the server.
LEMMA EveryCopyStep ==
  ASSUME TypeInv, AutosaveNext
  PROVE  \A g \in Flows : CopyStep(g)
<1> USE DEF tabVars, histVars, boundVars
<1>1. ASSUME NEW s \in Sections, NEW r \in Typed, Edit(s, r)
      PROVE  \A g \in Flows : CopyStep(g)
  BY <1>1, SameCopies DEF Edit
<1>2. ASSUME NEW f \in Flows, NEW kind \in {"save", "continue", "merge"}, Click(f, kind)
      PROVE  \A g \in Flows : CopyStep(g)
  BY <1>2 DEF Click, Starting, CopyStep, TypeInv, Typing, FlowTypes
<1>3. ASSUME NEW s \in Sections, TimerFires(s)
      PROVE  \A g \in Flows : CopyStep(g)
  BY <1>3, SameCopies DEF TimerFires
<1>4. ASSUME NEW p \in puts, StorePut(p) \/ RefusePut(p) \/ AnswerPut(p)
      PROVE  \A g \in Flows : CopyStep(g)
  BY <1>4, SameCopies DEF StorePut, RefusePut, AnswerPut
<1>5. ASSUME NEW p \in puts, FailPut(p) \/ LoseAnswer(p) \/ GiveUpPut(p)
      PROVE  \A g \in Flows : CopyStep(g)
  BY <1>5, ToldCopies DEF FailPut, LoseAnswer, GiveUpPut
<1>6. ASSUME NEW f \in Flows, SyncTimerFires(f)
      PROVE  \A g \in Flows : CopyStep(g)
  BY <1>6 DEF SyncTimerFires, Starting, CopyStep, TypeInv, Typing, FlowTypes
<1>7. ASSUME NEW f \in Flows, NEW step, At(f, step)
      PROVE  /\ flow[f] # NoFlow /\ flow[f] \in Handlers
             /\ \A x \in Handlers : x.copy \in {flow[f].copy, stored} /\ Step(f, x) =>
                  \A g \in Flows : CopyStep(g)
             /\ Stop(f) \/ ThenSync(f) => \A g \in Flows : CopyStep(g)
  <2>1. flow[f] # NoFlow /\ flow[f] \in Handlers
    BY <1>7, AtTypes DEF At, TypeInv, Typing
  <2> QED
    BY <2>1, StepCopies, StopCopies, ThenSyncCopies
<1>8. ASSUME NEW f \in Flows,
             \/ WaitEnds(f) \/ WaitGivesUp(f) \/ SyncProject(f) \/ SyncEnds(f)
             \/ MergeAnswered(f)
      PROVE  \A g \in Flows : CopyStep(g)
  BY <1>7, <1>8 DEF WaitEnds, WaitGivesUp, SyncProject, SyncEnds, MergeAnswered
<1>9. ASSUME NEW f \in Flows, FlushKeys(f)
      PROVE  \A g \in Flows : CopyStep(g)
  <2> DEFINE x == [flow[f] EXCEPT !.keys = {s \in Sections : unsent[s] # NoPayload}]
  <2>1. x \in Handlers /\ x.copy = flow[f].copy
    BY <1>7, <1>9 DEF FlushKeys, Handlers
  <2> QED
    BY <1>7, <1>9, <2>1 DEF FlushKeys
<1>10. ASSUME NEW f \in Flows, FlushNext(f)
       PROVE  \A g \in Flows : CopyStep(g)
  <2>1. CASE flow[f].keys = {}
    BY <1>7, <1>10, <2>1 DEF FlushNext
  <2>2. CASE flow[f].keys # {}
    BY <1>7, <1>10, <2>2, KeysCopies DEF FlushNext
  <2> QED
    BY <2>1, <2>2
<1>11. ASSUME NEW f \in Flows,
              Leave(f) \/ CheckSaved(f) \/ SyncFails(f) \/ MergeFails(f) \/ Show(f) \/ ReloadFails(f)
       PROVE  \A g \in Flows : CopyStep(g)
  BY <1>7, <1>11 DEF Leave, CheckSaved, SyncFails, MergeFails, Show, ReloadFails
<1>12. ASSUME NEW f \in Flows, SyncRead(f) \/ Reload(f)
       PROVE  \A g \in Flows : CopyStep(g)
  <2> DEFINE x == [flow[f] EXCEPT !.copy = stored]
  <2>1. x \in Handlers /\ x.copy = stored
    BY <1>7, <1>12 DEF SyncRead, Reload, Handlers, TypeInv, Typing, StoreTypes
  <2> QED
    BY <1>7, <1>12, <2>1 DEF SyncRead, Reload
<1>13. ASSUME NEW f \in Flows, MergeCompare(f)
       PROVE  \A g \in Flows : CopyStep(g)
  <2> DEFINE x == [flow[f] EXCEPT !.copy = stored,
                                  !.keys = AddedTo]
  <2>1. x \in Handlers /\ x.copy = stored
    BY <1>7, <1>13, AddedToTypes DEF MergeCompare, Handlers, TypeInv, Typing, StoreTypes
  <2> QED
    BY <1>7, <1>13, <2>1 DEF MergeCompare
<1>14. ASSUME NEW f \in Flows, MergeWrite(f)
       PROVE  \A g \in Flows : CopyStep(g)
  BY <1>7, <1>14, KeysCopies DEF MergeWrite
<1>15. ASSUME NEW x \in late, LateRead(x) \/ LateProject(x) \/ LateWrite(x) \/ LateEnds(x)
       PROVE  \A g \in Flows : CopyStep(g)
  BY <1>15, SameCopies DEF LateRead, LateProject, LateWrite, LateEnds
<1> QED
  BY <1>1, <1>2, <1>3, <1>4, <1>5, <1>6, <1>8, <1>9, <1>10, <1>11, <1>12, <1>13, <1>14, <1>15
  DEF AutosaveNext, Machinery

\* The steps that leave the rows where they are.
RowsStay == UNCHANGED <<tab, made, unsent, puts, stored, missed>>

LEMMA RowsStayOrMove ==
  ASSUME AutosaveNext
  PROVE  \/ RowsStay
         \/ \E s \in Sections, r \in Typed : Edit(s, r)
         \/ \E s \in Sections : TimerFires(s)
         \/ \E p \in puts :
              \/ StorePut(p) \/ RefusePut(p) \/ AnswerPut(p) \/ FailPut(p) \/ LoseAnswer(p)
              \/ GiveUpPut(p)
         \/ \E f \in Flows : FlushNext(f) \/ MergeWrite(f) \/ Show(f)
         \/ \E x \in late : LateWrite(x)
BY DEF AutosaveNext, Machinery, RowsStay, LateRead, LateProject, LateEnds, Click, SyncTimerFires, WaitEnds, WaitGivesUp,
       FlushKeys, Leave, CheckSaved, SyncRead, SyncProject, SyncFails, SyncEnds, MergeCompare,
       MergeAnswered, MergeFails, Reload, ReloadFails, tabVars, histVars

\* Sending a section moves what waits on its way.
LEMMA SendKeeps ==
  ASSUME TypeInv, NEW s \in Sections, NEW by, Send(s, by), stored' = stored, missed' = missed
  PROVE  \A x \in Sections : Kept(x) \subseteq Kept(x)'
<1>1. ASSUME NEW x \in Sections
      PROVE  Sent(x) \subseteq Sent(x)'
  BY DEF Send, Sent
<1>2. ASSUME NEW x \in Sections
      PROVE  Waiting(x) \subseteq Waiting(x)' \cup Sent(x)'
  <2>1. CASE x # s
    BY <2>1 DEF Send, Waiting, TypeInv, Typing, TabTypes
  <2>2. CASE x = s /\ unsent[s] = NoPayload
    BY <2>2 DEF Waiting
  <2>3. CASE x = s /\ unsent[s] # NoPayload
    <3> DEFINE q == [sec |-> s, rows |-> unsent[s], by |-> by, state |-> "sent"]
    <3>1. q \in puts' /\ q.sec = s /\ q.state = "sent" /\ q.rows = unsent[s]
      BY <2>3 DEF Send
    <3> QED
      BY <2>3, <3>1 DEF Waiting, Sent
  <2> QED
    BY <2>1, <2>2, <2>3
<1>3. \A x \in Sections : Known(x) \subseteq Known(x)'
  BY DEF Known
<1> QED
  BY <1>1, <1>2, <1>3 DEF Kept
\* The answer of a save, whatever it is: the save was no longer on its way.
LEMMA AnswerKeeps ==
  ASSUME TypeInv, NEW p \in puts, p.state # "sent", puts' = puts \ {p},
         UNCHANGED <<unsent, stored, missed>>
  PROVE  \A x \in Sections : Kept(x) \subseteq Kept(x)'
<1>1. ASSUME NEW x \in Sections
      PROVE  Sent(x) \subseteq Sent(x)'
  BY DEF Sent
<1>2. \A x \in Sections : Waiting(x) \subseteq Waiting(x)' /\ Known(x) \subseteq Known(x)'
  BY DEF Waiting, Known
<1> QED
  BY <1>1, <1>2 DEF Kept

\* A save that reaches the server, or does not, leaves the way for what is known.
LEMMA SettlingKeeps ==
  ASSUME TypeInv, NEW p \in puts, puts \ {p} \subseteq puts', unsent' = unsent, p.sec \in Sections, p.rows \subseteq Known(p.sec)',
         \A x \in Sections : Known(x) \subseteq Known(x)'
  PROVE  \A x \in Sections : Kept(x) \subseteq Kept(x)'
<1>1. ASSUME NEW x \in Sections
      PROVE  Sent(x) \subseteq Sent(x)' \cup Known(x)'
  <2>1. ASSUME NEW u \in puts, u.sec = x, u.state = "sent"
        PROVE  u.rows \subseteq Sent(x)' \cup Known(x)'
    <3>1. CASE u = p
      BY <2>1, <3>1
    <3>2. CASE u # p
      BY <2>1, <3>2 DEF Sent
    <3> QED
      BY <3>1, <3>2
  <2> QED
    BY <2>1 DEF Sent
<1>2. \A x \in Sections : Waiting(x) \subseteq Waiting(x)'
  BY DEF Waiting
<1> QED
  BY <1>1, <1>2 DEF Kept

\* What is in the tab is kept, once what was kept is and the tab is as it was.
LEMMA SameTab ==
  ASSUME Remembers, UNCHANGED <<tab, made>>,
         \A x \in Sections : Known(x) \subseteq Known(x)' /\ Kept(x) \subseteq Kept(x)'
  PROVE  TypedShown' /\ ShownKept'
BY DEF Remembers, TypedShown, ShownKept

LEMMA StepRemembers ==
  ASSUME TypeInv, Remembers, AutosaveNext
  PROVE  Remembers'
<1> USE DEF tabVars, histVars, boundVars
<1> DEFINE Grows == \A x \in Sections : Known(x) \subseteq Known(x)'
<1>1. Grows => ReadKnown'
  <2> SUFFICES ASSUME Grows, NEW f \in Flows, flow'[f] # NoFlow, NEW s \in Sections
               PROVE  flow'[f].copy[s] \subseteq Known(s)'
    BY DEF ReadKnown
  <2>1. CASE flow[f] # NoFlow /\ flow'[f].copy = flow[f].copy
    BY <2>1 DEF Remembers, ReadKnown
  <2>2. CASE flow'[f].copy = Empty
    BY <2>2 DEF Empty
  <2>3. CASE flow'[f].copy = stored
    BY <2>3 DEF Known
  <2> QED
    BY <2>1, <2>2, <2>3, EveryCopyStep DEF CopyStep
<1>2. CASE RowsStay
  <2>1. \A x \in Sections : Known(x)' = Known(x) /\ Kept(x)' = Kept(x)
    BY <1>2 DEF RowsStay, Known, Kept, Waiting, Sent
  <2> QED
    BY <1>1, <1>2, <2>1, SameTab DEF Remembers, RowsStay
<1>3. ASSUME NEW s \in Sections, NEW r \in Typed, Edit(s, r)
      PROVE  Remembers'
  <2>1. \A x \in Sections : Known(x)' = Known(x) /\ Sent(x)' = Sent(x)
    BY <1>3 DEF Edit, Known, Sent
  <2>2. ASSUME NEW x \in Sections
        PROVE  made'[x] \subseteq tab'[x] \cup Known(x)' /\ tab'[x] \subseteq Kept(x)'
    <3>1. CASE x = s
      <4>1. made'[s] = made[s] \cup {r} /\ tab'[s] = tab[s] \cup {r}
        BY <1>3 DEF Edit, TypeInv, Typing, TabTypes, Workbooks
      <4>2. unsent'[s] = tab[s] \cup {r}
        BY <1>3 DEF Edit, TypeInv, Typing, TabTypes
      <4>3. Waiting(s)' = tab[s] \cup {r}
        BY <4>1, <4>2, NoPayloadIsNoRows DEF Waiting, TypeInv, Typing, TabTypes, Workbooks, Rows
      <4> QED
        BY <2>1, <3>1, <4>1, <4>3 DEF Remembers, TypedShown, Kept
    <3>2. CASE x # s
      <4>1. made'[x] = made[x] /\ tab'[x] = tab[x] /\ unsent'[x] = unsent[x]
        BY <1>3, <3>2 DEF Edit, TypeInv, Typing, TabTypes, Workbooks
      <4> QED
        BY <2>1, <4>1 DEF Remembers, TypedShown, ShownKept, Kept, Waiting
    <3> QED
      BY <3>1, <3>2
  <2> QED
    BY <1>1, <2>1, <2>2 DEF Remembers, TypedShown, ShownKept
<1>4. ASSUME NEW s \in Sections, TimerFires(s)
      PROVE  Remembers'
  <2>1. \A x \in Sections : Kept(x) \subseteq Kept(x)' /\ Known(x) \subseteq Known(x)'
    BY <1>4, SendKeeps DEF TimerFires, Known
  <2> QED
    BY <1>1, <1>4, <2>1, SameTab DEF TimerFires, Remembers
<1>5. ASSUME NEW p \in puts, StorePut(p)
      PROVE  Remembers'
  <2>1. Grows /\ \A x \in Sections : Kept(x) \subseteq Kept(x)'
    BY <1>5, StorePutKeepsKnown, SettlingKeeps DEF StorePut
  <2> QED
    BY <1>1, <1>5, <2>1, SameTab DEF StorePut, Remembers
<1>6. ASSUME NEW p \in puts, RefusePut(p) \/ GiveUpPut(p)
      PROVE  Remembers'
  <2>1. puts \ {p} \subseteq puts' /\ UNCHANGED <<tab, made, unsent>>
    BY <1>6 DEF RefusePut, GiveUpPut
  <2>2. Grows /\ \A x \in Sections : Kept(x) \subseteq Kept(x)'
    BY <1>6, <2>1, RefusePutKeepsKnown, SettlingKeeps
  <2> QED
    BY <1>1, <2>1, <2>2, SameTab DEF Remembers
<1>7. ASSUME NEW p \in puts, AnswerPut(p) \/ FailPut(p) \/ LoseAnswer(p)
      PROVE  Remembers'
  <2>1. p.state # "sent" /\ puts' = puts \ {p} /\ UNCHANGED <<tab, made, unsent, stored, missed>>
    BY <1>7 DEF AnswerPut, FailPut, LoseAnswer
  <2>2. \A x \in Sections : Kept(x) \subseteq Kept(x)' /\ Known(x) \subseteq Known(x)'
    BY <2>1, AnswerKeeps DEF Known
  <2> QED
    BY <1>1, <2>1, <2>2, SameTab DEF Remembers
<1>8. ASSUME NEW f \in Flows, FlushNext(f)
      PROVE  Remembers'
  <2>1. CASE flow[f].keys = {}
    <3>1. RowsStay
      BY <1>8, <2>1 DEF FlushNext, RowsStay
    <3> QED
      BY <1>2, <3>1
  <2>2. CASE flow[f].keys # {}
    <3>1. PICK s \in flow[f].keys : Send(s, f)
      BY <1>8, <2>2 DEF FlushNext
    <3>2. s \in Sections
      <4>1. FlowTypes /\ At(f, "flush")
        BY <1>8 DEF FlushNext, TypeInv, Typing
      <4>2. flow[f] \in Handlers
        BY <4>1, AtTypes
      <4> QED
        BY <3>1, <4>2 DEF Handlers
    <3>3. \A x \in Sections : Kept(x) \subseteq Kept(x)' /\ Known(x) \subseteq Known(x)'
      BY <1>8, <3>1, <3>2, SendKeeps DEF FlushNext, Known
    <3> QED
      BY <1>1, <1>8, <3>3, SameTab DEF FlushNext, Remembers
  <2> QED
    BY <2>1, <2>2
<1>9. ASSUME NEW f \in Flows, MergeWrite(f)
      PROVE  Remembers'
  <2>1. Grows
    BY <1>9, MergeWriteKeepsKnown
  <2>2. \A x \in Sections : Kept(x) \subseteq Kept(x)'
    <3>1. \A x \in Sections : Waiting(x)' = Waiting(x) /\ Sent(x)' = Sent(x)
      BY <1>9 DEF MergeWrite, Waiting, Sent
    <3> QED
      BY <2>1, <3>1 DEF Kept
  <2> QED
    BY <1>1, <1>9, <2>1, <2>2, SameTab DEF MergeWrite, Remembers
<1>10. ASSUME NEW f \in Flows, Show(f)
       PROVE  Remembers'
  <2>1. \A s \in Sections : Known(s) \subseteq Known(s)' /\ tab[s] \subseteq tab'[s] \cup Known(s)'
    BY <1>10, ShowKeepsKnown
  <2>2. TypedShown'
    BY <1>10, <2>1 DEF Show, Remembers, TypedShown
  <2>3. tab' = flow[f].copy /\ flow[f] # NoFlow
    BY <1>10 DEF Show, At
  <2>4. ShownKept'
    BY <2>1, <2>3 DEF Remembers, ReadKnown, ShownKept, Kept
  <2> QED
    BY <1>1, <2>1, <2>2, <2>4 DEF Remembers
<1>11. ASSUME NEW y \in late, LateWrite(y)
       PROVE  Remembers'
  <2>1. Grows
    BY <1>11, LateWriteKeepsKnown
  <2>2. \A x \in Sections : Kept(x) \subseteq Kept(x)'
    <3>1. \A x \in Sections : Waiting(x)' = Waiting(x) /\ Sent(x)' = Sent(x)
      BY <1>11 DEF LateWrite, Waiting, Sent
    <3> QED
      BY <2>1, <3>1 DEF Kept
  <2> QED
    BY <1>1, <1>11, <2>1, <2>2, SameTab DEF LateWrite, Remembers
<1> QED
  BY <1>2, <1>3, <1>4, <1>5, <1>6, <1>7, <1>8, <1>9, <1>10, <1>11, RowsStayOrMove

LEMMA RemembersInit ==
  ASSUME AutosaveInit
  PROVE  Remembers
BY DEF AutosaveInit, Remembers, TypedShown, ShownKept, ReadKnown, Empty

LEMMA StutterRemembers ==
  ASSUME Remembers, UNCHANGED autosaveVars
  PROVE  Remembers'
BY DEF Remembers, TypedShown, ShownKept, ReadKnown, Kept, Known, Waiting, Sent,
       autosaveVars, tabVars, histVars, boundVars

\* Edits, debounced and flushed saves that overtake one another, failures and merges:
\* a row typed waits, is on its way or is stored, unless it is one of those that a
\* failed save, an older one or a merge lost.
THEOREM NoRowIsForgotten == AutosaveSpec => []NoRowForgotten
<1>1. AutosaveInit => TypeInv /\ Remembers
  BY TypeInvInit, RemembersInit
<1>2. TypeInv /\ Remembers /\ [AutosaveNext]_autosaveVars => (TypeInv /\ Remembers)'
  BY StepKeepsTypes, StepRemembers, StutterRemembers
<1>3. TypeInv /\ Remembers => NoRowForgotten
  BY RememberedIsNotForgotten
<1> QED
  BY <1>1, <1>2, <1>3, PTL DEF AutosaveSpec
-------------------------------------------------------------------------------
(***************************************************************************)
(* At rest the scorecard is of the stored workbook.  Whatever changes the  *)
(* store leaves a sync to come (SyncToCome): the save waits for its        *)
(* answer, whose timer asks for one, a merge hands over to one, one that   *)
(* has yet to read is under way, or the history says that one came to      *)
(* nothing or that a request given up took effect.  Only one sync of the   *)
(* tab runs at a time (OneSync), and what it has read is what is stored    *)
(* unless another is to come (CopyIsNew).                                  *)
(***************************************************************************)
\* Every handler under way has the end of its script to do.
Follows(x) ==
  LET script == Script[x.kind] IN
  /\ Len(x.rest) <= Len(script)
  /\ \A i \in 1..Len(x.rest) : x.rest[i] = script[Len(script) - Len(x.rest) + i]

OnScript == \A g \in Flows : flow[g] # NoFlow => Follows(flow[g])

SyncKinds == {"sync", "quick"}

\* How much of its script a handler has left.
ToDo(g) == Len(flow[g].rest)

\* A sync that has yet to read, and one that has read and not yet written.
WillRead(g) == Doing(g) \in SyncKinds /\ ToDo(g) >= 3

WillWrite(g) == Doing(g) \in SyncKinds /\ ToDo(g) = 2

\* A merge that may have written.
Merging(g) == Doing(g) = "merge" /\ ToDo(g) <= 3

\* The store will be read again, or the promise is off.
SyncToCome ==
  \/ behind \/ syncDue.due
  \/ \E p \in puts : p.state = "stored"
  \/ \E g \in Flows : WillRead(g) \/ Merging(g)

OneSync ==
  \A g, h \in Flows : Doing(g) \in SyncKinds /\ Doing(h) \in SyncKinds => g = h

CopyIsNew == \A g \in Flows : WillWrite(g) => SyncToCome \/ flow[g].copy = stored

ScoredOrScoring == SyncToCome \/ scored = stored \/ \E g \in Flows : WillWrite(g)

Scores == OneSync /\ CopyIsNew /\ ScoredOrScoring

ScriptInv == TypeInv /\ OnScript

Others(f) == \A g \in Flows : g # f => flow'[g] = flow[g]

\* Where a handler is: what it is doing, and how much of that is left.
Stage(f) == <<Doing(f), ToDo(f)>>

LEMMA AtStage ==
  ASSUME TypeInv, OnScript, NEW f \in Flows, flow[f] # NoFlow
  PROVE  /\ flow[f] \in Handlers /\ flow[f].kind \in Kinds
         /\ Doing(f) = flow[f].kind /\ ToDo(f) \in Nat /\ ToDo(f) >= 1
         /\ At(f, "wait") => Stage(f) \in {<<"save", 1>>, <<"continue", 5>>, <<"continue", 2>>,
                                           <<"sync", 8>>, <<"sync", 5>>, <<"quick", 4>>}
         /\ At(f, "keys") => Stage(f) \in {<<"save", 3>>, <<"continue", 4>>, <<"sync", 7>>, <<"merge", 6>>}
         /\ At(f, "flush") => Stage(f) \in {<<"save", 2>>, <<"continue", 3>>, <<"sync", 6>>, <<"merge", 5>>}
         /\ At(f, "leave") => Stage(f) \in {<<"continue", 1>>}
         /\ At(f, "check") => Stage(f) \in {<<"sync", 4>>}
         /\ At(f, "read") => Stage(f) \in {<<"sync", 3>>, <<"quick", 3>>}
         /\ At(f, "project") => Stage(f) \in {<<"sync", 2>>, <<"quick", 2>>}
         /\ At(f, "load") => Stage(f) \in {<<"sync", 1>>, <<"quick", 1>>}
         /\ At(f, "compare") => Stage(f) \in {<<"merge", 4>>}
         /\ At(f, "write") => Stage(f) \in {<<"merge", 3>>}
         /\ At(f, "reload") => Stage(f) \in {<<"merge", 2>>}
         /\ At(f, "show") => Stage(f) \in {<<"merge", 1>>}
<1>1. /\ flow[f] \in Handlers /\ flow[f].kind \in Kinds
      /\ flow[f].rest \in Seq(Steps) /\ flow[f].rest # <<>>
      /\ Len(Script[flow[f].kind]) \in Nat
  BY ScriptTypes DEF TypeInv, Typing, FlowTypes, Handlers
<1>2. PICK n : n = Len(flow[f].rest) /\ n \in Nat /\ n >= 1
  BY <1>1, EmptySeq
<1>n. n \in Nat /\ n >= 1
  BY <1>2
<1>3. PICK step : step = Head(flow[f].rest)
  OBVIOUS
<1>4. n <= Len(Script[flow[f].kind]) /\ step = Script[flow[f].kind][Len(Script[flow[f].kind]) - n + 1]
  <2>1. Head(flow[f].rest) = flow[f].rest[1] /\ 1 \in 1..n
    BY <1>1, <1>2
  <2>2. \A i \in 1..n : flow[f].rest[i] = Script[flow[f].kind][Len(Script[flow[f].kind]) - n + i]
    BY <1>2 DEF OnScript, Follows
  <2>3. n <= Len(Script[flow[f].kind])
    BY <1>2 DEF OnScript, Follows
  <2> QED BY <1>3, <2>1, <2>2, <2>3
<1>5. \A x : At(f, x) <=> step = x
  BY <1>3 DEF At
<1>6. CASE flow[f].kind = "save"
  <2>1. PICK script : script = <<"keys", "flush", "wait">>
    OBVIOUS
  <2>2. Len(script) = 3 /\ Script[flow[f].kind] = script
    BY <1>6, <2>1 DEF Script
  <2>3. n \in 1..3 /\ step = script[3 - n + 1]
    <3>1. Len(Script[flow[f].kind]) = 3
      BY <2>2
    <3>2. n <= 3
      BY <1>4, <3>1
    <3>3. step = Script[flow[f].kind][3 - n + 1]
      BY <1>4, <3>1
    <3>4. n \in 1..3
      BY <1>n, <3>2
    <3>5. step = script[3 - n + 1]
      BY <2>2, <3>3
    <3> QED BY <3>4, <3>5
  <2>4. /\ n = 3 => step = "keys"
        /\ n = 2 => step = "flush"
        /\ n = 1 => step = "wait"
    BY <2>1, <2>3
  <2> QED BY <1>1, <1>2, <1>5, <1>6, <2>3, <2>4 DEF Stage, ToDo, Doing
<1>7. CASE flow[f].kind = "continue"
  <2>1. PICK script : script = <<"wait", "keys", "flush", "wait", "leave">>
    OBVIOUS
  <2>2. Len(script) = 5 /\ Script[flow[f].kind] = script
    BY <1>7, <2>1 DEF Script
  <2>3. n \in 1..5 /\ step = script[5 - n + 1]
    <3>1. Len(Script[flow[f].kind]) = 5
      BY <2>2
    <3>2. n <= 5
      BY <1>4, <3>1
    <3>3. step = Script[flow[f].kind][5 - n + 1]
      BY <1>4, <3>1
    <3>4. n \in 1..5
      BY <1>n, <3>2
    <3>5. step = script[5 - n + 1]
      BY <2>2, <3>3
    <3> QED BY <3>4, <3>5
  <2>4. /\ n = 5 => step = "wait"
        /\ n = 4 => step = "keys"
        /\ n = 3 => step = "flush"
        /\ n = 2 => step = "wait"
        /\ n = 1 => step = "leave"
    BY <2>1, <2>3
  <2> QED BY <1>1, <1>2, <1>5, <1>7, <2>3, <2>4 DEF Stage, ToDo, Doing
<1>8. CASE flow[f].kind = "sync"
  <2>1. PICK script : script = <<"wait", "keys", "flush", "wait", "check", "read", "project", "load">>
    OBVIOUS
  <2>2. Len(script) = 8 /\ Script[flow[f].kind] = script
    BY <1>8, <2>1 DEF Script
  <2>3. n \in 1..8 /\ step = script[8 - n + 1]
    <3>1. Len(Script[flow[f].kind]) = 8
      BY <2>2
    <3>2. n <= 8
      BY <1>4, <3>1
    <3>3. step = Script[flow[f].kind][8 - n + 1]
      BY <1>4, <3>1
    <3>4. n \in 1..8
      BY <1>n, <3>2
    <3>5. step = script[8 - n + 1]
      BY <2>2, <3>3
    <3> QED BY <3>4, <3>5
  <2>4. /\ n = 8 => step = "wait"
        /\ n = 7 => step = "keys"
        /\ n = 6 => step = "flush"
        /\ n = 5 => step = "wait"
        /\ n = 4 => step = "check"
        /\ n = 3 => step = "read"
        /\ n = 2 => step = "project"
        /\ n = 1 => step = "load"
    BY <2>1, <2>3
  <2> QED BY <1>1, <1>2, <1>5, <1>8, <2>3, <2>4 DEF Stage, ToDo, Doing
<1>9. CASE flow[f].kind = "quick"
  <2>1. PICK script : script = <<"wait", "read", "project", "load">>
    OBVIOUS
  <2>2. Len(script) = 4 /\ Script[flow[f].kind] = script
    BY <1>9, <2>1 DEF Script
  <2>3. n \in 1..4 /\ step = script[4 - n + 1]
    <3>1. Len(Script[flow[f].kind]) = 4
      BY <2>2
    <3>2. n <= 4
      BY <1>4, <3>1
    <3>3. step = Script[flow[f].kind][4 - n + 1]
      BY <1>4, <3>1
    <3>4. n \in 1..4
      BY <1>n, <3>2
    <3>5. step = script[4 - n + 1]
      BY <2>2, <3>3
    <3> QED BY <3>4, <3>5
  <2>4. /\ n = 4 => step = "wait"
        /\ n = 3 => step = "read"
        /\ n = 2 => step = "project"
        /\ n = 1 => step = "load"
    BY <2>1, <2>3
  <2> QED BY <1>1, <1>2, <1>5, <1>9, <2>3, <2>4 DEF Stage, ToDo, Doing
<1>10. CASE flow[f].kind = "merge"
  <2>1. PICK script : script = <<"keys", "flush", "compare", "write", "reload", "show">>
    OBVIOUS
  <2>2. Len(script) = 6 /\ Script[flow[f].kind] = script
    BY <1>10, <2>1 DEF Script
  <2>3. n \in 1..6 /\ step = script[6 - n + 1]
    <3>1. Len(Script[flow[f].kind]) = 6
      BY <2>2
    <3>2. n <= 6
      BY <1>4, <3>1
    <3>3. step = Script[flow[f].kind][6 - n + 1]
      BY <1>4, <3>1
    <3>4. n \in 1..6
      BY <1>n, <3>2
    <3>5. step = script[6 - n + 1]
      BY <2>2, <3>3
    <3> QED BY <3>4, <3>5
  <2>4. /\ n = 6 => step = "keys"
        /\ n = 5 => step = "flush"
        /\ n = 4 => step = "compare"
        /\ n = 3 => step = "write"
        /\ n = 2 => step = "reload"
        /\ n = 1 => step = "show"
    BY <2>1, <2>3
  <2> QED BY <1>1, <1>2, <1>5, <1>10, <2>3, <2>4 DEF Stage, ToDo, Doing
<1> QED BY <1>1, <1>6, <1>7, <1>8, <1>9, <1>10, KindsAre

\* The turns of a handler.
LEMMA HandlerChanges ==
  ASSUME TypeInv, OnScript, OneSync, NEW f \in Flows, NEW x, flow' = [flow EXCEPT ![f] = x],
         \/ x = NoFlow
         \/ /\ x # NoFlow /\ Follows(x)
            /\ x.kind \in SyncKinds => Doing(f) \in SyncKinds \/ ~Syncing
  PROVE  flow'[f] = x /\ Others(f) /\ OnScript' /\ OneSync'
<1>1. flow'[f] = x /\ Others(f)
  BY DEF TypeInv, Typing, FlowTypes, Others
<1>2. OnScript'
  <2>1. ASSUME NEW g \in Flows, flow'[g] # NoFlow PROVE Follows(flow'[g])
    <3>1. CASE g = f
      BY <1>1, <2>1, <3>1
    <3>2. CASE g # f
      BY <1>1, <2>1, <3>2 DEF OnScript, Others
    <3> QED BY <3>1, <3>2
  <2> QED BY <2>1 DEF OnScript, Follows
<1>3. \A g \in Flows : g # f => Doing(g)' = Doing(g)
  BY <1>1 DEF Others, Doing
<1>4. Doing(f)' \in SyncKinds => Doing(f) \in SyncKinds \/ ~Syncing
  <2>1. CASE x = NoFlow
    BY <1>1, <2>1 DEF Doing, SyncKinds
  <2>2. CASE x # NoFlow
    BY <1>1, <2>2 DEF Doing
  <2> QED BY <2>1, <2>2
<1>5. ~Syncing => \A g \in Flows : Doing(g) \notin SyncKinds
  BY DEF Syncing, SyncKinds
<1>6. OneSync'
  BY <1>3, <1>4, <1>5 DEF OneSync
<1> QED BY <1>1, <1>2, <1>6

LEMMA Stops ==
  ASSUME TypeInv, OnScript, OneSync, NEW f \in Flows, flow' = [flow EXCEPT ![f] = NoFlow]
  PROVE  flow'[f] = NoFlow /\ Others(f) /\ OnScript' /\ OneSync'
BY HandlerChanges

LEMMA Begins ==
  ASSUME TypeInv, OnScript, OneSync, NEW f \in Flows, NEW kind \in Kinds, NEW err \in BOOLEAN,
         flow' = [flow EXCEPT ![f] = Starting(kind, err)], kind \in SyncKinds => ~Syncing
  PROVE  /\ Others(f) /\ OnScript' /\ OneSync'
         /\ flow'[f] # NoFlow /\ Doing(f)' = kind
         /\ flow'[f].before = IF kind = "continue" THEN made ELSE Empty
         /\ kind \in SyncKinds => ToDo(f)' \in {4, 8}
         /\ kind = "merge" => ToDo(f)' = 6
         /\ kind = "continue" => ToDo(f)' = 5
<1>1. PICK x : x = Starting(kind, err)
  OBVIOUS
<1>2. x \in Handlers /\ x # NoFlow
  BY <1>1, StartingTypes, KindsAre, NoFlowIsNoHandler DEF TypeInv, Typing
<1>3. /\ x.kind = kind /\ x.rest = Script[kind] /\ x.before = IF kind = "continue" THEN made ELSE Empty
  BY <1>1 DEF Starting
<1>4. Len(Script[kind]) \in Nat
  BY ScriptTypes
<1>5. Follows(x)
  BY <1>3, <1>4 DEF Follows
<1>6. /\ kind \in SyncKinds => Len(Script[kind]) \in {4, 8}
      /\ kind = "merge" => Len(Script[kind]) = 6
      /\ kind = "continue" => Len(Script[kind]) = 5
  BY DEF Script, SyncKinds
<1>7. flow'[f] = x /\ Others(f) /\ OnScript' /\ OneSync'
  BY <1>1, <1>2, <1>3, <1>5, HandlerChanges
<1> QED BY <1>2, <1>3, <1>6, <1>7 DEF Doing, ToDo

LEMMA Stays ==
  ASSUME TypeInv, OnScript, OneSync, NEW f \in Flows, flow[f] # NoFlow, NEW x \in Handlers,
         x.kind = flow[f].kind, x.rest = flow[f].rest, flow' = [flow EXCEPT ![f] = x]
  PROVE  flow'[f] = x /\ x # NoFlow /\ Doing(f)' = Doing(f) /\ ToDo(f)' = ToDo(f)
         /\ Others(f) /\ OnScript' /\ OneSync'
<1>1. x # NoFlow /\ Follows(x)
  BY NoFlowIsNoHandler DEF OnScript, Follows
<1>2. flow'[f] = x /\ Others(f) /\ OnScript' /\ OneSync'
  BY <1>1, HandlerChanges DEF Doing
<1> QED BY <1>1, <1>2 DEF Doing, ToDo

LEMMA GoesOn ==
  ASSUME TypeInv, OnScript, OneSync, NEW f \in Flows, flow[f] # NoFlow, NEW x \in Handlers,
         x.kind = flow[f].kind, x.rest = flow[f].rest, Step(f, x)
  PROVE  /\ Others(f) /\ OnScript' /\ OneSync'
         /\ ToDo(f) = 1 => flow'[f] = NoFlow
         /\ ToDo(f) # 1 =>
              /\ flow'[f] # NoFlow /\ Doing(f)' = Doing(f) /\ ToDo(f)' = ToDo(f) - 1
              /\ flow'[f].copy = x.copy /\ flow'[f].keys = x.keys /\ flow'[f].before = x.before
<1>1. flow' = [flow EXCEPT ![f] = GoOn(x)]
  BY DEF Step
<1>2. CASE Len(x.rest) = 1
  BY <1>1, <1>2, Stops DEF GoOn, ToDo
<1>3. CASE Len(x.rest) # 1
  <2>1. PICK y : y = [x EXCEPT !.rest = Tail(x.rest)]
    OBVIOUS
  <2>2. x.rest \in Seq(Steps) /\ x.rest # <<>>
    BY DEF Handlers
  <2>3. Tail(x.rest) \in Seq(Steps) \ {<<>>}
    BY <1>3, <2>2, TailKept
  <2>4. /\ y \in Handlers /\ y.kind = x.kind /\ y.rest = Tail(x.rest)
        /\ y.copy = x.copy /\ y.keys = x.keys /\ y.before = x.before
    BY <2>1, <2>3 DEF Handlers
  <2>5. y # NoFlow
    BY <2>4, NoFlowIsNoHandler
  <2>6. PICK n : n = Len(x.rest)
    OBVIOUS
  <2>7. n \in Nat /\ n > 1
    <3>1. Len(x.rest) \in Nat /\ Len(x.rest) # 0
      BY <2>2, EmptySeq
    <3>2. n \in Nat /\ n # 0
      BY <2>6, <3>1
    <3>3. n # 1
      BY <1>3, <2>6
    <3> QED BY <3>2, <3>3
  <2>8. Len(y.rest) = n - 1 /\ \A i \in 1..(n - 1) : y.rest[i] = x.rest[i + 1]
    BY <2>2, <2>4, <2>6, HeadTailProperties
  <2>9. PICK m : m = Len(Script[x.kind])
    OBVIOUS
  <2>10. m \in Nat
    BY <2>9, ScriptTypes DEF Handlers
  <2>11. n <= m /\ \A i \in 1..n : x.rest[i] = Script[x.kind][m - n + i]
    BY <2>6, <2>9 DEF OnScript, Follows
  <2>12. n - 1 <= m /\ \A i \in 1..(n - 1) : y.rest[i] = Script[x.kind][m - (n - 1) + i]
    <3>1. ASSUME NEW i \in 1..(n - 1) PROVE y.rest[i] = Script[x.kind][m - (n - 1) + i]
      <4>1. i + 1 \in 1..n /\ m - n + (i + 1) = m - (n - 1) + i
        BY <2>7, <2>10
      <4>2. x.rest[i + 1] = Script[x.kind][m - n + (i + 1)]
        BY <2>11, <4>1
      <4> QED BY <2>8, <4>1, <4>2
    <3> QED BY <2>7, <2>10, <2>11, <3>1
  <2>13. Follows(y)
    BY <2>4, <2>8, <2>9, <2>12 DEF Follows
  <2>14. flow' = [flow EXCEPT ![f] = y]
    BY <1>1, <1>3, <2>1 DEF GoOn
  <2>15. flow'[f] = y /\ Others(f) /\ OnScript' /\ OneSync'
    BY <2>4, <2>5, <2>13, <2>14, HandlerChanges DEF Doing
  <2>16. Doing(f)' = Doing(f)
    BY <2>4, <2>5, <2>15 DEF Doing
  <2> QED BY <1>3, <2>4, <2>5, <2>6, <2>8, <2>15, <2>16 DEF ToDo
<1> QED BY <1>2, <1>3

\* A handler that is done hands over to a sync, or the promise is off.
LEMMA HandsOver ==
  ASSUME TypeInv, OnScript, OneSync, NEW f \in Flows, ThenSync(f)
  PROVE  Others(f) /\ OnScript' /\ OneSync' /\ SyncToCome' /\ Doing(f)' # "continue"
<1>1. CASE Syncing
  <2>1. flow' = [flow EXCEPT ![f] = NoFlow] /\ behind' = TRUE
    BY <1>1 DEF ThenSync, TypeInv, Typing, FlagTypes
  <2> QED BY <2>1, Stops DEF SyncToCome, Doing
<1>2. CASE ~Syncing
  <2>1. flow' = [flow EXCEPT ![f] = Starting("quick", FALSE)]
    BY <1>2 DEF ThenSync
  <2>2. "quick" \in Kinds /\ "quick" \in SyncKinds
    BY KindsAre DEF SyncKinds
  <2>3. /\ Others(f) /\ OnScript' /\ OneSync' /\ flow'[f] # NoFlow /\ Doing(f)' = "quick"
        /\ ToDo(f)' \in {4, 8}
    BY <1>2, <2>1, <2>2, Begins
  <2>4. WillRead(f)'
    BY <2>2, <2>3 DEF WillRead
  <2> QED BY <2>3, <2>4 DEF SyncToCome
<1> QED BY <1>1, <1>2

-------------------------------------------------------------------------------
\* A handler that is where it was.
Unmoved(g) ==
  /\ Doing(g)' = Doing(g)
  /\ Doing(g) # "nothing" => /\ ToDo(g)' = ToDo(g) /\ flow'[g].copy = flow[g].copy
                             /\ flow'[g].keys = flow[g].keys /\ flow'[g].before = flow[g].before

LEMMA OthersUnmoved == ASSUME NEW f \in Flows, Others(f) PROVE \A g \in Flows : g # f => Unmoved(g)
BY DEF Others, Unmoved, Doing, ToDo

LEMMA RestUnmoved ==
  ASSUME OnScript, OneSync, flow' = flow
  PROVE  OnScript' /\ OneSync' /\ \A g \in Flows : Unmoved(g)
BY DEF OnScript, Follows, OneSync, Unmoved, Doing, ToDo

LEMMA UnmovedFacts ==
  ASSUME NEW g \in Flows, Unmoved(g)
  PROVE  /\ WillRead(g)' <=> WillRead(g)
         /\ WillWrite(g)' <=> WillWrite(g)
         /\ WillWrite(g) => flow'[g].copy = flow[g].copy
         /\ Merging(g)' <=> Merging(g)
BY DEF Unmoved, WillRead, WillWrite, Merging, SyncKinds

\* A handler told of a failed save is where it was.
LEMMA ToldUnmoved ==
  ASSUME TypeInv, OnScript, OneSync, NEW p \in puts, Told(p, FALSE)
  PROVE  OnScript' /\ OneSync' /\ \A g \in Flows : Unmoved(g)
<1>1. CASE p.by = Timer
  BY <1>1, RestUnmoved DEF Told
<1>2. CASE p.by # Timer
  <2>1. PICK f \in Flows : f = p.by /\ flow[f] # NoFlow /\ flow[f] \in Handlers
    BY <1>2 DEF TypeInv, Typing, StoreTypes, FlowTypes, Saves, Awaits, At
  <2>2. PICK x : x = [flow[f] EXCEPT !.ok = FALSE]
    OBVIOUS
  <2>3. /\ x \in Handlers /\ x.kind = flow[f].kind /\ x.rest = flow[f].rest /\ x.copy = flow[f].copy
        /\ x.keys = flow[f].keys /\ x.before = flow[f].before
    BY <2>1, <2>2 DEF Handlers
  <2>4. flow' = [flow EXCEPT ![f] = x]
    BY <1>2, <2>1, <2>2 DEF Told
  <2>5. /\ flow'[f] = x /\ Doing(f)' = Doing(f) /\ ToDo(f)' = ToDo(f)
        /\ Others(f) /\ OnScript' /\ OneSync'
    BY <2>1, <2>3, <2>4, Stays
  <2>6. Unmoved(f)
    BY <2>3, <2>5 DEF Unmoved
  <2> QED BY <2>5, <2>6, OthersUnmoved
<1> QED BY <1>1, <1>2

-------------------------------------------------------------------------------
\* Once a sync is to come nothing more is asked.
LEMMA DueScores ==
  ASSUME SyncToCome'
  PROVE  CopyIsNew' /\ ScoredOrScoring'
BY DEF CopyIsNew, ScoredOrScoring

\* Steps that move no handler, or one of them short of what it reads and writes.
LEMMA TurnScores ==
  ASSUME Scores, UNCHANGED <<stored, scored>>, behind => behind', syncDue.due => syncDue'.due,
         \A p \in puts : p.state = "stored" => p \in puts',
         NEW f \in Flows, \A g \in Flows : g # f => Unmoved(g),
         WillRead(f) => WillRead(f)', ~Merging(f) \/ Merging(f)',
         \/ Unmoved(f)
         \/ ~WillWrite(f) /\ ~WillWrite(f)'
  PROVE  CopyIsNew' /\ ScoredOrScoring'
<1>1. SyncToCome => SyncToCome'
  BY UnmovedFacts DEF SyncToCome
<1>2. \A g \in Flows : (WillWrite(g)' <=> WillWrite(g)) /\ (WillWrite(g) => flow'[g].copy = flow[g].copy)
  BY UnmovedFacts
<1> QED BY <1>1, <1>2 DEF Scores, CopyIsNew, ScoredOrScoring

LEMMA RestScores ==
  ASSUME Scores, UNCHANGED <<stored, scored>>, behind => behind', syncDue.due => syncDue'.due,
         \A p \in puts : p.state = "stored" => p \in puts', \A g \in Flows : Unmoved(g)
  PROVE  CopyIsNew' /\ ScoredOrScoring'
<1>1. SyncToCome => SyncToCome'
  BY UnmovedFacts DEF SyncToCome
<1>2. \A g \in Flows : (WillWrite(g)' <=> WillWrite(g)) /\ (WillWrite(g) => flow'[g].copy = flow[g].copy)
  BY UnmovedFacts
<1> QED BY <1>1, <1>2 DEF Scores, CopyIsNew, ScoredOrScoring

\* A handler goes on from a step before those that read.
LEMMA EarlyTurnScores ==
  ASSUME TypeInv, OnScript, Scores, NEW f \in Flows, flow[f] # NoFlow, NEW x \in Handlers,
         x.kind = flow[f].kind, x.rest = flow[f].rest, Step(f, x),
         Doing(f) \in SyncKinds \cup {"merge"} => ToDo(f) >= 4,
         UNCHANGED <<stored, scored, behind, syncDue>>, puts \subseteq puts'
  PROVE  OnScript' /\ Scores'
<1>1. /\ Others(f) /\ OnScript' /\ OneSync'
      /\ ToDo(f) = 1 => flow'[f] = NoFlow
      /\ ToDo(f) # 1 => Doing(f)' = Doing(f) /\ ToDo(f)' = ToDo(f) - 1
  BY GoesOn DEF Scores
<1>2. ToDo(f) \in Nat /\ ToDo(f) >= 1
  BY AtStage
<1>3. flow'[f] = NoFlow => Doing(f)' = "nothing"
  BY DEF Doing
<1>4. ~WillWrite(f) /\ ~Merging(f) /\ (WillRead(f) => ToDo(f) >= 4)
  BY <1>2 DEF WillRead, WillWrite, Merging
<1>5. ~WillWrite(f)' /\ (WillRead(f) => WillRead(f)')
  <2>1. CASE ToDo(f) = 1
    BY <1>1, <1>3, <1>4, <2>1 DEF WillRead, WillWrite, SyncKinds
  <2>2. CASE ToDo(f) # 1
    BY <1>1, <1>2, <1>4, <2>2 DEF WillRead, WillWrite
  <2> QED BY <2>1, <2>2
<1>6. CopyIsNew' /\ ScoredOrScoring'
  BY <1>1, <1>4, <1>5, OthersUnmoved, TurnScores
<1> QED BY <1>1, <1>6 DEF Scores

LEMMA SavingScores ==
  ASSUME ScriptInv, Scores,
         \/ \E s \in Sections, r \in Typed : Edit(s, r)
         \/ \E s \in Sections : TimerFires(s)
         \/ \E p \in puts :
              \/ StorePut(p) \/ RefusePut(p) \/ AnswerPut(p) \/ FailPut(p) \/ LoseAnswer(p)
              \/ GiveUpPut(p)
  PROVE  OnScript' /\ Scores'
<1> USE DEF ScriptInv
<1>0. OneSync
  BY DEF Scores
<1>1. ASSUME NEW s \in Sections, NEW r \in Typed, Edit(s, r)
      PROVE  OnScript' /\ Scores'
  BY <1>0, <1>1, RestUnmoved, RestScores DEF Edit, Scores, histVars
<1>2. ASSUME NEW s \in Sections, TimerFires(s)
      PROVE  OnScript' /\ Scores'
  <2>1. puts \subseteq puts'
    BY <1>2 DEF TimerFires, Send
  <2> QED BY <1>0, <1>2, <2>1, RestUnmoved, RestScores DEF TimerFires, Scores, histVars
<1>3. ASSUME NEW p \in puts, StorePut(p)
      PROVE  OnScript' /\ Scores'
  <2>1. [p EXCEPT !.state = "stored"] \in puts' /\ [p EXCEPT !.state = "stored"].state = "stored"
    BY <1>3 DEF StorePut, TypeInv, Typing, StoreTypes, Saves
  <2>2. SyncToCome'
    BY <2>1 DEF SyncToCome
  <2> QED BY <1>0, <1>3, <2>2, RestUnmoved, DueScores DEF StorePut, Scores
<1>4. ASSUME NEW p \in puts, RefusePut(p)
      PROVE  OnScript' /\ Scores'
  <2>1. \A q \in puts : q.state = "stored" => q \in puts'
    BY <1>4 DEF RefusePut
  <2> QED BY <1>0, <1>4, <2>1, RestUnmoved, RestScores DEF RefusePut, Scores
<1>5. ASSUME NEW p \in puts, AnswerPut(p)
      PROVE  OnScript' /\ Scores'
  <2>1. SyncToCome'
    BY <1>5 DEF AnswerPut, SyncToCome
  <2> QED BY <1>0, <1>5, <2>1, RestUnmoved, DueScores DEF AnswerPut, Scores
<1>6. ASSUME NEW p \in puts, FailPut(p)
      PROVE  OnScript' /\ Scores'
  <2>1. \A q \in puts : q.state = "stored" => q \in puts'
    BY <1>6 DEF FailPut
  <2>2. OnScript' /\ OneSync' /\ \A g \in Flows : Unmoved(g)
    BY <1>0, <1>6, ToldUnmoved DEF FailPut
  <2> QED BY <1>6, <2>1, <2>2, RestScores DEF FailPut, Scores, histVars
<1>7. ASSUME NEW p \in puts, LoseAnswer(p)
      PROVE  OnScript' /\ Scores'
  <2>1. SyncToCome'
    BY <1>7 DEF LoseAnswer, SyncToCome
  <2>2. OnScript' /\ OneSync'
    BY <1>0, <1>7, ToldUnmoved DEF LoseAnswer
  <2> QED BY <2>1, <2>2, DueScores DEF Scores
<1>8. ASSUME NEW p \in puts, GiveUpPut(p)
      PROVE  OnScript' /\ Scores'
  <2>1. \A q \in puts : q.state = "stored" => q \in puts'
    BY <1>8 DEF GiveUpPut
  <2>2. OnScript' /\ OneSync' /\ \A g \in Flows : Unmoved(g)
    BY <1>0, <1>8, ToldUnmoved DEF GiveUpPut
  <2> QED BY <1>8, <2>1, <2>2, RestScores DEF GiveUpPut, Scores
<1> QED BY <1>1, <1>2, <1>3, <1>4, <1>5, <1>6, <1>7, <1>8

\* The server goes on with a request given up.  Whether it writes the client or the
\* workbook, either nothing is other than it was or the promise is off.
LEMMA LateScores ==
  ASSUME ScriptInv, Scores, NEW x \in late, LateRead(x) \/ LateProject(x) \/ LateWrite(x) \/ LateEnds(x)
  PROVE  OnScript' /\ Scores'
<1>1. flow' = flow /\ UNCHANGED <<puts, syncDue>>
  BY DEF LateRead, LateProject, LateWrite, LateEnds
<1>2. OnScript' /\ OneSync' /\ \A g \in Flows : Unmoved(g)
  BY <1>1, RestUnmoved DEF ScriptInv, Scores
<1>3. CASE LateRead(x) \/ LateEnds(x)
  <2>1. UNCHANGED <<stored, scored, behind>>
    BY <1>3 DEF LateRead, LateEnds, histVars
  <2> QED BY <1>1, <1>2, <2>1, RestScores DEF Scores
<1>4. CASE behind'
  <2>1. SyncToCome'
    BY <1>4 DEF SyncToCome
  <2> QED BY <1>2, <2>1, DueScores DEF Scores
<1>5. CASE LateProject(x) /\ ~behind'
  <2>1. stored' = stored /\ scored' = stored
    BY <1>5 DEF LateProject
  <2>2. SyncToCome => SyncToCome'
    BY <1>1, <1>2, <1>5, UnmovedFacts DEF LateProject, SyncToCome
  <2>3. CopyIsNew'
    BY <1>2, <2>1, <2>2, UnmovedFacts DEF Scores, CopyIsNew
  <2>4. ScoredOrScoring'
    BY <2>1 DEF ScoredOrScoring
  <2> QED BY <1>2, <2>3, <2>4 DEF Scores
<1>6. CASE LateWrite(x) /\ ~behind'
  <2>1. PICK s \in x.keys :
          /\ stored' = [stored EXCEPT ![s] = x.copy[s]]
          /\ behind' = (behind \/ x.copy[s] # stored[s])
    BY <1>6 DEF LateWrite
  <2>2. x.copy[s] = stored[s] /\ (behind => behind')
    BY <1>6, <2>1
  <2>3. stored' = stored /\ scored' = scored
    BY <1>6, <2>1, <2>2 DEF LateWrite, ScriptInv, TypeInv, Typing, StoreTypes, Workbooks
  <2> QED BY <1>1, <1>2, <2>2, <2>3, RestScores DEF Scores
<1> QED BY <1>3, <1>4, <1>5, <1>6

\* A handler that starts.
LEMMA StartsScore ==
  ASSUME ScriptInv, Scores, NEW f \in Flows,
         (\E kind \in {"save", "continue", "merge"} : Click(f, kind)) \/ SyncTimerFires(f)
  PROVE  OnScript' /\ Scores'
<1> USE DEF ScriptInv
<1>0. OneSync
  BY DEF Scores
<1>1. ASSUME NEW kind \in {"save", "continue", "merge"}, Click(f, kind)
      PROVE  OnScript' /\ Scores'
  <2>1. kind \in Kinds /\ kind \notin SyncKinds /\ saveError \in BOOLEAN
    BY KindsAre DEF SyncKinds, TypeInv, Typing, FlagTypes
  <2>2. flow' = [flow EXCEPT ![f] = Starting(kind, saveError)] /\ flow[f] = NoFlow
    BY <1>1 DEF Click
  <2>3. Others(f) /\ OnScript' /\ OneSync' /\ Doing(f)' = kind
    BY <1>0, <2>1, <2>2, Begins
  <2>4. Doing(f) = "nothing"
    BY <2>2 DEF Doing
  <2>5. ~WillRead(f) /\ ~Merging(f) /\ ~WillWrite(f)
    BY <2>4 DEF WillRead, Merging, WillWrite, SyncKinds
  <2>6. ~WillWrite(f)'
    BY <2>1, <2>3 DEF WillWrite
  <2>7. UNCHANGED <<stored, scored, behind, syncDue, puts>>
    BY <1>1 DEF Click, histVars
  <2>8. \A g \in Flows : g # f => Unmoved(g)
    BY <2>3, OthersUnmoved
  <2>9. CopyIsNew' /\ ScoredOrScoring'
    BY <2>5, <2>6, <2>7, <2>8, TurnScores
  <2> QED BY <2>3, <2>9 DEF Scores
<1>2. ASSUME SyncTimerFires(f)
      PROVE  OnScript' /\ Scores'
  <2>1. CASE Syncing
    <3>1. SyncToCome'
      BY <1>2, <2>1 DEF SyncTimerFires, SyncToCome
    <3> QED BY <1>0, <1>2, <2>1, <3>1, RestUnmoved, DueScores DEF SyncTimerFires, Scores
  <2>2. CASE ~Syncing
    <3>1. "sync" \in Kinds /\ "sync" \in SyncKinds /\ syncDue.err \in BOOLEAN
      BY KindsAre DEF SyncKinds, TypeInv, Typing, FlagTypes
    <3>2. flow' = [flow EXCEPT ![f] = Starting("sync", syncDue.err)]
      BY <1>2, <2>2 DEF SyncTimerFires
    <3>3. OnScript' /\ OneSync' /\ Doing(f)' = "sync" /\ ToDo(f)' \in {4, 8}
      BY <1>0, <2>2, <3>1, <3>2, Begins
    <3>4. SyncToCome'
      BY <3>1, <3>3 DEF SyncToCome, WillRead
    <3> QED BY <3>3, <3>4, DueScores DEF Scores
  <2> QED BY <2>1, <2>2
<1> QED BY <1>1, <1>2

\* A handler that waits, flushes or leaves.
LEMMA FlushingScores ==
  ASSUME ScriptInv, Scores, NEW f \in Flows,
         WaitEnds(f) \/ WaitGivesUp(f) \/ FlushKeys(f) \/ FlushNext(f) \/ Leave(f)
  PROVE  OnScript' /\ Scores'
<1> USE DEF ScriptInv
<1>0. OneSync /\ flow[f] # NoFlow
  BY DEF Scores, WaitEnds, WaitGivesUp, FlushKeys, FlushNext, Leave, At
<1>h. flow[f] \in Handlers
  BY <1>0, AtStage
<1>1. CASE WaitEnds(f) \/ WaitGivesUp(f)
  <2>1. Doing(f) \in SyncKinds \cup {"merge"} => ToDo(f) >= 4
    BY <1>0, <1>1, AtStage DEF WaitEnds, WaitGivesUp, Stage, SyncKinds
  <2>2. Step(f, flow[f]) /\ UNCHANGED <<stored, scored, behind, syncDue, puts>>
    BY <1>1 DEF WaitEnds, WaitGivesUp, histVars
  <2> QED BY <1>0, <1>h, <2>1, <2>2, EarlyTurnScores
<1>2. CASE FlushKeys(f)
  <2>1. Doing(f) \in SyncKinds \cup {"merge"} => ToDo(f) >= 4
    BY <1>0, <1>2, AtStage DEF FlushKeys, Stage, SyncKinds
  <2>2. PICK x : x = [flow[f] EXCEPT !.keys = {s \in Sections : unsent[s] # NoPayload}]
    OBVIOUS
  <2>3. x \in Handlers /\ x.kind = flow[f].kind /\ x.rest = flow[f].rest
    BY <1>h, <2>2 DEF Handlers
  <2>4. Step(f, x) /\ UNCHANGED <<stored, scored, behind, syncDue, puts>>
    BY <1>2, <2>2 DEF FlushKeys, histVars
  <2> QED BY <1>0, <2>1, <2>3, <2>4, EarlyTurnScores
<1>3. CASE FlushNext(f)
  <2>1. Doing(f) \in SyncKinds \cup {"merge"} => ToDo(f) >= 4
    BY <1>0, <1>3, AtStage DEF FlushNext, Stage, SyncKinds
  <2>2. UNCHANGED <<stored, scored, behind, syncDue>>
    BY <1>3 DEF FlushNext, histVars
  <2>3. CASE flow[f].keys = {}
    <3>1. Step(f, flow[f]) /\ puts' = puts
      BY <1>3, <2>3 DEF FlushNext
    <3> QED BY <1>0, <1>h, <2>1, <2>2, <3>1, EarlyTurnScores
  <2>4. CASE flow[f].keys # {}
    <3>1. PICK s \in flow[f].keys : flow' = [flow EXCEPT ![f].keys = @ \ {s}] /\ Send(s, f)
      BY <1>3, <2>4 DEF FlushNext
    <3>2. PICK x : x = [flow[f] EXCEPT !.keys = @ \ {s}]
      OBVIOUS
    <3>3. x \in Handlers /\ x.kind = flow[f].kind /\ x.rest = flow[f].rest /\ x.copy = flow[f].copy
      BY <1>h, <3>2 DEF Handlers
    <3>4. flow' = [flow EXCEPT ![f] = x]
      BY <3>1, <3>2
    <3>5. Doing(f)' = Doing(f) /\ ToDo(f)' = ToDo(f) /\ Others(f) /\ OnScript' /\ OneSync'
      BY <1>0, <3>3, <3>4, Stays
    <3>6. puts \subseteq puts'
      BY <3>1 DEF Send
    <3>7. /\ WillRead(f) => WillRead(f)'
          /\ ~Merging(f) \/ Merging(f)'
          /\ ~WillWrite(f) /\ ~WillWrite(f)'
      BY <2>1, <3>5 DEF WillRead, Merging, WillWrite
    <3>8. \A g \in Flows : g # f => Unmoved(g)
      BY <3>5, OthersUnmoved
    <3>9. CopyIsNew' /\ ScoredOrScoring'
      BY <2>2, <3>6, <3>7, <3>8, TurnScores
    <3> QED BY <3>5, <3>9 DEF Scores
  <2> QED BY <2>3, <2>4
<1>4. CASE Leave(f)
  <2>1. CASE flow[f].ok /\ ~flow[f].err
    BY <1>0, <1>4, <2>1, HandsOver, DueScores DEF Leave, Scores
  <2>2. CASE ~(flow[f].ok /\ ~flow[f].err)
    <3>1. flow' = [flow EXCEPT ![f] = NoFlow] /\ UNCHANGED <<stored, scored, behind, syncDue, puts>>
      BY <1>4, <2>2 DEF Leave, Stop
    <3>2. flow'[f] = NoFlow /\ Others(f) /\ OnScript' /\ OneSync'
      BY <1>0, <3>1, Stops
    <3>3. Doing(f) = "continue" /\ Doing(f)' = "nothing"
      BY <1>0, <1>4, <3>2, AtStage DEF Leave, Stage, Doing
    <3>4. ~WillRead(f) /\ ~Merging(f) /\ ~WillWrite(f) /\ ~WillWrite(f)'
      BY <3>3 DEF WillRead, Merging, WillWrite, SyncKinds
    <3>5. \A g \in Flows : g # f => Unmoved(g)
      BY <3>2, OthersUnmoved
    <3>6. CopyIsNew' /\ ScoredOrScoring'
      BY <3>1, <3>4, <3>5, TurnScores
    <3> QED BY <3>2, <3>6 DEF Scores
  <2> QED BY <2>1, <2>2
<1> QED BY <1>1, <1>2, <1>3, <1>4

\* A sync.
LEMMA SyncingScores ==
  ASSUME ScriptInv, Scores, NEW f \in Flows,
         CheckSaved(f) \/ SyncRead(f) \/ SyncProject(f) \/ SyncFails(f) \/ SyncEnds(f)
  PROVE  OnScript' /\ Scores'
<1> USE DEF ScriptInv
<1>0. OneSync /\ flow[f] # NoFlow
  BY DEF Scores, CheckSaved, SyncRead, SyncProject, SyncFails, SyncEnds, At
<1>h. flow[f] \in Handlers
  BY <1>0, AtStage
<1>1. CASE CheckSaved(f)
  <2>1. CASE flow[f].ok /\ ~flow[f].err
    <3>1. ToDo(f) >= 4
      BY <1>0, <1>1, AtStage DEF CheckSaved, Stage
    <3>2. Step(f, flow[f]) /\ UNCHANGED <<stored, scored, behind, syncDue, puts>>
      BY <1>1, <2>1 DEF CheckSaved
    <3> QED BY <1>0, <1>h, <3>1, <3>2, EarlyTurnScores
  <2>2. CASE ~(flow[f].ok /\ ~flow[f].err)
    <3>1. flow' = [flow EXCEPT ![f] = NoFlow] /\ SyncToCome'
      BY <1>1, <2>2 DEF CheckSaved, Stop, SyncToCome
    <3> QED BY <1>0, <3>1, Stops, DueScores DEF Scores
  <2> QED BY <2>1, <2>2
<1>2. CASE SyncRead(f)
  <2>1. PICK x : x = [flow[f] EXCEPT !.copy = stored]
    OBVIOUS
  <2>2. x \in Handlers /\ x.kind = flow[f].kind /\ x.rest = flow[f].rest /\ x.copy = stored
    BY <1>h, <2>1 DEF Handlers, TypeInv, Typing, StoreTypes
  <2>3. Step(f, x) /\ stored' = stored
    BY <1>2, <2>1 DEF SyncRead
  <2>4. Doing(f) \in SyncKinds /\ ToDo(f) = 3
    BY <1>0, <1>2, AtStage DEF SyncRead, Stage, SyncKinds
  <2>5. /\ Others(f) /\ OnScript' /\ OneSync'
        /\ Doing(f)' \in SyncKinds /\ ToDo(f)' = 2 /\ flow'[f].copy = stored
    BY <1>0, <2>2, <2>3, <2>4, GoesOn
  <2>6. WillWrite(f)'
    BY <2>5 DEF WillWrite
  <2>7. \A g \in Flows : WillWrite(g)' => g = f
    BY <2>5 DEF OneSync, WillWrite
  <2>8. CopyIsNew'
    BY <2>3, <2>5, <2>7 DEF CopyIsNew
  <2>9. ScoredOrScoring'
    BY <2>6 DEF ScoredOrScoring
  <2> QED BY <2>5, <2>8, <2>9 DEF Scores
<1>3. CASE SyncProject(f)
  <2>1. Step(f, flow[f]) /\ scored' = flow[f].copy /\ UNCHANGED <<stored, behind, syncDue, puts>>
    BY <1>3 DEF SyncProject, histVars
  <2>2. Doing(f) \in SyncKinds /\ ToDo(f) = 2
    BY <1>0, <1>3, AtStage DEF SyncProject, Stage, SyncKinds
  <2>3. /\ Others(f) /\ OnScript' /\ OneSync'
        /\ Doing(f)' \in SyncKinds /\ ToDo(f)' = 1
    BY <1>0, <1>h, <2>1, <2>2, GoesOn
  <2>4. \A g \in Flows : ~WillWrite(g)'
    BY <2>3 DEF OneSync, WillWrite
  <2>5. WillWrite(f) /\ ~WillRead(f) /\ ~Merging(f)
    BY <2>2 DEF WillWrite, WillRead, Merging, SyncKinds
  <2>6. SyncToCome => SyncToCome'
    BY <2>1, <2>3, <2>5, OthersUnmoved, UnmovedFacts DEF SyncToCome
  <2>7. SyncToCome \/ flow[f].copy = stored
    BY <2>5 DEF Scores, CopyIsNew
  <2>8. ScoredOrScoring'
    BY <2>1, <2>6, <2>7 DEF ScoredOrScoring
  <2>9. CopyIsNew'
    BY <2>4 DEF CopyIsNew
  <2> QED BY <2>3, <2>8, <2>9 DEF Scores
<1>4. CASE SyncFails(f)
  <2>1. flow' = [flow EXCEPT ![f] = NoFlow] /\ SyncToCome'
    BY <1>4 DEF SyncFails, Stop, SyncToCome
  <2> QED BY <1>0, <2>1, Stops, DueScores DEF Scores
<1>5. CASE SyncEnds(f)
  <2>1. Step(f, flow[f]) /\ UNCHANGED <<stored, scored, behind, syncDue, puts>>
    BY <1>5 DEF SyncEnds, histVars
  <2>2. Doing(f) \in SyncKinds /\ ToDo(f) = 1
    BY <1>0, <1>5, AtStage DEF SyncEnds, Stage, SyncKinds
  <2>3. Others(f) /\ OnScript' /\ OneSync' /\ flow'[f] = NoFlow
    BY <1>0, <1>h, <2>1, <2>2, GoesOn
  <2>4. Doing(f)' = "nothing"
    BY <2>3 DEF Doing
  <2>5. ~WillRead(f) /\ ~Merging(f) /\ ~WillWrite(f) /\ ~WillWrite(f)'
    BY <2>2, <2>4 DEF WillRead, Merging, WillWrite, SyncKinds
  <2>6. CopyIsNew' /\ ScoredOrScoring'
    BY <2>1, <2>3, <2>5, OthersUnmoved, TurnScores
  <2> QED BY <2>3, <2>6 DEF Scores
<1> QED BY <1>1, <1>2, <1>3, <1>4, <1>5

\* A merge of documents.
LEMMA MergingScores ==
  ASSUME ScriptInv, Scores, NEW f \in Flows,
         \/ MergeCompare(f) \/ MergeWrite(f) \/ MergeAnswered(f) \/ MergeFails(f)
         \/ Reload(f) \/ Show(f) \/ ReloadFails(f)
  PROVE  OnScript' /\ Scores'
<1> USE DEF ScriptInv
<1>0. OneSync /\ flow[f] # NoFlow
  BY DEF Scores, MergeCompare, MergeWrite, MergeAnswered, MergeFails, Reload, Show, ReloadFails, At
<1>h. flow[f] \in Handlers /\ stored \in Workbooks
  BY <1>0, AtStage DEF TypeInv, Typing, StoreTypes
<1>1. CASE MergeCompare(f)
  <2>1. PICK x : x = [flow[f] EXCEPT !.copy = stored,
                                     !.keys = AddedTo]
    OBVIOUS
  <2>2. x \in Handlers /\ x.kind = flow[f].kind /\ x.rest = flow[f].rest
    BY <1>h, <2>1, AddedToTypes DEF Handlers
  <2>3. Step(f, x) /\ UNCHANGED <<stored, scored, behind, syncDue, puts>>
    BY <1>1, <2>1 DEF MergeCompare, histVars
  <2>4. ToDo(f) >= 4
    BY <1>0, <1>1, AtStage DEF MergeCompare, Stage
  <2> QED BY <1>0, <2>2, <2>3, <2>4, EarlyTurnScores
<1>2. CASE MergeWrite(f)
  <2>1. PICK s \in flow[f].keys : flow' = [flow EXCEPT ![f].keys = @ \ {s}]
    BY <1>2 DEF MergeWrite
  <2>2. PICK x : x = [flow[f] EXCEPT !.keys = @ \ {s}]
    OBVIOUS
  <2>3. x \in Handlers /\ x.kind = flow[f].kind /\ x.rest = flow[f].rest
    BY <1>h, <2>2 DEF Handlers
  <2>4. Doing(f) = "merge" /\ ToDo(f) = 3
    BY <1>0, <1>2, AtStage DEF MergeWrite, Stage
  <2>5. flow' = [flow EXCEPT ![f] = x]
    BY <2>1, <2>2
  <2>6. OnScript' /\ OneSync' /\ Doing(f)' = "merge" /\ ToDo(f)' = 3
    BY <1>0, <2>3, <2>4, <2>5, Stays
  <2>7. SyncToCome'
    BY <2>6 DEF SyncToCome, Merging
  <2> QED BY <2>6, <2>7, DueScores DEF Scores
<1>3. CASE MergeAnswered(f)
  <2>1. Step(f, flow[f])
    BY <1>3 DEF MergeAnswered
  <2>2. Doing(f) = "merge" /\ ToDo(f) = 3
    BY <1>0, <1>3, AtStage DEF MergeAnswered, Stage
  <2>3. OnScript' /\ OneSync' /\ Doing(f)' = "merge" /\ ToDo(f)' = 2
    BY <1>0, <1>h, <2>1, <2>2, GoesOn
  <2>4. SyncToCome'
    BY <2>3 DEF SyncToCome, Merging
  <2> QED BY <2>3, <2>4, DueScores DEF Scores
<1>4. CASE MergeFails(f)
  <2>1. flow' = [flow EXCEPT ![f] = NoFlow] /\ SyncToCome'
    BY <1>4 DEF MergeFails, Stop, SyncToCome
  <2> QED BY <1>0, <2>1, Stops, DueScores DEF Scores
<1>5. CASE Reload(f)
  <2>1. PICK x : x = [flow[f] EXCEPT !.copy = stored]
    OBVIOUS
  <2>2. x \in Handlers /\ x.kind = flow[f].kind /\ x.rest = flow[f].rest
    BY <1>h, <2>1 DEF Handlers
  <2>3. Step(f, x)
    BY <1>5, <2>1 DEF Reload
  <2>4. Doing(f) = "merge" /\ ToDo(f) = 2
    BY <1>0, <1>5, AtStage DEF Reload, Stage
  <2>5. OnScript' /\ OneSync' /\ Doing(f)' = "merge" /\ ToDo(f)' = 1
    BY <1>0, <2>2, <2>3, <2>4, GoesOn
  <2>6. SyncToCome'
    BY <2>5 DEF SyncToCome, Merging
  <2> QED BY <2>5, <2>6, DueScores DEF Scores
<1>6. CASE Show(f) \/ ReloadFails(f)
  BY <1>0, <1>6, HandsOver, DueScores DEF Show, ReloadFails, Scores
<1> QED BY <1>1, <1>2, <1>3, <1>4, <1>5, <1>6

LEMMA StepScores ==
  ASSUME ScriptInv, Scores, [AutosaveNext]_autosaveVars
  PROVE  OnScript' /\ Scores'
<1>1. CASE AutosaveNext
  BY <1>1, SavingScores, LateScores, StartsScore, FlushingScores, SyncingScores, MergingScores
  DEF AutosaveNext, Machinery
<1>2. CASE UNCHANGED autosaveVars
  <2>1. flow' = flow /\ UNCHANGED <<stored, scored, behind, syncDue, puts>>
    BY <1>2 DEF autosaveVars, histVars
  <2> QED BY <2>1, RestUnmoved, RestScores DEF ScriptInv, Scores
<1> QED BY <1>1, <1>2

LEMMA ScoresInit ==
  ASSUME AutosaveInit
  PROVE  OnScript /\ Scores
<1>1. \A g \in Flows : flow[g] = NoFlow /\ Doing(g) = "nothing"
  BY DEF AutosaveInit, Doing
<1> QED BY <1>1 DEF AutosaveInit, OnScript, Scores, OneSync, CopyIsNew, ScoredOrScoring, WillWrite, SyncKinds

\* Syncs that are asked for, refused, given up or overtaken by saves and merges: when
\* the tab is at rest the scorecard is of the stored workbook, or the history says
\* that a sync came to nothing since, or that a request which had failed for the tab
\* was carried out after the last sync had read and left the one other than the other.
THEOREM RestIsScored == AutosaveSpec => []QuietIsScored
<1>1. AutosaveInit => ScriptInv /\ Scores
  BY TypeInvInit, ScoresInit DEF ScriptInv
<1>2. ScriptInv /\ Scores /\ [AutosaveNext]_autosaveVars => (ScriptInv /\ Scores)'
  BY StepKeepsTypes, StepScores DEF ScriptInv
<1>3. Scores => QuietIsScored
  <2> SUFFICES ASSUME Scores, TabQuiet PROVE scored = stored \/ behind
    BY DEF QuietIsScored
  <2>1. puts = {} /\ ~syncDue.due /\ \A g \in Flows : Doing(g) = "nothing"
    BY DEF TabQuiet, Doing
  <2> QED BY <2>1 DEF Scores, ScoredOrScoring, SyncToCome, WillRead, Merging, WillWrite, SyncKinds
<1> QED BY <1>1, <1>2, <1>3, PTL DEF AutosaveSpec

-------------------------------------------------------------------------------
(***************************************************************************)
(* Continue to Summary leaves nothing waiting.  What a row typed goes to,  *)
(* once it has left the tab, keeps it (GoneGrows); the flush takes one     *)
(* section after the other of those that had a timer when it listed them,  *)
(* and what had none then waited no longer (Flushed).                      *)
(***************************************************************************)
Gone(s) == Sent(s) \cup Known(s)

\* What was typed before the user pressed Continue to Summary has gone once the
\* flush has come past its section.
FlushedAt(g) ==
  Doing(g) = "continue" =>
    \A s \in Sections :
      /\ flow[g].before[s] \subseteq made[s]
      /\ ToDo(g) <= 2 \/ (ToDo(g) = 3 /\ s \notin flow[g].keys)
           => flow[g].before[s] \subseteq Gone(s)

Flushed == \A g \in Flows : FlushedAt(g)

\* What was typed stays typed, and what has gone has gone.
GoneGrows ==
  \A s \in Sections : made[s] \subseteq made'[s] /\ Gone(s) \subseteq Gone(s)'

LEMMA SendGone ==
  ASSUME TypeInv, NEW s \in Sections, NEW by, Send(s, by), UNCHANGED <<made, stored, missed>>
  PROVE  GoneGrows /\ Waiting(s) \subseteq Sent(s)'
<1>1. \A x \in Sections : Sent(x) \subseteq Sent(x)'
  BY DEF Send, Sent
<1>2. Waiting(s) \subseteq Sent(s)'
  <2>1. CASE unsent[s] = NoPayload
    BY <2>1 DEF Waiting
  <2>2. CASE unsent[s] # NoPayload
    <3> DEFINE q == [sec |-> s, rows |-> unsent[s], by |-> by, state |-> "sent"]
    <3>1. q \in puts' /\ q.sec = s /\ q.state = "sent" /\ q.rows = unsent[s]
      BY <2>2 DEF Send
    <3> QED BY <2>2, <3>1 DEF Waiting, Sent
  <2> QED BY <2>1, <2>2
<1> QED BY <1>1, <1>2 DEF GoneGrows, Gone, Known

LEMMA SettledGone ==
  ASSUME NEW p \in puts, puts \ {p} \subseteq puts', made' = made,
         p.sec \in Sections, p.rows \subseteq Known(p.sec)',
         \A x \in Sections : Known(x) \subseteq Known(x)'
  PROVE  GoneGrows
<1>1. ASSUME NEW x \in Sections PROVE Sent(x) \subseteq Sent(x)' \cup Known(x)'
  <2>1. ASSUME NEW u \in puts, u.sec = x, u.state = "sent"
        PROVE  u.rows \subseteq Sent(x)' \cup Known(x)'
    <3>1. CASE u = p
      BY <2>1, <3>1
    <3>2. CASE u # p
      BY <2>1, <3>2 DEF Sent
    <3> QED BY <3>1, <3>2
  <2> QED BY <2>1 DEF Sent
<1> QED BY <1>1 DEF GoneGrows, Gone

LEMMA StepGone ==
  ASSUME TypeInv, AutosaveNext
  PROVE  GoneGrows
<1>1. CASE RowsStay
  BY <1>1 DEF RowsStay, GoneGrows, Gone, Known, Sent
<1>2. ASSUME NEW s \in Sections, NEW r \in Typed, Edit(s, r) PROVE GoneGrows
  <2>1. \A x \in Sections : made[x] \subseteq made'[x]
    BY <1>2 DEF Edit, TypeInv, Typing, TabTypes
  <2> QED BY <1>2, <2>1 DEF Edit, GoneGrows, Gone, Known, Sent, histVars
<1>3. ASSUME NEW s \in Sections, TimerFires(s) PROVE GoneGrows
  BY <1>3, SendGone DEF TimerFires, tabVars, histVars
<1>4. ASSUME NEW p \in puts, StorePut(p) PROVE GoneGrows
  BY <1>4, StorePutKeepsKnown, SettledGone DEF StorePut, tabVars
<1>5. ASSUME NEW p \in puts, RefusePut(p) \/ GiveUpPut(p) PROVE GoneGrows
  <2>1. puts \ {p} \subseteq puts' /\ made' = made
    BY <1>5 DEF RefusePut, GiveUpPut, tabVars
  <2> QED BY <1>5, <2>1, RefusePutKeepsKnown, SettledGone
<1>6. ASSUME NEW p \in puts, AnswerPut(p) \/ FailPut(p) \/ LoseAnswer(p) PROVE GoneGrows
  <2>1. p.state # "sent" /\ puts' = puts \ {p} /\ UNCHANGED <<made, stored, missed>>
    BY <1>6 DEF AnswerPut, FailPut, LoseAnswer, tabVars, histVars
  <2> QED BY <2>1 DEF GoneGrows, Gone, Known, Sent
<1>7. ASSUME NEW f \in Flows, FlushNext(f) PROVE GoneGrows
  <2>1. CASE flow[f].keys = {}
    <3>1. RowsStay
      BY <1>7, <2>1 DEF FlushNext, RowsStay, tabVars, histVars
    <3> QED BY <1>1, <3>1
  <2>2. CASE flow[f].keys # {}
    <3>1. PICK s \in flow[f].keys : Send(s, f)
      BY <1>7, <2>2 DEF FlushNext
    <3>2. flow[f] \in Handlers
      BY <1>7, AtTypes DEF FlushNext, TypeInv, Typing
    <3>3. s \in Sections
      BY <3>1, <3>2 DEF Handlers
    <3> QED BY <1>7, <3>1, <3>3, SendGone DEF FlushNext, tabVars, histVars
  <2> QED BY <2>1, <2>2
<1>8. ASSUME NEW f \in Flows, MergeWrite(f) PROVE GoneGrows
  BY <1>8, MergeWriteKeepsKnown DEF MergeWrite, GoneGrows, Gone, Sent, tabVars
<1>9. ASSUME NEW f \in Flows, Show(f) PROVE GoneGrows
  BY <1>9, ShowKeepsKnown DEF Show, GoneGrows, Gone, Sent
<1>10. ASSUME NEW x \in late, LateWrite(x) PROVE GoneGrows
  BY <1>10, LateWriteKeepsKnown DEF LateWrite, GoneGrows, Gone, Sent, tabVars
<1> QED BY <1>1, <1>2, <1>3, <1>4, <1>5, <1>6, <1>7, <1>8, <1>9, <1>10, RowsStayOrMove

-------------------------------------------------------------------------------
\* Handlers that are where they were, and one that is not on its way to the summary.
LEMMA RestFlushed ==
  ASSUME Flushed, GoneGrows, NEW g \in Flows, Unmoved(g) \/ Doing(g)' # "continue"
  PROVE  FlushedAt(g)'
BY DEF Flushed, FlushedAt, GoneGrows, Unmoved

LEMMA ToldFlushed ==
  ASSUME ScriptInv, Scores, Flushed, GoneGrows,
         \/ \E s \in Sections, r \in Typed : Edit(s, r)
         \/ \E s \in Sections : TimerFires(s)
         \/ \E p \in puts :
              \/ StorePut(p) \/ RefusePut(p) \/ AnswerPut(p) \/ FailPut(p) \/ LoseAnswer(p)
              \/ GiveUpPut(p)
  PROVE  \A g \in Flows : FlushedAt(g)'
<1>1. \A g \in Flows : Unmoved(g)
  <2>1. CASE flow' = flow
    BY <2>1, RestUnmoved DEF ScriptInv, Scores
  <2>2. CASE \E p \in puts : FailPut(p) \/ LoseAnswer(p) \/ GiveUpPut(p)
    BY <2>2, ToldUnmoved DEF ScriptInv, Scores, FailPut, LoseAnswer, GiveUpPut
  <2> QED BY <2>1, <2>2 DEF Edit, TimerFires, StorePut, RefusePut, AnswerPut
<1> QED BY <1>1, RestFlushed

LEMMA StartsFlushed ==
  ASSUME ScriptInv, Scores, Flushed, GoneGrows, NEW f \in Flows,
         (\E kind \in {"save", "continue", "merge"} : Click(f, kind)) \/ SyncTimerFires(f)
  PROVE  \A g \in Flows : FlushedAt(g)'
<1> USE DEF ScriptInv, Scores
<1>1. ASSUME NEW kind \in {"save", "continue", "merge"}, Click(f, kind)
      PROVE  \A g \in Flows : FlushedAt(g)'
  <2>1. kind \in Kinds /\ kind \notin SyncKinds /\ saveError \in BOOLEAN
    BY KindsAre DEF SyncKinds, TypeInv, Typing, FlagTypes
  <2>2. flow' = [flow EXCEPT ![f] = Starting(kind, saveError)] /\ made' = made
    BY <1>1 DEF Click, tabVars
  <2>3. /\ Others(f) /\ Doing(f)' = kind
        /\ kind = "continue" => ToDo(f)' = 5 /\ flow'[f].before = made
    BY <2>1, <2>2, Begins
  <2>4. FlushedAt(f)'
    BY <2>2, <2>3 DEF FlushedAt
  <2>5. \A g \in Flows : g # f => Unmoved(g)
    BY <2>3, OthersUnmoved
  <2> QED BY <2>4, <2>5, RestFlushed
<1>2. ASSUME SyncTimerFires(f)
      PROVE  \A g \in Flows : FlushedAt(g)'
  <2>1. CASE Syncing
    BY <1>2, <2>1, RestUnmoved, RestFlushed DEF SyncTimerFires
  <2>2. CASE ~Syncing
    <3>1. "sync" \in Kinds /\ syncDue.err \in BOOLEAN
      BY KindsAre DEF TypeInv, Typing, FlagTypes
    <3>2. flow' = [flow EXCEPT ![f] = Starting("sync", syncDue.err)]
      BY <1>2, <2>2 DEF SyncTimerFires
    <3>3. Others(f) /\ Doing(f)' = "sync"
      BY <2>2, <3>1, <3>2, Begins
    <3> QED BY <3>3, OthersUnmoved, RestFlushed
  <2> QED BY <2>1, <2>2
<1> QED BY <1>1, <1>2

\* The turns of the handler that continues to the summary, and of those that flush
\* beside it.
LEMMA FlushingFlushed ==
  ASSUME ScriptInv, Remembers, Scores, Flushed, GoneGrows, NEW f \in Flows,
         WaitEnds(f) \/ WaitGivesUp(f) \/ FlushKeys(f) \/ FlushNext(f) \/ Leave(f)
  PROVE  \A g \in Flows : FlushedAt(g)'
<1> USE DEF ScriptInv, Scores
<1>0. flow[f] # NoFlow
  BY DEF WaitEnds, WaitGivesUp, FlushKeys, FlushNext, Leave, At
<1>h. flow[f] \in Handlers
  BY <1>0, AtStage
<1>f. FlushedAt(f)
  BY DEF Flushed, FlushedAt
<1>m. \A s \in Sections : made[s] \subseteq Waiting(s) \cup Gone(s)
  BY DEF Remembers, TypedShown, ShownKept, Kept, Gone
<1>n. flow'[f] = NoFlow => Doing(f)' # "continue"
  BY DEF Doing
<1>1. CASE WaitEnds(f) \/ WaitGivesUp(f)
  <2>1. Doing(f) = "continue" => ToDo(f) \in {5, 2}
    BY <1>0, <1>1, AtStage DEF WaitEnds, WaitGivesUp, Stage
  <2>2. Step(f, flow[f])
    BY <1>1 DEF WaitEnds, WaitGivesUp
  <2>3. Others(f)
    BY <1>0, <1>h, <2>2, GoesOn
  <2>4. FlushedAt(f)'
    <3>1. CASE Doing(f)' = "continue"
      <4>1. Doing(f) = "continue" /\ ToDo(f)' = ToDo(f) - 1 /\ flow'[f].before = flow[f].before
        BY <1>0, <1>h, <1>n, <2>2, <3>1, GoesOn
      <4>2. ASSUME NEW s \in Sections
            PROVE  /\ flow'[f].before[s] \subseteq made'[s]
                   /\ ToDo(f)' <= 2 => flow'[f].before[s] \subseteq Gone(s)'
                   /\ ToDo(f)' # 3
        BY <1>f, <2>1, <4>1 DEF FlushedAt, GoneGrows
      <4> QED BY <4>2 DEF FlushedAt
    <3>2. CASE Doing(f)' # "continue"
      BY <3>2, RestFlushed
    <3> QED BY <3>1, <3>2
  <2> QED BY <2>3, <2>4, OthersUnmoved, RestFlushed
<1>2. CASE FlushKeys(f)
  <2>1. Doing(f) = "continue" => ToDo(f) = 4
    BY <1>0, <1>2, AtStage DEF FlushKeys, Stage
  <2>2. PICK x : x = [flow[f] EXCEPT !.keys = {s \in Sections : unsent[s] # NoPayload}]
    OBVIOUS
  <2>3. /\ x \in Handlers /\ x.kind = flow[f].kind /\ x.rest = flow[f].rest /\ x.before = flow[f].before
        /\ x.keys = {s \in Sections : unsent[s] # NoPayload}
    BY <1>h, <2>2 DEF Handlers
  <2>4. Step(f, x)
    BY <1>2, <2>2 DEF FlushKeys
  <2>5. Others(f)
    BY <1>0, <2>3, <2>4, GoesOn
  <2>6. FlushedAt(f)'
    <3>1. CASE Doing(f)' = "continue"
      <4>1. /\ Doing(f) = "continue" /\ ToDo(f)' = ToDo(f) - 1 /\ flow'[f].before = flow[f].before
            /\ flow'[f].keys = {s \in Sections : unsent[s] # NoPayload}
        BY <1>0, <1>n, <2>3, <2>4, <3>1, GoesOn
      <4>2. ToDo(f)' = 3
        BY <2>1, <4>1
      <4>3. ASSUME NEW s \in Sections
            PROVE  /\ flow'[f].before[s] \subseteq made'[s]
                   /\ s \notin flow'[f].keys => flow'[f].before[s] \subseteq Gone(s)'
        BY <1>f, <1>m, <4>1 DEF FlushedAt, GoneGrows, Waiting
      <4> QED BY <4>2, <4>3 DEF FlushedAt
    <3>2. CASE Doing(f)' # "continue"
      BY <3>2, RestFlushed
    <3> QED BY <3>1, <3>2
  <2> QED BY <2>5, <2>6, OthersUnmoved, RestFlushed
<1>3. CASE FlushNext(f)
  <2>1. Doing(f) = "continue" => ToDo(f) = 3
    BY <1>0, <1>3, AtStage DEF FlushNext, Stage
  <2>2. CASE flow[f].keys = {}
    <3>1. Step(f, flow[f])
      BY <1>3, <2>2 DEF FlushNext
    <3>2. Others(f)
      BY <1>0, <1>h, <3>1, GoesOn
    <3>3. FlushedAt(f)'
      <4>1. CASE Doing(f)' = "continue"
        <5>1. Doing(f) = "continue" /\ ToDo(f)' = ToDo(f) - 1 /\ flow'[f].before = flow[f].before
          BY <1>0, <1>h, <1>n, <3>1, <4>1, GoesOn
        <5>2. ASSUME NEW s \in Sections
              PROVE  flow'[f].before[s] \subseteq made'[s] /\ flow'[f].before[s] \subseteq Gone(s)'
          BY <1>f, <2>1, <2>2, <5>1 DEF FlushedAt, GoneGrows
        <5> QED BY <5>2 DEF FlushedAt
      <4>2. CASE Doing(f)' # "continue"
        BY <4>2, RestFlushed
      <4> QED BY <4>1, <4>2
    <3> QED BY <3>2, <3>3, OthersUnmoved, RestFlushed
  <2>3. CASE flow[f].keys # {}
    <3>1. PICK s \in flow[f].keys : flow' = [flow EXCEPT ![f].keys = @ \ {s}] /\ Send(s, f)
      BY <1>3, <2>3 DEF FlushNext
    <3>2. PICK x : x = [flow[f] EXCEPT !.keys = @ \ {s}]
      OBVIOUS
    <3>3. /\ x \in Handlers /\ x.kind = flow[f].kind /\ x.rest = flow[f].rest /\ x.before = flow[f].before
          /\ x.keys = flow[f].keys \ {s} /\ s \in Sections
      BY <1>h, <3>2 DEF Handlers
    <3>4. flow' = [flow EXCEPT ![f] = x]
      BY <3>1, <3>2
    <3>5. flow'[f] = x /\ Doing(f)' = Doing(f) /\ ToDo(f)' = ToDo(f) /\ Others(f)
      BY <1>0, <3>3, <3>4, Stays
    <3>6. Waiting(s) \subseteq Gone(s)'
      BY <1>3, <3>1, <3>3, SendGone DEF FlushNext, Gone, tabVars, histVars
    <3>7. FlushedAt(f)'
      <4> SUFFICES ASSUME Doing(f) = "continue", NEW y \in Sections
                   PROVE  /\ flow'[f].before[y] \subseteq made'[y]
                          /\ y \notin flow'[f].keys => flow'[f].before[y] \subseteq Gone(y)'
        BY <2>1, <3>5 DEF FlushedAt
      <4>1. flow[f].before[y] \subseteq made[y]
        BY <1>f DEF FlushedAt
      <4>2. CASE y = s
        BY <1>m, <3>3, <3>5, <3>6, <4>1, <4>2 DEF GoneGrows
      <4>3. CASE y # s
        <5>1. y \notin flow[f].keys => flow[f].before[y] \subseteq Gone(y)
          BY <1>f, <2>1 DEF FlushedAt
        <5> QED BY <3>3, <3>5, <4>1, <4>3, <5>1 DEF GoneGrows
      <4> QED BY <4>2, <4>3
    <3> QED BY <3>5, <3>7, OthersUnmoved, RestFlushed
  <2> QED BY <2>2, <2>3
<1>4. CASE Leave(f)
  <2>1. Others(f) /\ Doing(f)' # "continue"
    BY <1>4, <1>n, HandsOver, Stops DEF Leave, Stop
  <2> QED BY <2>1, OthersUnmoved, RestFlushed
<1> QED BY <1>1, <1>2, <1>3, <1>4

\* Syncs and merges.
LEMMA AsideFlushed ==
  ASSUME ScriptInv, Scores, Flushed, GoneGrows, NEW f \in Flows,
         \/ CheckSaved(f) \/ SyncRead(f) \/ SyncProject(f) \/ SyncFails(f) \/ SyncEnds(f)
         \/ MergeCompare(f) \/ MergeWrite(f) \/ MergeAnswered(f) \/ MergeFails(f)
         \/ Reload(f) \/ Show(f) \/ ReloadFails(f)
  PROVE  \A g \in Flows : FlushedAt(g)'
<1> USE DEF ScriptInv, Scores
<1>0. flow[f] # NoFlow
  BY DEF CheckSaved, SyncRead, SyncProject, SyncFails, SyncEnds,
         MergeCompare, MergeWrite, MergeAnswered, MergeFails, Reload, Show, ReloadFails, At
<1>h. flow[f] \in Handlers /\ stored \in Workbooks
  BY <1>0, AtStage DEF TypeInv, Typing, StoreTypes
<1>1. Doing(f) \in {"sync", "quick", "merge"}
  BY <1>0, AtStage
  DEF CheckSaved, SyncRead, SyncProject, SyncFails, SyncEnds,
      MergeCompare, MergeWrite, MergeAnswered, MergeFails, Reload, Show, ReloadFails, Stage
<1>n. flow'[f] = NoFlow => Doing(f)' # "continue"
  BY DEF Doing
<1>2. \A x \in Handlers :
        x.kind = flow[f].kind /\ x.rest = flow[f].rest /\ Step(f, x)
          => Others(f) /\ Doing(f)' # "continue"
  BY <1>0, <1>1, <1>n, GoesOn
<1>3. Stop(f) => Others(f) /\ Doing(f)' # "continue"
  BY <1>n, Stops DEF Stop
<1>4. ThenSync(f) => Others(f) /\ Doing(f)' # "continue"
  BY HandsOver
<1>5. Others(f) /\ Doing(f)' # "continue"
  <2>1. CASE CheckSaved(f) \/ SyncFails(f) \/ MergeFails(f) \/ Show(f) \/ ReloadFails(f)
             \/ SyncProject(f) \/ SyncEnds(f) \/ MergeAnswered(f)
    BY <1>h, <1>2, <1>3, <1>4, <2>1
    DEF CheckSaved, SyncFails, MergeFails, Show, ReloadFails, SyncProject, SyncEnds, MergeAnswered
  <2>2. CASE SyncRead(f) \/ Reload(f)
    <3>1. PICK x : x = [flow[f] EXCEPT !.copy = stored]
      OBVIOUS
    <3>2. x \in Handlers /\ x.kind = flow[f].kind /\ x.rest = flow[f].rest /\ Step(f, x)
      BY <1>h, <2>2, <3>1 DEF Handlers, SyncRead, Reload
    <3> QED BY <1>2, <3>2
  <2>3. CASE MergeCompare(f)
    <3>1. PICK x : x = [flow[f] EXCEPT !.copy = stored,
                                       !.keys = AddedTo]
      OBVIOUS
    <3>2. x \in Handlers /\ x.kind = flow[f].kind /\ x.rest = flow[f].rest /\ Step(f, x)
      BY <1>h, <2>3, <3>1, AddedToTypes DEF Handlers, MergeCompare
    <3> QED BY <1>2, <3>2
  <2>4. CASE MergeWrite(f)
    <3>1. PICK s \in flow[f].keys : flow' = [flow EXCEPT ![f].keys = @ \ {s}]
      BY <2>4 DEF MergeWrite
    <3>2. PICK x : x = [flow[f] EXCEPT !.keys = @ \ {s}]
      OBVIOUS
    <3>3. x \in Handlers /\ x.kind = flow[f].kind /\ x.rest = flow[f].rest
      BY <1>h, <3>2 DEF Handlers
    <3>4. flow' = [flow EXCEPT ![f] = x]
      BY <3>1, <3>2
    <3> QED BY <1>0, <1>1, <3>3, <3>4, Stays
  <2> QED BY <2>1, <2>2, <2>3, <2>4
<1> QED BY <1>5, OthersUnmoved, RestFlushed

LEMMA StepFlushed ==
  ASSUME ScriptInv, Remembers, Scores, Flushed, [AutosaveNext]_autosaveVars
  PROVE  Flushed'
<1>1. CASE AutosaveNext
  <2>1. GoneGrows
    BY <1>1, StepGone DEF ScriptInv
  <2>2. ASSUME NEW x \in late, LateRead(x) \/ LateProject(x) \/ LateWrite(x) \/ LateEnds(x)
        PROVE  \A g \in Flows : FlushedAt(g)'
    <3>1. flow' = flow
      BY <2>2 DEF LateRead, LateProject, LateWrite, LateEnds
    <3> QED BY <2>1, <3>1, RestUnmoved, RestFlushed DEF ScriptInv, Scores
  <2>3. \A g \in Flows : FlushedAt(g)'
    BY <1>1, <2>1, <2>2, ToldFlushed, StartsFlushed, FlushingFlushed, AsideFlushed
    DEF AutosaveNext, Machinery
  <2> QED BY <2>3 DEF Flushed
<1>2. CASE UNCHANGED autosaveVars
  <2>1. flow' = flow /\ UNCHANGED <<made, stored, missed, puts>>
    BY <1>2 DEF autosaveVars, tabVars, histVars
  <2>2. GoneGrows
    BY <2>1 DEF GoneGrows, Gone, Known, Sent
  <2>3. \A g \in Flows : FlushedAt(g)'
    BY <2>1, <2>2, RestUnmoved, RestFlushed DEF ScriptInv, Scores
  <2> QED BY <2>3 DEF Flushed
<1> QED BY <1>1, <1>2

LEMMA FlushedInit == ASSUME AutosaveInit PROVE Flushed
BY DEF AutosaveInit, Flushed, FlushedAt, Doing

\* A step that leaves.
LEMMA LeavingIsFlushed ==
  ASSUME ScriptInv, Flushed, AutosaveNext, ~left, left'
  PROVE  \E f \in Flows :
           /\ At(f, "leave")
           /\ \A s \in Sections : flow[f].before[s] \subseteq
                (UNION {p.rows : p \in {q \in puts : q.sec = s}}) \cup stored[s] \cup missed[s]
<1>1. PICK f \in Flows : Leave(f)
  BY DEF AutosaveNext, Machinery, Edit, Click, TimerFires, StorePut, RefusePut, AnswerPut, FailPut,
         LoseAnswer, GiveUpPut, LateRead, LateProject, LateWrite, LateEnds, SyncTimerFires, WaitEnds, WaitGivesUp, FlushKeys, FlushNext, CheckSaved,
         SyncRead, SyncProject, SyncFails, SyncEnds, MergeCompare, MergeWrite, MergeAnswered,
         MergeFails, Reload, Show, ReloadFails, tabVars
<1>2. At(f, "leave") /\ flow[f] # NoFlow
  BY <1>1 DEF Leave, At
<1>3. Doing(f) = "continue" /\ ToDo(f) = 1
  BY <1>2, AtStage DEF ScriptInv, Stage
<1>4. \A s \in Sections : flow[f].before[s] \subseteq Gone(s)
  BY <1>3 DEF Flushed, FlushedAt
<1>5. \A s \in Sections :
        Gone(s) \subseteq (UNION {p.rows : p \in {q \in puts : q.sec = s}}) \cup stored[s] \cup missed[s]
  BY DEF Gone, Sent, Known
<1> QED BY <1>2, <1>4, <1>5

\* Continue to Summary beside timers, syncs and merges that send and fail: nothing
\* typed before it waits in the tab when the user leaves.
THEOREM LeavesNothingWaiting == AutosaveSpec => NothingLeftWaiting
<1> DEFINE Inv == ScriptInv /\ Remembers /\ Scores /\ Flushed
<1>1. AutosaveInit => Inv
  BY TypeInvInit, RemembersInit, ScoresInit, FlushedInit DEF ScriptInv
<1>2. Inv /\ [AutosaveNext]_autosaveVars => Inv'
  BY StepKeepsTypes, StepRemembers, StutterRemembers, StepScores, StepFlushed DEF ScriptInv
<1>3. Inv /\ [AutosaveNext]_autosaveVars =>
        [~left /\ left' =>
           \E f \in Flows :
             /\ At(f, "leave")
             /\ \A s \in Sections : flow[f].before[s] \subseteq
                  (UNION {p.rows : p \in {q \in puts : q.sec = s}}) \cup stored[s] \cup missed[s]
        ]_autosaveVars
  BY LeavingIsFlushed
<1> QED
  <2> HIDE DEF Inv
  <2> QED BY <1>1, <1>2, <1>3, PTL DEF AutosaveSpec, NothingLeftWaiting
===============================================================================
