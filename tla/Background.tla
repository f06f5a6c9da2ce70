------------------------------ MODULE Background ------------------------------
(***************************************************************************)
(* What goes on in the background: the walk the API replicas lease when    *)
(* they boot, the posts and drainers that keep a workbook in step, and the *)
(* timers and handlers of a tab that edits one.  The three share no state; *)
(* each behaviour is one of them at work while the others rest.            *)
(***************************************************************************)
EXTENDS JobLease, BackSync, WorkbookAutosave

VARIABLE activity  \* the one at work

backgroundVars == <<leaseVars, backVars, autosaveVars, activity>>

BackgroundInit ==
  /\ LeaseInit /\ BackSyncInit /\ AutosaveInit
  /\ activity \in {"walk", "sync", "editing"}

BackgroundNext ==
  /\ UNCHANGED activity
  /\ \/ activity = "walk" /\ LeaseNext /\ UNCHANGED <<backVars, autosaveVars>>
     \/ activity = "sync" /\ BackSyncNext /\ UNCHANGED <<leaseVars, autosaveVars>>
     \/ activity = "editing" /\ AutosaveNext /\ UNCHANGED <<leaseVars, backVars>>

\* The fairness of those that have some, while they are at work.
BackgroundSpec ==
  /\ BackgroundInit /\ [][BackgroundNext]_backgroundVars
  /\ WF_backVars(activity = "sync" /\ Delivery)
  /\ WF_autosaveVars(activity = "editing" /\ Machinery)

-------------------------------------------------------------------------------
\* The type invariants of the three.
BackgroundTypeOK == LeaseTypeOK /\ BackSyncTypeOK /\ AutosaveTypeOK
===============================================================================
