----------------------------- MODULE WebServices -----------------------------
(***************************************************************************)
(* Services of the web app that share its processes and its database and   *)
(* no state: payment notifications, refund pacing, audit retention,        *)
(* feedback mail and the ESG workbook.  Each behaviour is one of them at   *)
(* work while the others rest.                                             *)
(***************************************************************************)
EXTENDS TokenOrders, RefundPacing, AuditRetention, FeedbackNotifier,
        EsgWorkbook

VARIABLE service  \* the one at work

servicesVars == <<orderVars, pacingVars, auditVars, notifierVars, esgVars, service>>

ServicesInit ==
  /\ OrderInit /\ PacingInit /\ AuditInit /\ NotifierInit /\ EsgInit
  /\ service \in {"orders", "refunds", "audit", "feedback", "esg"}

ServicesNext ==
  /\ UNCHANGED service
  /\ \/ /\ service = "orders" /\ OrderNext
        /\ UNCHANGED <<pacingVars, auditVars, notifierVars, esgVars>>
     \/ /\ service = "refunds" /\ PacingNext
        /\ UNCHANGED <<orderVars, auditVars, notifierVars, esgVars>>
     \/ /\ service = "audit" /\ AuditNext
        /\ UNCHANGED <<orderVars, pacingVars, notifierVars, esgVars>>
     \/ /\ service = "feedback" /\ NotifierNext
        /\ UNCHANGED <<orderVars, pacingVars, auditVars, esgVars>>
     \/ /\ service = "esg" /\ EsgNext
        /\ UNCHANGED <<orderVars, pacingVars, auditVars, notifierVars>>

\* The fairness of those that have some; the actions it is about are disabled
\* while their service rests.
ServicesSpec ==
  /\ ServicesInit /\ [][ServicesNext]_servicesVars
  /\ \A o \in Orders : SF_orderVars(Post(<<o, "COMPLETE">>))
  /\ \A r \in Requests : WF_orderVars(Serve(r))
  /\ WF_notifierVars(Notifying)

-------------------------------------------------------------------------------
\* The type invariants of the five.
ServicesTypeOK == OrderTypeOK /\ PacingTypeOK /\ AuditTypeOK /\ NotifierTypeOK /\ EsgTypeOK
===============================================================================
