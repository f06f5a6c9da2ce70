--------------------------- MODULE FeedbackNotifier ---------------------------
(***************************************************************************)
(* Feedback reports mailed to the team (apps/web/server/feedbackNotifier): *)
(* the request that files a report tries once, and a sweep on every web    *)
(* replica tries again what is still owed.                                 *)
(*                                                                         *)
(* A delivery takes a slot of its replica's hourly budget, claims the      *)
(* report in the store, sends, and records the outcome; an await separates *)
(* any two.  Times are abstracted: a claim is fresh until ten minutes have *)
(* passed since its stamp, which may be while its holder is still sending, *)
(* for the mailer may be slow and a sweep stamps every claim with the time *)
(* the sweep began; a failed report waits for its back-off; a slot comes   *)
(* free an hour after it was taken.                                        *)
(***************************************************************************)
EXTENDS Integers, FiniteSets

CONSTANTS
  Reports,       \* feedback records, at most thirty days old
  Recipients,    \* addresses that are or will be on the list
  FirstList,     \* those on it when the model starts
  Replicas,      \* web replicas
  Lanes,         \* deliveries that may run at once on a replica
  MaxNotify,     \* MAX_NOTIFY_ATTEMPTS
  PerHour,       \* FEEDBACK_EMAILS_PER_HOUR
  CrashLimit     \* bound of the model on replicas stopping

ASSUME NotifierConstants ==
  /\ IsFiniteSet(Reports) /\ IsFiniteSet(Recipients)
  /\ FirstList \subseteq Recipients /\ FirstList # {}
  /\ IsFiniteSet(Replicas) /\ IsFiniteSet(Lanes)
  /\ MaxNotify \in Nat \ {0} /\ PerHour \in Nat \ {0}
  /\ CrashLimit \in Nat

VARIABLES
  filed,        \* reports saved
  notifiedTo,   \* to whom each report went
  claim,        \* notifyClaimedAt: none, fresh, or stale
  tried,        \* notifyAttempts
  backoff,      \* reports whose notifyNextAttemptAt is to come
  mailing,      \* getFeedbackRecipients: today's list
  delivery,     \* what each lane of each replica does next
  spent,        \* slots of each replica's budget taken in the last hour
  copies,       \* history: how often each recipient was sent each report
  overlaps,     \* history: claims taken over while the holder was still at it
  strays,       \* history: mails that went out and were not recorded
  crashes

notifierVars == <<filed, notifiedTo, claim, tried, backoff, mailing, delivery, spent,
                  copies, overlaps, strays, crashes>>

Slots == Replicas \X Lanes

NoDelivery == [at |-> "idle"]

NotifierTypeOK ==
  /\ filed \subseteq Reports
  /\ notifiedTo \in [Reports -> SUBSET Recipients]
  /\ claim \in [Reports -> {"none", "fresh", "stale"}]
  /\ tried \in [Reports -> 0..MaxNotify]
  /\ backoff \subseteq Reports
  /\ mailing \subseteq Recipients
  /\ delivery \in [Slots -> {NoDelivery} \cup [at : {"claim"}, of : Reports]
       \cup [at : {"send"}, of : Reports, missing : SUBSET Recipients]
       \cup [at : {"record"}, of : Reports, missing : SUBSET Recipients,
             sent : BOOLEAN, out : BOOLEAN]]
  /\ spent \in [Replicas -> 0..PerHour]
  /\ copies \in [Reports -> [Recipients -> Nat]]
  /\ overlaps \in [Reports -> Nat]
  /\ strays \in [Reports -> Nat]
  /\ crashes \in 0..CrashLimit

NotifierInit ==
  /\ filed = {}
  /\ notifiedTo = [r \in Reports |-> {}]
  /\ claim = [r \in Reports |-> "none"]
  /\ tried = [r \in Reports |-> 0]
  /\ backoff = {}
  /\ mailing = FirstList
  /\ delivery = [s \in Slots |-> NoDelivery]
  /\ spent = [p \in Replicas |-> 0]
  /\ copies = [r \in Reports |-> [c \in Recipients |-> 0]]
  /\ overlaps = [r \in Reports |-> 0]
  /\ strays = [r \in Reports |-> 0]
  /\ crashes = 0

-------------------------------------------------------------------------------
Owing(r) == r \in filed /\ ~(mailing \subseteq notifiedTo[r])

\* Mutated forms: the claim is not looked at; the last attempt is never made.
ClaimableByAny(r) == Owing(r) /\ tried[r] < MaxNotify /\ r \notin backoff

ClaimableEarlier(r) ==
  Owing(r) /\ tried[r] < MaxNotify - 1 /\ r \notin backoff /\ claim[r] # "fresh"

\* claimFilter and pendingFilter.
Claimable(r) ==
  Owing(r) /\ tried[r] < MaxNotify /\ r \notin backoff /\ claim[r] # "fresh"

\* deliverFeedbackNotification begins: reserveSend takes a slot.
Reserve(s, r) ==
  /\ delivery[s] = NoDelivery
  /\ spent[s[1]] < PerHour
  /\ spent' = [spent EXCEPT ![s[1]] = @ + 1]
  /\ delivery' = [delivery EXCEPT ![s] = [at |-> "claim", of |-> r]]

\* The feedback route: the report is saved, then delivered unless the hour's
\* budget is spent.
File(s, r) ==
  /\ r \notin filed
  /\ delivery[s] = NoDelivery
  /\ filed' = filed \cup {r}
  /\ IF spent[s[1]] < PerHour THEN Reserve(s, r) ELSE UNCHANGED <<delivery, spent>>
  /\ UNCHANGED <<notifiedTo, claim, tried, backoff, mailing, copies, overlaps, strays, crashes>>

\* sweepPendingFeedbackNotifications comes to a pending report.
Sweep(s, r) ==
  /\ Claimable(r)
  /\ Reserve(s, r)
  /\ UNCHANGED <<filed, notifiedTo, claim, tried, backoff, mailing, copies, overlaps, strays, crashes>>

AtIt(r) == {s \in Slots : delivery[s].at \in {"send", "record"} /\ delivery[s].of = r}

\* The claim, by one update with a filter.
Claim(s) ==
  /\ delivery[s].at = "claim"
  /\ LET r == delivery[s].of IN
     /\ Claimable(r)
     /\ claim' = [claim EXCEPT ![r] = "fresh"]
     /\ tried' = [tried EXCEPT ![r] = @ + 1]
     /\ overlaps' = [overlaps EXCEPT ![r] =
          IF claim[r] = "stale" /\ AtIt(r) # {} THEN @ + 1 ELSE @]
     /\ delivery' = [delivery EXCEPT ![s] =
          [at |-> "send", of |-> r, missing |-> mailing \ notifiedTo[r]]]
  /\ UNCHANGED <<filed, notifiedTo, backoff, mailing, spent, copies, strays, crashes>>

\* Mutated form: the slot is given back although the hour may have freed it.
ClaimFailsBlindly(s) ==
  /\ delivery[s].at = "claim"
  /\ ~Claimable(delivery[s].of)
  /\ delivery' = [delivery EXCEPT ![s] = NoDelivery]
  /\ spent' = [spent EXCEPT ![s[1]] = @ - 1]
  /\ UNCHANGED <<filed, notifiedTo, claim, tried, backoff, mailing, copies, overlaps, strays, crashes>>

\* It matches nothing: the slot is given back if it is still taken.
ClaimFails(s) ==
  /\ delivery[s].at = "claim"
  /\ ~Claimable(delivery[s].of)
  /\ delivery' = [delivery EXCEPT ![s] = NoDelivery]
  /\ spent' = [spent EXCEPT ![s[1]] = IF @ > 0 THEN @ - 1 ELSE 0]
  /\ UNCHANGED <<filed, notifiedTo, claim, tried, backoff, mailing, copies, overlaps, strays, crashes>>

\* sendFeedbackNotification: one mail to all of them.  It is accepted, refused,
\* or accepted without the answer arriving.
Send(s) ==
  /\ delivery[s].at = "send"
  /\ \E out, sent \in BOOLEAN :
       /\ sent => out
       /\ LET d == delivery[s] IN
          /\ copies' = [copies EXCEPT ![d.of] =
               [c \in Recipients |-> IF out /\ c \in d.missing THEN @[c] + 1 ELSE @[c]]]
          /\ delivery' = [delivery EXCEPT ![s] =
               [at |-> "record", of |-> d.of, missing |-> d.missing, sent |-> sent, out |-> out]]
  /\ UNCHANGED <<filed, notifiedTo, claim, tried, backoff, mailing, spent, overlaps, strays, crashes>>

\* The outcome is recorded and the claim cleared, whoever holds it by now.
Record(s) ==
  /\ delivery[s].at = "record"
  /\ LET d == delivery[s] IN
     /\ notifiedTo' = [notifiedTo EXCEPT ![d.of] = IF d.sent THEN @ \cup d.missing ELSE @]
     /\ backoff' = IF d.sent THEN backoff \ {d.of} ELSE backoff \cup {d.of}
     /\ claim' = [claim EXCEPT ![d.of] = "none"]
     /\ strays' = [strays EXCEPT ![d.of] = IF d.out /\ ~d.sent THEN @ + 1 ELSE @]
     /\ delivery' = [delivery EXCEPT ![s] = NoDelivery]
  /\ UNCHANGED <<filed, tried, mailing, spent, copies, overlaps, crashes>>

\* The replica stops, with its budget and whatever it was sending.
ReplicaDies(p) ==
  /\ crashes < CrashLimit
  /\ crashes' = crashes + 1
  /\ delivery' = [s \in Slots |-> IF s[1] = p THEN NoDelivery ELSE delivery[s]]
  /\ spent' = [spent EXCEPT ![p] = 0]
  /\ strays' = [r \in Reports |->
       strays[r] + Cardinality({s \in AtIt(r) : s[1] = p /\ delivery[s].at = "record" /\ delivery[s].out})]
  /\ UNCHANGED <<filed, notifiedTo, claim, tried, backoff, mailing, copies, overlaps>>

\* An address is added to the list.
AddRecipient(c) ==
  /\ c \notin mailing
  /\ mailing' = mailing \cup {c}
  /\ UNCHANGED <<filed, notifiedTo, claim, tried, backoff, delivery, spent, copies, overlaps, strays, crashes>>

\* Time: a claim grows stale, a back-off ends, a slot comes free.
ClaimAges(r) ==
  /\ claim[r] = "fresh"
  /\ claim' = [claim EXCEPT ![r] = "stale"]
  /\ UNCHANGED <<filed, notifiedTo, tried, backoff, mailing, delivery, spent, copies, overlaps, strays, crashes>>

BackoffEnds(r) ==
  /\ r \in backoff
  /\ backoff' = backoff \ {r}
  /\ UNCHANGED <<filed, notifiedTo, claim, tried, mailing, delivery, spent, copies, overlaps, strays, crashes>>

SlotFrees(p) ==
  /\ spent[p] > 0
  /\ spent' = [spent EXCEPT ![p] = @ - 1]
  /\ UNCHANGED <<filed, notifiedTo, claim, tried, backoff, mailing, delivery, copies, overlaps, strays, crashes>>

-------------------------------------------------------------------------------
\* The sweeps, the deliveries they begin, and time.
Notifying ==
  \/ \E s \in Slots :
       \/ \E r \in Reports : Sweep(s, r)
       \/ Claim(s) \/ ClaimFails(s) \/ Send(s) \/ Record(s)
  \/ \E r \in Reports : ClaimAges(r) \/ BackoffEnds(r)
  \/ \E p \in Replicas : SlotFrees(p)

NotifierNext ==
  \/ Notifying
  \/ \E s \in Slots, r \in Reports : File(s, r)
  \/ \E p \in Replicas : ReplicaDies(p)
  \/ \E c \in Recipients : AddRecipient(c)

NotifierSpec == NotifierInit /\ [][NotifierNext]_notifierVars

\* Sweeps run every five minutes, the mailer answers or times out, time passes.
FairNotifierSpec == NotifierSpec /\ WF_notifierVars(Notifying)

-------------------------------------------------------------------------------
(***************************************************************************)
(* Properties.                                                             *)
(***************************************************************************)

\* Nobody is sent a report again, save for each time its claim was taken over
\* from a delivery that was slow and not dead, and each mail that went out
\* unrecorded.  Two replicas, sweeps and requests that meet on a report, and a
\* slow delivery that clears another's claim, send nothing else twice.
CopiesAreAccounted ==
  \A r \in Reports, c \in Recipients : copies[r][c] <= 1 + overlaps[r] + strays[r]

\* Every report filed is sent to everyone on the list or runs out of attempts,
\* whoever joins the list, and although a replica may stop with a claim.
ReportsAreSettled ==
  []<>(\A r \in filed : mailing \subseteq notifiedTo[r] \/ tried[r] = MaxNotify)
===============================================================================
