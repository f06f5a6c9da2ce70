---------------------------- MODULE AuditRetention ----------------------------
(***************************************************************************)
(* The audit trail of the web app: records stamped by the requests         *)
(* (securityAudit.ts), and the retention pass that seals closed days,      *)
(* archives them and deletes them in the end (auditRetention.ts).          *)
(*                                                                         *)
(* Both replicas run the pass after boot and daily.  A pass reads, uploads *)
(* and writes with an await between any two operations, so two passes      *)
(* interleave, and records are written all the while: the stamp is taken   *)
(* before the write, which the driver may hold back past midnight.         *)
(***************************************************************************)
EXTENDS Integers, FiniteSets

CONSTANTS
  AuditRecords, \* records, each stamped once
  Passes,       \* passes that may run at once: one per replica
  Retention,    \* AUDIT_RETENTION_DAYS
  ScanLimit,    \* closed days one pass looks at, latest first: 400 in the code
  PurgeLimit,   \* expired days one pass looks at, oldest first: 100 in the code
  LastDay,      \* bound of the model: the calendar stops here
  Archiving,    \* whether an archive is configured
  NoSeal        \* no document for a day in auditSeals

ASSUME AuditConstants ==
  /\ IsFiniteSet(AuditRecords)
  /\ Retention \in Nat \ {0}
  /\ ScanLimit \in Nat \ {0} /\ PurgeLimit \in Nat \ {0}
  /\ LastDay \in Nat
  /\ Archiving \in BOOLEAN
  /\ NoSeal \notin [records : SUBSET AuditRecords, archived : BOOLEAN]

VARIABLES
  stampOf,    \* the day of each record's timestamp, -1 before it is taken
  inStore,    \* records in auditLogs
  buffered,   \* records stamped, whose write has not reached the store
  seals,      \* the seal of each day
  blobs,      \* the records in each day's blob of the archive
  pass,       \* what each pass does next
  today,      \* the calendar
  purged,     \* history: records a pass deleted
  late,       \* history: records stored after some pass had read their day
  uploads     \* history: whether each day's blob was uploaded, and uploaded again

auditVars ==
  <<stampOf, inStore, buffered, seals, blobs, pass, today, purged, late, uploads>>

Calendar == 0..LastDay

NoPass == [at |-> "idle"]

Seals == [records : SUBSET AuditRecords, archived : BOOLEAN]

\* Where a pass stands: the days still to do, and of the day it is at what it
\* has read and whether that is archived.
PassStates == {NoPass}
  \cup [at : {"check", "purge"}, asOf : Calendar, days : SUBSET Calendar]
  \cup [at : {"read"}, asOf : Calendar, days : SUBSET Calendar, day : Calendar]
  \cup [at : {"upload"}, asOf : Calendar, days : SUBSET Calendar, day : Calendar,
        records : SUBSET AuditRecords]
  \cup [at : {"insert"}, asOf : Calendar, days : SUBSET Calendar, day : Calendar,
        records : SUBSET AuditRecords, archived : BOOLEAN]

AuditTypeOK ==
  /\ stampOf \in [AuditRecords -> -1..LastDay]
  /\ inStore \subseteq AuditRecords
  /\ buffered \subseteq AuditRecords
  /\ seals \in [Calendar -> Seals \cup {NoSeal}]
  /\ blobs \in [Calendar -> SUBSET AuditRecords]
  /\ pass \in [Passes -> PassStates]
  /\ today \in Calendar
  /\ purged \subseteq AuditRecords
  /\ late \subseteq AuditRecords
  /\ uploads \in [Calendar -> {"never", "once", "again"}]

AuditInit ==
  /\ stampOf = [r \in AuditRecords |-> -1]
  /\ inStore = {} /\ buffered = {}
  /\ seals = [d \in Calendar |-> NoSeal]
  /\ blobs = [d \in Calendar |-> {}]
  /\ pass = [p \in Passes |-> NoPass]
  /\ today = 0
  /\ purged = {} /\ late = {} /\ uploads = [d \in Calendar |-> "never"]

-------------------------------------------------------------------------------
On(d) == {r \in inStore : stampOf[r] = d}

\* recordAudit: the record is stamped and signed, then its write is issued.
Stamp(r) ==
  /\ stampOf[r] = -1
  /\ stampOf' = [stampOf EXCEPT ![r] = today]
  /\ buffered' = buffered \cup {r}
  /\ UNCHANGED <<inStore, seals, blobs, pass, today, purged, late, uploads>>

\* Days some pass has read for its seal, or has sealed.
ReadDays ==
  {d \in Calendar : \/ seals[d] # NoSeal
                    \/ \E p \in Passes : pass[p].at \in {"upload", "insert"} /\ pass[p].day = d}

\* The write lands, however late, even after the caller stopped waiting for it.
Land(r) ==
  /\ r \in buffered
  /\ buffered' = buffered \ {r}
  /\ inStore' = inStore \cup {r}
  /\ late' = IF stampOf[r] \in ReadDays THEN late \cup {r} ELSE late
  /\ UNCHANGED <<stampOf, seals, blobs, pass, today, purged, uploads>>

\* The write fails: the structured log alone has the event.
LoseWrite(r) ==
  /\ r \in buffered
  /\ buffered' = buffered \ {r}
  /\ UNCHANGED <<stampOf, inStore, seals, blobs, pass, today, purged, late, uploads>>

Latest(n, D) == {d \in D : Cardinality({e \in D : e > d}) < n}

Oldest(n, D) == {d \in D : Cardinality({e \in D : e < d}) < n}

\* runRetentionPass begins: the closed days that have records, by today's date.
StartPass(p) ==
  /\ pass[p] = NoPass
  /\ pass' = [pass EXCEPT ![p] =
       [at |-> "check", asOf |-> today,
        days |-> Latest(ScanLimit, {d \in Calendar : d < today /\ On(d) # {}})]]
  /\ UNCHANGED <<stampOf, inStore, buffered, seals, blobs, today, purged, late, uploads>>

\* The latest of the remaining days; a day that has a seal is passed over.
CheckSeal(p) ==
  /\ pass[p].at = "check"
  /\ \E d \in pass[p].days :
       /\ \A e \in pass[p].days : e <= d
       /\ pass' = [pass EXCEPT ![p] =
            IF seals[d] # NoSeal
            THEN [at |-> "check", asOf |-> @.asOf, days |-> @.days \ {d}]
            ELSE [at |-> "read", asOf |-> @.asOf, days |-> @.days \ {d}, day |-> d]]
  /\ UNCHANGED <<stampOf, inStore, buffered, seals, blobs, today, purged, late, uploads>>

\* computeDayDigest: the records the seal and the archive will be of.
ReadDay(p) ==
  /\ pass[p].at = "read"
  /\ pass' = [pass EXCEPT ![p] =
       [at |-> "upload", asOf |-> @.asOf, days |-> @.days, day |-> @.day, records |-> On(@.day)]]
  /\ UNCHANGED <<stampOf, inStore, buffered, seals, blobs, today, purged, late, uploads>>

Uploaded(p, ok) ==
  pass' = [pass EXCEPT ![p] = [at |-> "insert", asOf |-> @.asOf, days |-> @.days, day |-> @.day,
                               records |-> @.records, archived |-> ok]]

\* archiveDay: one blob per day, whatever it held before.
Upload(p) ==
  /\ pass[p].at = "upload"
  /\ Archiving
  /\ blobs' = [blobs EXCEPT ![pass[p].day] = pass[p].records]
  /\ uploads' = [uploads EXCEPT ![pass[p].day] = IF @ = "never" THEN "once" ELSE "again"]
  /\ Uploaded(p, TRUE)
  /\ UNCHANGED <<stampOf, inStore, buffered, seals, today, purged, late>>

\* No archive is configured, or the upload fails and leaves the blob as it was.
UploadFails(p) ==
  /\ pass[p].at = "upload"
  /\ Uploaded(p, FALSE)
  /\ UNCHANGED <<stampOf, inStore, buffered, seals, blobs, today, purged, late, uploads>>

Sealing(p) == [records |-> pass[p].records, archived |-> pass[p].archived]

BackToCheck(p) ==
  pass' = [pass EXCEPT ![p] = [at |-> "check", asOf |-> @.asOf, days |-> @.days]]

\* Mutated form: the seal is set, not set on insert.
OverwriteSeal(p) ==
  /\ pass[p].at = "insert"
  /\ seals' = [seals EXCEPT ![pass[p].day] = Sealing(p)]
  /\ BackToCheck(p)
  /\ UNCHANGED <<stampOf, inStore, buffered, blobs, today, purged, late, uploads>>

\* $setOnInsert: the first seal of a day stands.
InsertSeal(p) ==
  /\ pass[p].at = "insert"
  /\ seals' = [seals EXCEPT ![pass[p].day] = IF @ = NoSeal THEN Sealing(p) ELSE @]
  /\ BackToCheck(p)
  /\ UNCHANGED <<stampOf, inStore, buffered, blobs, today, purged, late, uploads>>

\* All closed days done: the days past retention that still have records.
ListExpired(p) ==
  /\ pass[p].at = "check"
  /\ pass[p].days = {}
  /\ pass' = [pass EXCEPT ![p] =
       [at |-> "purge", asOf |-> @.asOf,
        days |-> Oldest(PurgeLimit, {d \in Calendar : d < @.asOf - Retention /\ On(d) # {}})]]
  /\ UNCHANGED <<stampOf, inStore, buffered, seals, blobs, today, purged, late, uploads>>

\* Mutated forms: deleted by age alone; and without the archive.
MayPurgeByAge(d) == TRUE

MayPurgeSealed(d) == seals[d] # NoSeal

MayPurge(d) == seals[d] # NoSeal /\ (Archiving => seals[d].archived)

\* The oldest expired day: kept unless sealed and archived, else all of its
\* records deleted by their time.
PurgeDay(p) ==
  /\ pass[p].at = "purge"
  /\ \E d \in pass[p].days :
       /\ \A e \in pass[p].days : d <= e
       /\ pass' = [pass EXCEPT ![p] =
            [at |-> "purge", asOf |-> @.asOf, days |-> @.days \ {d}]]
       /\ inStore' = IF MayPurge(d) THEN inStore \ On(d) ELSE inStore
       /\ purged' = IF MayPurge(d) THEN purged \cup On(d) ELSE purged
  /\ UNCHANGED <<stampOf, buffered, seals, blobs, today, late, uploads>>

\* The pass is over, at its end or wherever an operation threw or the process died.
PassEnds(p) ==
  /\ pass[p] # NoPass
  /\ pass' = [pass EXCEPT ![p] = NoPass]
  /\ UNCHANGED <<stampOf, inStore, buffered, seals, blobs, today, purged, late, uploads>>

Midnight ==
  /\ today < LastDay
  /\ today' = today + 1
  /\ UNCHANGED <<stampOf, inStore, buffered, seals, blobs, pass, purged, late, uploads>>

AuditNext ==
  \/ \E r \in AuditRecords : Stamp(r) \/ Land(r) \/ LoseWrite(r)
  \/ \E p \in Passes :
       \/ StartPass(p) \/ CheckSeal(p) \/ ReadDay(p) \/ Upload(p) \/ UploadFails(p)
       \/ InsertSeal(p) \/ ListExpired(p) \/ PurgeDay(p) \/ PassEnds(p)
  \/ Midnight

AuditSpec == AuditInit /\ [][AuditNext]_auditVars

-------------------------------------------------------------------------------
(***************************************************************************)
(* Properties.                                                             *)
(***************************************************************************)

\* Retention deletes nothing that has not been sealed first: the day of every
\* deleted record has a seal, and the seal accounts for the record unless its
\* write reached the store after a pass had read the day.
PurgedIsAccountedFor ==
  \A r \in purged :
    /\ seals[stampOf[r]] # NoSeal
    /\ r \in seals[stampOf[r]].records \cup late

\* Where an archive is configured, what retention deleted is still in it,
\* unless it was late, or a second pass wrote the day's blob over the first's.
PurgedIsArchived ==
  Archiving => \A r \in purged :
    r \in late \/ uploads[stampOf[r]] = "again" \/ r \in blobs[stampOf[r]]

\* A seal is evidence: no pass changes one that stands, on whichever replica
\* and from whichever reading of the day it comes.
SealsAreFinal ==
  [][ \A d \in Calendar : seals[d] # NoSeal => seals'[d] = seals[d] ]_auditVars

\* What the comment on startAuditRetentionJob says: a duplicate run on the
\* other replica is harmless.  A record that was in the store when its day was
\* first read, and that retention has deleted, is in the archive.
DuplicateRunIsHarmless ==
  Archiving => \A r \in purged : r \in late \/ r \in blobs[stampOf[r]]
===============================================================================
