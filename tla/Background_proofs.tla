--------------------------- MODULE Background_proofs ---------------------------
(***************************************************************************)
(* What goes on in the background (module Background), each activity proved*)
(* for every value of its constants, and the three side by side.  Those of *)
(* the editing tab are in WorkbookAutosave_proofs.                         *)
(***************************************************************************)
EXTENDS Background, WorkbookAutosave_proofs, FiniteSetTheorems

-------------------------------------------------------------------------------
(***************************************************************************)
(* The lease excludes, for any number of containers and of restarts, any   *)
(* names, any term and any length of run.                                  *)
(*                                                                         *)
(* Mutual exclusion alone is not inductive.  It rests on what a holder may *)
(* assume of the document while its term runs (TermIsLease), on a name in  *)
(* the document meaning the process that bears it now (NameIsProcess), and *)
(* on the container runtime, which never runs two processes under one name *)
(* (OneLifeAtATime).                                                       *)
(***************************************************************************)
Alive(p) == job[p] \notin {"off", "dead"}

StampsArePast == \A p \in Processes : stamp[p] <= clock

OneLifeAtATime ==
  \A p, q \in Processes : Alive(p) /\ Alive(q) /\ NameOf[p] = NameOf[q] => p = q

TermIsLease ==
  \A p \in Processes : Holds(p) /\ TermEnd(p) > clock => lease = LeaseOf(p)

NameIsProcess ==
  \A p \in Processes :
    Holds(p) /\ lease # NoLease /\ lease.holder = NameOf[p] => lease = LeaseOf(p)

LeaseInv ==
  /\ LeaseTypeOK
  /\ StampsArePast
  /\ OneLifeAtATime
  /\ TermIsLease
  /\ NameIsProcess

\* A lease a process asks for is a lease document.
LEMMA LeaseOfType ==
  ASSUME LeaseTypeOK, NEW p \in Processes
  PROVE  /\ LeaseOf(p) \in [holder : Names, expiresAt : Nat]
         /\ LeaseOf(p) # NoLease
         /\ TermEnd(p) \in Nat
BY LeaseConstants DEF LeaseTypeOK, LeaseOf, TermEnd, Names

\* The fields of that document.
LEMMA LeaseOfFields ==
  ASSUME NEW p \in Processes
  PROVE  LeaseOf(p).holder = NameOf[p] /\ LeaseOf(p).expiresAt = TermEnd(p)
BY DEF LeaseOf

\* The initial state has no lease and no process.
LEMMA LeaseInvInit == LeaseInit => LeaseInv
BY LeaseConstants DEF LeaseInit, LeaseInv, LeaseTypeOK, StampsArePast, OneLifeAtATime,
   TermIsLease, NameIsProcess, Holds, Alive, Stages

\* A step that only moves one living process on, or ends it, from anywhere
\* but a place where it holds the lease to a place where it does not.
LEMMA LeaseInvMove ==
  ASSUME LeaseInv, NEW p \in Processes, NEW s \in Stages,
         job' = [job EXCEPT ![p] = s],
         Holds(p) \/ s \notin {"working", "releasing"},
         Alive(p) \/ s = "dead",
         UNCHANGED <<lease, stamp, clock>>
  PROVE  LeaseInv'
<1>1. LeaseTypeOK'
  BY DEF LeaseInv, LeaseTypeOK
<1>2. \A q \in Processes : Alive(q)' => Alive(q)
  BY DEF LeaseInv, LeaseTypeOK, Alive
<1>3. \A q \in Processes : Holds(q)' => Holds(q)
  BY DEF LeaseInv, LeaseTypeOK, Holds
<1>4. StampsArePast' /\ OneLifeAtATime'
  BY <1>2 DEF LeaseInv, StampsArePast, OneLifeAtATime
<1>5. TermIsLease' /\ NameIsProcess'
  BY <1>3 DEF LeaseInv, TermIsLease, NameIsProcess, TermEnd, LeaseOf
<1> QED BY <1>1, <1>4, <1>5 DEF LeaseInv

\* Every step keeps the invariant.
LEMMA LeaseInvNext == LeaseInv /\ [LeaseNext]_leaseVars => LeaseInv'
<1> SUFFICES ASSUME LeaseInv, [LeaseNext]_leaseVars PROVE LeaseInv'
  OBVIOUS
<1> USE DEF Turn
<1>1. ASSUME NEW p \in Processes, Boot(p) PROVE LeaseInv'
  <2>1. LeaseTypeOK'
    BY <1>1 DEF LeaseInv, LeaseTypeOK, Boot, Stages
  <2>2. \A q \in Processes : Holds(q)' => Holds(q)
    BY <1>1 DEF LeaseInv, LeaseTypeOK, Boot, Holds
  <2>3. \A q \in Processes : q # p => (Alive(q)' <=> Alive(q))
    BY <1>1 DEF LeaseInv, LeaseTypeOK, Boot, Alive
  <2>4. \A q \in Processes : NameOf[q] = NameOf[p] => ~Alive(q)
    BY <1>1 DEF Boot, Alive
  <2>5. OneLifeAtATime'
    BY <2>3, <2>4 DEF LeaseInv, OneLifeAtATime
  <2> QED
    BY <1>1, <2>1, <2>2, <2>5
    DEF LeaseInv, Boot, StampsArePast, TermIsLease, NameIsProcess, TermEnd, LeaseOf
<1>2. ASSUME NEW p \in Processes, Disabled(p) PROVE LeaseInv'
  BY <1>2, LeaseInvMove DEF Disabled, Alive, Stages
<1>3. ASSUME NEW p \in Processes, Ask(p) PROVE LeaseInv'
  <2>1. LeaseTypeOK'
    BY <1>3 DEF LeaseInv, LeaseTypeOK, Ask, Stages
  <2>2. \A q \in Processes : Holds(q)' => Holds(q) /\ stamp'[q] = stamp[q]
    BY <1>3 DEF LeaseInv, LeaseTypeOK, Ask, Holds
  <2>3. \A q \in Processes : Alive(q)' => Alive(q)
    BY <1>3 DEF LeaseInv, LeaseTypeOK, Ask, Alive
  <2>4. StampsArePast'
    BY <1>3 DEF LeaseInv, LeaseTypeOK, Ask, StampsArePast
  <2>5. OneLifeAtATime'
    BY <2>3 DEF LeaseInv, OneLifeAtATime
  <2>6. TermIsLease' /\ NameIsProcess'
    BY <1>3, <2>2 DEF LeaseInv, Ask, TermIsLease, NameIsProcess, TermEnd, LeaseOf
  <2> QED BY <2>1, <2>4, <2>5, <2>6 DEF LeaseInv
\* Acquiring, knowingly or not, replaces a lease that has run out.
<1>4. ASSUME NEW p \in Processes, job[p] = "asking", FreeFor(p), lease' = LeaseOf(p),
             NEW s \in {"working", "done"}, job' = [job EXCEPT ![p] = s],
             UNCHANGED <<stamp, clock>>
      PROVE  LeaseInv'
  <2>1. LeaseTypeOK'
    BY <1>4, LeaseOfType DEF LeaseInv, LeaseTypeOK, Stages
  <2>2. \A q \in Processes : q # p => (Holds(q)' <=> Holds(q)) /\ (Alive(q)' <=> Alive(q))
    BY <1>4 DEF LeaseInv, LeaseTypeOK, Holds, Alive
  <2>3. Alive(p)
    BY <1>4 DEF Alive
  <2>4. StampsArePast' /\ OneLifeAtATime'
    BY <1>4, <2>2, <2>3 DEF LeaseInv, StampsArePast, OneLifeAtATime
  <2>5. TermIsLease'
    <3> SUFFICES ASSUME NEW q \in Processes, Holds(q)', TermEnd(q) > clock PROVE q = p
      BY <1>4 DEF TermIsLease, TermEnd, LeaseOf
    <3> SUFFICES ASSUME q # p PROVE FALSE
      OBVIOUS
    <3>1. lease = LeaseOf(q)
      BY <2>2 DEF LeaseInv, TermIsLease
    <3>2. TermEnd(q) <= stamp[p]
      BY <1>4, <3>1, LeaseOfType, LeaseOfFields DEF LeaseInv, FreeFor
    <3> QED BY <3>2, LeaseOfType DEF LeaseInv, LeaseTypeOK, StampsArePast
  <2>6. NameIsProcess'
    <3> SUFFICES ASSUME NEW q \in Processes, Holds(q)', LeaseOf(p).holder = NameOf[q] PROVE q = p
      BY <1>4 DEF NameIsProcess, LeaseOf, TermEnd
    <3>1. q # p => Alive(q)
      BY <2>2 DEF Holds, Alive
    <3> QED BY <2>3, <3>1, LeaseOfFields DEF LeaseInv, OneLifeAtATime
  <2> QED BY <2>1, <2>4, <2>5, <2>6 DEF LeaseInv
<1>5. ASSUME NEW p \in Processes, Acquire(p) PROVE LeaseInv'
  BY <1>4, <1>5 DEF Acquire
<1>6. ASSUME NEW p \in Processes, StandDown(p) PROVE LeaseInv'
  <2>1. CASE UNCHANGED lease
    BY <1>6, <2>1, LeaseInvMove DEF StandDown, Alive, Stages
  <2>2. CASE FreeFor(p) /\ lease' = LeaseOf(p)
    BY <1>4, <1>6, <2>2 DEF StandDown
  <2> QED BY <1>6, <2>1, <2>2 DEF StandDown
<1>7. ASSUME NEW p \in Processes, Finish(p) PROVE LeaseInv'
  BY <1>7, LeaseInvMove DEF Finish, Alive, Holds, Stages
<1>8. ASSUME NEW p \in Processes, Release(p) PROVE LeaseInv'
  <2>1. CASE UNCHANGED lease
    BY <1>8, <2>1, LeaseInvMove DEF Release, Alive, Stages
  <2>2. CASE lease # NoLease /\ lease.holder = NameOf[p] /\ lease' = NoLease
    <3>1. LeaseTypeOK'
      BY <1>8, <2>2 DEF LeaseInv, LeaseTypeOK, Release, Stages
    <3>2. \A q \in Processes : Alive(q)' => Alive(q)
      BY <1>8 DEF LeaseInv, LeaseTypeOK, Release, Alive
    <3>3. \A q \in Processes : Holds(q)' => Holds(q) /\ q # p
      BY <1>8 DEF LeaseInv, LeaseTypeOK, Release, Holds
    <3>4. StampsArePast' /\ OneLifeAtATime'
      BY <1>8, <3>2 DEF LeaseInv, Release, StampsArePast, OneLifeAtATime
    <3>5. TermIsLease'
      <4> SUFFICES ASSUME NEW q \in Processes, Holds(q)', TermEnd(q) > clock PROVE FALSE
        BY <1>8 DEF Release, TermIsLease, TermEnd
      <4>1. lease = LeaseOf(q)
        BY <3>3 DEF LeaseInv, TermIsLease
      <4>2. NameOf[q] = NameOf[p]
        BY <2>2, <4>1, LeaseOfFields
      <4>3. Alive(p) /\ Alive(q)
        BY <1>8, <3>3 DEF Release, Holds, Alive
      <4> QED BY <3>3, <4>2, <4>3 DEF LeaseInv, OneLifeAtATime
    <3>6. NameIsProcess'
      BY <2>2 DEF NameIsProcess
    <3> QED BY <3>1, <3>4, <3>5, <3>6 DEF LeaseInv
  <2> QED BY <1>8, <2>1, <2>2 DEF Release
<1>9. ASSUME NEW p \in Processes, LifeEnds(p) PROVE LeaseInv'
  BY <1>9, LeaseInvMove DEF LifeEnds, Alive, Stages
<1>10. ASSUME ClockTick PROVE LeaseInv'
  <2>1. LeaseTypeOK' /\ StampsArePast'
    BY <1>10, LeaseConstants DEF LeaseInv, LeaseTypeOK, ClockTick, StampsArePast
  <2>2. \A p \in Processes : TermEnd(p)' > clock' => TermEnd(p) > clock
    BY <1>10, LeaseOfType, LeaseConstants DEF LeaseInv, LeaseTypeOK, ClockTick, TermEnd
  <2>3. TermIsLease' /\ NameIsProcess' /\ OneLifeAtATime'
    BY <1>10, <2>2
    DEF LeaseInv, ClockTick, TermIsLease, NameIsProcess, OneLifeAtATime, Holds, Alive, LeaseOf, TermEnd
  <2> QED BY <2>1, <2>3 DEF LeaseInv
<1>11. CASE UNCHANGED leaseVars
  BY <1>11 DEF leaseVars, LeaseInv, LeaseTypeOK, StampsArePast, OneLifeAtATime, TermIsLease,
     NameIsProcess, Holds, Alive, LeaseOf, TermEnd
<1> QED
  BY <1>1, <1>2, <1>3, <1>5, <1>6, <1>7, <1>8, <1>9, <1>10, <1>11 DEF LeaseNext

\* The strengthened invariant holds of every reachable state.
THEOREM LeaseInvariant == LeaseSpec => []LeaseInv
BY LeaseInvInit, LeaseInvNext, PTL DEF LeaseSpec

\* The lease document, the stages, the stamps and the clock keep their types
\* (jobLease.ts, the schema JobLeaseModel).
THEOREM LeaseTypes == LeaseSpec => []LeaseTypeOK
<1>1. LeaseInv => LeaseTypeOK
  BY DEF LeaseInv
<1> QED BY <1>1, LeaseInvariant, PTL

\* acquireJobLease returns true only for the replica that holds the lease: two
\* processes never walk within their terms.
THEOREM LeaseExcludes == LeaseSpec => []OneWalkPerTerm
<1>1. LeaseInv => OneWalkPerTerm
  <2> SUFFICES ASSUME LeaseInv, NEW p \in Processes, NEW q \in Processes, Holds(p), Holds(q),
                      TermEnd(p) > clock, TermEnd(q) > clock
               PROVE  p = q
    BY DEF OneWalkPerTerm
  <2>1. LeaseOf(p) = LeaseOf(q)
    BY DEF LeaseInv, TermIsLease
  <2>2. NameOf[p] = NameOf[q]
    BY <2>1, LeaseOfFields
  <2>3. Alive(p) /\ Alive(q)
    BY DEF Holds, Alive
  <2> QED BY <2>2, <2>3 DEF LeaseInv, OneLifeAtATime
<1> QED BY <1>1, LeaseInvariant, PTL

\* releaseJobLease deletes the caller's own lease or none at all.
THEOREM LeaseReleases == LeaseSpec => ReleasesItsOwn
<1>1. LeaseInv /\ [LeaseNext]_leaseVars =>
        [ \A p \in Processes :
            Release(p) /\ lease' = NoLease /\ lease # NoLease => lease = LeaseOf(p) ]_leaseVars
  <2> SUFFICES ASSUME LeaseInv, NEW p \in Processes, Release(p), lease' = NoLease, lease # NoLease
               PROVE  lease = LeaseOf(p)
    OBVIOUS
  <2>1. lease.holder = NameOf[p]
    BY DEF Release
  <2>2. Holds(p)
    BY DEF Release, Turn, Holds
  <2> QED BY <2>1, <2>2 DEF LeaseInv, NameIsProcess
<1> QED BY <1>1, LeaseInvariant, PTL DEF LeaseSpec, ReleasesItsOwn

-------------------------------------------------------------------------------
(***************************************************************************)
(* The back-sync, for any records, keys and ways they share them.  The last*)
(* write under a key is secure - stored, in the memory of a web replica    *)
(* that will store it, or excused - or it is queued with a post or an open *)
(* entry of the outbox (LastIsOnItsWay).  An entry is closed for an answer,*)
(* and an answer that says yes is of a payload that was secure             *)
(* (AnsweredIsSecure); that a write under the key finds no answer to       *)
(* itself rests on nothing being heard of before it is written             *)
(* (AllWritten), and that a batch leaves one row where it met one, on every*)
(* payload in it taking a row (BatchesTake).                               *)
(***************************************************************************)
Written(p) == p[2] \in 1..version[p[1]]

BackTypes ==
  /\ version \in [Entities -> Nat] /\ \A e \in Entities : version[e] \in 0..Len(KeyOf[e])
  /\ posts \subseteq Payloads
  /\ outbox \in [Payloads -> [attempts : 0..MaxAttempts + 1, due : BOOLEAN]]
  /\ draining \in [Drainers -> [todo : SUBSET (Payloads \X (1..MaxAttempts)),
                                result : SUBSET (Payloads \X (1..MaxAttempts) \X BOOLEAN)]]
  /\ pending \in [Webs -> Batches]
  /\ flush \in [Webs -> {NoFlush} \cup [batch : Batches, read : SectionStates]]
  /\ rows \in SectionStates
  /\ draft = NoDraft \/ draft \in SectionStates
  /\ latest \in [RowKeys -> Payloads \cup {NoWrite}]
  /\ \A k \in RowKeys : latest[k] # NoWrite => Key(latest[k]) = k
  /\ excused \subseteq RowKeys
  /\ spent \in 0..Budget

DueAreOpen == \A p \in Payloads : outbox[p].due => outbox[p].attempts \in 1..MaxAttempts

\* No version is heard of before it is written.
AllWritten ==
  /\ \A p \in posts : Written(p)
  /\ \A p \in Payloads : outbox[p].attempts > 0 => Written(p)
  /\ \A d \in Drainers : /\ \A t \in draining[d].todo : Written(t[1])
                         /\ \A t \in draining[d].result : Written(t[1])

\* A batch that has a payload for a key takes a row of it away.
Takes(batch) == \A k \in RowKeys : batch[k].by # NoWrite => batch[k].takes > 0

BatchesTake ==
  \A w \in Webs : Takes(pending[w]) /\ (flush[w] # NoFlush => Takes(flush[w].batch))

InMemory(k) ==
  \E w \in Webs : \/ pending[w][k].by = latest[k]
                  \/ flush[w] # NoFlush /\ flush[w].batch[k].by = latest[k]

\* The last write under key k is stored, about to be, or excused.
Secure(k) == IsCurrent(k) \/ k \in excused \/ InMemory(k)

Queued(p) == p \in posts \/ outbox[p].attempts \in 1..MaxAttempts

LastIsOnItsWay ==
  \A k \in RowKeys : latest[k] # NoWrite => Secure(k) \/ Queued(latest[k])

AnsweredIsSecure ==
  \A d \in Drainers : \A t \in draining[d].result :
    t[3] /\ t[1] = latest[Key(t[1])] => Secure(Key(t[1]))

BackSyncInv ==
  /\ BackTypes
  /\ DueAreOpen
  /\ AllWritten
  /\ BatchesTake
  /\ LastIsOnItsWay
  /\ AnsweredIsSecure

-------------------------------------------------------------------------------
LEMMA BackSyncNumbers == MaxAttempts \in Nat /\ MaxAttempts > 0 /\ Budget \in Nat
BY BackSyncConstants

\* A payload is a version of a record, and has a key.
LEMMA PayloadFacts ==
  /\ \A e \in Entities : Len(KeyOf[e]) \in Nat
  /\ \A p \in Payloads : /\ p[1] \in Entities /\ p[2] \in 1..Len(KeyOf[p[1]])
                         /\ p = <<p[1], p[2]>> /\ p # NoWrite /\ Key(p) \in RowKeys
<1>1. \A e \in Entities : KeyOf[e] \in Seq(RowKeys) /\ Len(KeyOf[e]) \in Nat
  BY BackSyncConstants
<1>2. ASSUME NEW p \in Payloads
      PROVE  /\ p[1] \in Entities /\ p[2] \in 1..Len(KeyOf[p[1]])
             /\ p = <<p[1], p[2]>> /\ p # NoWrite /\ Key(p) \in RowKeys
  <2>1. PICK e \in Entities : p \in {e} \X (1..Len(KeyOf[e]))
    BY DEF Payloads
  <2>2. p[1] = e /\ p[2] \in 1..Len(KeyOf[e]) /\ p = <<p[1], p[2]>>
    BY <2>1
  <2>3. KeyOf[e][p[2]] \in RowKeys
    BY <1>1, <2>2
  <2> QED BY <2>2, <2>3, NothingIsNoPayload DEF Key
<1> QED BY <1>1, <1>2

\* The row of a payload, if it leaves one.
LEMMA RowOfType == \A by : RowOf(by) \in Seq(Payloads)
<1> TAKE by
<1>1. CASE by \in Upserts
  <2>1. by \in Payloads
    BY <1>1 DEF Upserts
  <2> QED BY <1>1, <2>1 DEF RowOf
<1>2. CASE by \notin Upserts
  BY <1>2 DEF RowOf
<1> QED BY <1>1, <1>2

LEMMA PartOfRows ==
  ASSUME NEW list \in Seq(Payloads), NEW m \in Nat, NEW n \in Int, m > 0, n <= Len(list)
  PROVE  SubSeq(list, m, n) \in Seq(Payloads)
<1>1. m \in Int /\ \A i \in m..n : list[i] \in Payloads
  <2>1. \A i \in m..n : i \in 1..Len(list)
    OBVIOUS
  <2> QED BY <2>1
<1> QED BY <1>1, SubSeqProperties

\* What operations on a list of rows come to: a list of rows, the list itself when
\* there are none, and the row of the last payload alone when they met at most one.
LEMMA AppliedFacts ==
  ASSUME NEW ops \in Operations, NEW list \in Seq(Payloads)
  PROVE  /\ Applied(ops, list) \in Seq(Payloads)
         /\ ops = NoOps => Applied(ops, list) = list
         /\ ops.takes > 0 /\ ~(Len(list) > 1) => Applied(ops, list) = RowOf(ops.by)
<1>1. PICK n \in Nat : n = ops.takes
  BY DEF Operations
<1>2. PICK l \in Nat : l = Len(list)
  OBVIOUS
<1>3. PICK head \in Seq(Payloads) : head = RowOf(ops.by)
  BY RowOfType
<1>4. Applied(ops, list) = head \o SubSeq(list, n + 1, l)
  BY <1>1, <1>2, <1>3 DEF Applied
<1>5. SubSeq(list, n + 1, l) \in Seq(Payloads)
  <2>1. n + 1 \in Nat /\ n + 1 > 0
    BY <1>1
  <2> QED BY <1>2, <2>1, PartOfRows
<1>6. Applied(ops, list) \in Seq(Payloads)
  BY <1>4, <1>5, ConcatProperties
<1>7. ASSUME ops = NoOps PROVE Applied(ops, list) = list
  <2>1. n = 0 /\ head = <<>>
    BY <1>1, <1>3, <1>7, NothingIsNoPayload DEF NoOps, RowOf, Upserts
  <2>2. SubSeq(list, 1, l) = list
    BY <1>2
  <2>3. <<>> \o list = list
    BY ConcatEmptySeq
  <2> QED BY <1>4, <2>1, <2>2, <2>3
<1>8. ASSUME n > 0, ~(l > 1) PROVE Applied(ops, list) = head
  <2>1. n + 1 \in Int /\ l \in Int /\ l < n + 1
    BY <1>1, <1>2, <1>8
  <2>2. SubSeq(list, n + 1, l) = <<>>
    BY <2>1, SubSeqEmpty
  <2>3. head \o <<>> = head
    BY ConcatEmptySeq
  <2> QED BY <1>4, <2>2, <2>3
<1> QED BY <1>1, <1>2, <1>3, <1>6, <1>7, <1>8

\* One more payload: it is the last, and takes a row.
LEMMA WithFacts ==
  ASSUME NEW ops \in Operations, NEW p \in Payloads, ops.by # NoWrite => ops.takes > 0
  PROVE  With(ops, p) \in Operations /\ With(ops, p).by = p /\ With(ops, p).takes > 0
<1>1. PICK n \in Nat : n = ops.takes
  BY DEF Operations
<1>2. PICK m : m = IF RowOf(ops.by) = <<>> THEN n + 1 ELSE n
  OBVIOUS
<1>3. RowOf(ops.by) # <<>> => ops.by # NoWrite
  BY NothingIsNoPayload DEF RowOf, Upserts
<1>4. m \in Nat /\ m > 0
  BY <1>1, <1>2, <1>3
<1>5. With(ops, p) = [by |-> p, takes |-> m]
  BY <1>1, <1>2 DEF With
<1> QED BY <1>4, <1>5 DEF Operations

-------------------------------------------------------------------------------
\* A key stays secure as long as what a step takes from it is an excuse.
LEMMA SecureStays ==
  ASSUME NEW k, Secure(k), NEW K, Excuse(K),
         IsCurrent(k) => IsCurrent(k)' \/ k \in K,
         InMemory(k) => InMemory(k)' \/ IsCurrent(k)' \/ k \in K
  PROVE  Secure(k)'
<1>1. CASE IsCurrent(k)' \/ InMemory(k)'
  BY <1>1 DEF Secure
<1>2. CASE k \in excused \cup K /\ ~IsCurrent(k)'
  BY <1>2 DEF Secure, Excuse
<1> QED BY <1>1, <1>2 DEF Secure

LEMMA ExcuseSecures == ASSUME NEW K, Excuse(K), NEW k \in K PROVE Secure(k)'
BY DEF Secure, Excuse

\* What a step that writes no record has to keep.
LEMMA CoverKept ==
  ASSUME BackSyncInv, latest' = latest,
         \A k \in RowKeys : latest[k] # NoWrite /\ Secure(k) => Secure(k)',
         \A k \in RowKeys : \A p \in Payloads : p = latest[k] /\ Queued(p) => Queued(p)' \/ Secure(k)',
         \A d \in Drainers : \A t \in draining'[d].result :
           t \in draining[d].result \/ (t[3] /\ t[1] = latest[Key(t[1])] => Secure(Key(t[1]))')
  PROVE  LastIsOnItsWay' /\ AnsweredIsSecure'
<1>1. ASSUME NEW k \in RowKeys, NEW p, p = latest[k], p # NoWrite
      PROVE  Secure(k)' \/ Queued(p)'
  <2>1. p \in Payloads
    BY <1>1 DEF BackSyncInv, BackTypes
  <2>2. Secure(k) \/ Queued(p)
    BY <1>1 DEF BackSyncInv, LastIsOnItsWay
  <2> QED BY <1>1, <2>1, <2>2
<1>2. LastIsOnItsWay'
  BY <1>1 DEF LastIsOnItsWay, Queued
<1>3. ASSUME NEW d \in Drainers, NEW t \in draining'[d].result, t[3], t[1] = latest[Key(t[1])]
      PROVE  Secure(Key(t[1]))'
  <2>1. CASE t \in draining[d].result
    <3>1. t[1] \in Payloads
      BY <2>1 DEF BackSyncInv, BackTypes
    <3>2. Key(t[1]) \in RowKeys /\ t[1] # NoWrite
      BY <3>1, PayloadFacts
    <3>3. Secure(Key(t[1]))
      BY <1>3, <2>1 DEF BackSyncInv, AnsweredIsSecure
    <3> QED BY <1>3, <3>2, <3>3
  <2> QED BY <1>3, <2>1
<1>4. AnsweredIsSecure'
  BY <1>3 DEF AnsweredIsSecure
<1> QED BY <1>2, <1>4

\* A payload arrives.
LEMMA Arrives ==
  ASSUME BackSyncInv, NEW p \in Payloads, NEW a \in Attempts, Arrive(p, a.reached)
  PROVE  /\ a.ok \in BOOLEAN
         /\ pending' \in [Webs -> Batches]
         /\ \A w \in Webs : Takes(pending'[w])
         /\ \A w \in Webs, k \in RowKeys :
              pending'[w][k] = pending[w][k] \/ (w \in a.reached /\ k = Key(p))
         /\ a.ok => \E w \in Webs : pending'[w][Key(p)].by = p
<1>1. a.reached \subseteq Webs /\ a.ok \in BOOLEAN /\ (a.ok => a.reached # {})
  <2>1. CASE a = [reached |-> {}, ok |-> FALSE]
    BY <2>1
  <2>2. CASE a \in [reached : {{w} : w \in Webs}, ok : BOOLEAN]
    <3>1. a.reached \in {{w} : w \in Webs} /\ a.ok \in BOOLEAN
      BY <2>2
    <3>2. PICK w \in Webs : a.reached = {w}
      BY <3>1
    <3> QED BY <3>1, <3>2
  <2> QED BY <2>1, <2>2 DEF Attempts
<1>2. pending' = [w \in Webs |-> IF w \in a.reached
                                THEN [pending[w] EXCEPT ![Key(p)] = With(pending[w][Key(p)], p)]
                                ELSE pending[w]]
  BY DEF Arrive
<1>3. PICK j \in RowKeys : j = Key(p)
  BY PayloadFacts
<1>4. \A w \in Webs : /\ pending[w] \in [RowKeys -> Operations]
                      /\ \A k \in RowKeys : pending[w][k].by # NoWrite => pending[w][k].takes > 0
  BY DEF Batches, BackSyncInv, BackTypes, BatchesTake, Takes
<1>5. \A w \in Webs, k \in RowKeys :
        pending'[w][k] = IF w \in a.reached /\ k = j THEN With(pending[w][k], p) ELSE pending[w][k]
  BY <1>2, <1>3, <1>4
<1>6. \A w \in Webs : LET ops == With(pending[w][j], p) IN
        ops \in Operations /\ ops.by = p /\ ops.takes > 0
  BY <1>3, <1>4, WithFacts
<1>7. pending' \in [Webs -> [RowKeys -> Operations]]
  <2>1. ASSUME NEW w \in Webs PROVE pending'[w] \in [RowKeys -> Operations]
    <3>1. pending'[w] = IF w \in a.reached THEN [pending[w] EXCEPT ![j] = With(pending[w][j], p)]
                                           ELSE pending[w]
      BY <1>2, <1>3
    <3> QED BY <1>3, <1>4, <1>6, <3>1
  <2> QED BY <1>2, <2>1
<1>8. \A w \in Webs : Takes(pending'[w])
  BY <1>4, <1>5, <1>6 DEF Takes
<1>9. a.ok => \E w \in Webs : pending'[w][j].by = p
  BY <1>1, <1>3, <1>5, <1>6
<1> QED BY <1>1, <1>3, <1>5, <1>7, <1>8, <1>9 DEF Batches

\* It takes the last write of its key back before that is stored, and this is an
\* excuse; or it does no harm.
LEMMA ArrivingKeepsSecure ==
  ASSUME BackSyncInv, NEW p \in Payloads, NEW a \in Attempts, Arrive(p, a.reached),
         NEW K, Excuse(Overtaken(p, a.reached) \cup K), UNCHANGED <<latest, rows, flush>>
  PROVE  /\ \A k \in RowKeys : Secure(k) => Secure(k)'
         /\ a.ok /\ p = latest[Key(p)] => Secure(Key(p))'
<1>1. ASSUME NEW k \in RowKeys, Secure(k) PROVE Secure(k)'
  <2>1. ASSUME InMemory(k), ~InMemory(k)' PROVE k \in Overtaken(p, a.reached)
    <3>1. PICK w \in Webs : pending[w][k].by = latest[k] \/ (flush[w] # NoFlush /\ flush[w].batch[k].by = latest[k])
      BY <2>1 DEF InMemory
    <3>2. pending[w][k].by = latest[k] /\ pending'[w][k].by # latest[k]
      BY <2>1, <3>1 DEF InMemory
    <3>3. w \in a.reached /\ k = Key(p)
      BY <3>2, Arrives
    <3>4. p # latest[k]
      <4>1. pending[w][k] \in Operations /\ (pending[w][k].by # NoWrite => pending[w][k].takes > 0)
        BY DEF Batches, BackSyncInv, BackTypes, BatchesTake, Takes
      <4>2. pending'[w] = [pending[w] EXCEPT ![k] = With(pending[w][k], p)]
        BY <3>3 DEF Arrive
      <4>3. pending[w] \in [RowKeys -> Operations]
        BY DEF Batches, BackSyncInv, BackTypes
      <4>4. pending'[w][k] = With(pending[w][k], p)
        BY <4>2, <4>3
      <4> QED BY <3>2, <4>1, <4>4, WithFacts
    <3> QED BY <3>2, <3>3, <3>4 DEF Overtaken
  <2>2. IsCurrent(k)' <=> IsCurrent(k)
    BY DEF IsCurrent
  <2> QED BY <1>1, <2>1, <2>2, SecureStays
<1>2. ASSUME a.ok, p = latest[Key(p)] PROVE Secure(Key(p))'
  BY <1>2, Arrives DEF Secure, InMemory
<1> QED BY <1>1, <1>2

-------------------------------------------------------------------------------
LEMMA ExcusedKeys == ASSUME NEW K \in SUBSET RowKeys, excused \subseteq RowKeys, Excuse(K) PROVE excused' \subseteq RowKeys
BY DEF Excuse

LEMMA Droppable ==
  ASSUME NEW P \in SUBSET Payloads, BackTypes
  PROVE  /\ LastKeys(P) \in SUBSET RowKeys
         /\ \A k \in RowKeys : latest[k] \in P => k \in LastKeys(P)
<1>1. LastKeys(P) \in SUBSET RowKeys
  BY PayloadFacts DEF LastKeys
<1>2. ASSUME NEW k \in RowKeys, latest[k] \in P PROVE k \in LastKeys(P)
  <2>1. latest[k] # NoWrite
    BY <1>2, PayloadFacts
  <2>2. Key(latest[k]) = k
    BY <2>1 DEF BackTypes
  <2> QED BY <1>2, <2>2 DEF LastKeys
<1> QED BY <1>1, <1>2

LEMMA WriteKeeps == ASSUME BackSyncInv, NEW e \in Entities, WriteRecord(e) PROVE BackSyncInv'
<1>1. PICK n : n = version[e] + 1
  OBVIOUS
<1>2. PICK p : p = <<e, n>>
  OBVIOUS
<1>3. /\ version \in [Entities -> Nat] /\ version[e] \in Nat /\ Len(KeyOf[e]) \in Nat
      /\ n \in 1..Len(KeyOf[e]) /\ p[1] = e /\ p[2] = n
  BY <1>1, <1>2, PayloadFacts DEF WriteRecord, BackSyncInv, BackTypes
<1>4. /\ version' = [version EXCEPT ![e] = n]
      /\ posts' = posts \cup {p}
      /\ latest' = [latest EXCEPT ![Key(p)] = p]
      /\ excused' = excused \ {Key(p)}
      /\ UNCHANGED <<outbox, draining, pending, flush, rows, draft>>
      /\ spent' \in 0..Budget
  BY <1>1, <1>2, <1>3, BackSyncNumbers DEF WriteRecord, Spend, BackSyncInv, BackTypes
<1>5. version' \in [Entities -> Nat] /\ \A f \in Entities : version'[f] \in version[f]..Len(KeyOf[f])
  BY <1>1, <1>3, <1>4 DEF BackSyncInv, BackTypes
<1>6. \A f \in Entities : 1..version[f] \subseteq 1..version'[f]
  BY <1>3, <1>5
<1>7. p \in Payloads /\ Written(p)' /\ ~Written(p)
  <2>1. p \in {e} \X (1..Len(KeyOf[e]))
    BY <1>2, <1>3
  <2>2. n \in 1..version'[e] /\ n \notin 1..version[e]
    BY <1>1, <1>3, <1>4
  <2> QED BY <1>3, <2>1, <2>2 DEF Payloads, Written
<1>8. PICK j \in RowKeys : j = Key(p)
  BY <1>7, PayloadFacts
<1>9. /\ latest \in [RowKeys -> Payloads \cup {NoWrite}]
      /\ latest' \in [RowKeys -> Payloads \cup {NoWrite}]
      /\ latest'[j] = p /\ \A k \in RowKeys : k # j => latest'[k] = latest[k]
  BY <1>4, <1>7, <1>8 DEF BackSyncInv, BackTypes
<1>10. BackTypes'
  <2>1. \A f \in Entities : version'[f] \in 0..Len(KeyOf[f])
    BY <1>3, <1>5
  <2>2. \A k \in RowKeys : latest'[k] # NoWrite => Key(latest'[k]) = k
    BY <1>8, <1>9 DEF BackSyncInv, BackTypes
  <2> QED BY <1>4, <1>5, <1>7, <1>9, <2>1, <2>2 DEF BackSyncInv, BackTypes
<1>11. DueAreOpen' /\ BatchesTake'
  BY <1>4 DEF BackSyncInv, DueAreOpen, BatchesTake
<1>12. \A q \in Payloads : Written(q) => Written(q)'
  BY <1>6, PayloadFacts DEF Written
<1>13. AllWritten'
  <2>1. \A q \in posts' : Written(q)'
    BY <1>4, <1>7, <1>12 DEF BackSyncInv, AllWritten, BackTypes
  <2>2. \A q \in Payloads : outbox'[q].attempts > 0 => Written(q)'
    BY <1>4, <1>12 DEF BackSyncInv, AllWritten
  <2>3. ASSUME NEW d \in Drainers
        PROVE  /\ \A t \in draining'[d].todo : Written(t[1])'
               /\ \A t \in draining'[d].result : Written(t[1])'
    <3>1. /\ \A t \in draining[d].todo : t[1] \in Payloads /\ Written(t[1])
          /\ \A t \in draining[d].result : t[1] \in Payloads /\ Written(t[1])
      BY DEF BackSyncInv, AllWritten, BackTypes
    <3> QED BY <1>4, <1>12, <3>1
  <2> QED BY <2>1, <2>2, <2>3 DEF AllWritten
<1>14. ASSUME NEW k \in RowKeys, k # j, Secure(k) PROVE Secure(k)'
  <2>1. latest'[k] = latest[k] /\ (k \in excused => k \in excused')
    BY <1>4, <1>8, <1>9, <1>14
  <2>2. IsCurrent(k) => IsCurrent(k)'
    BY <1>4, <2>1 DEF IsCurrent
  <2>3. InMemory(k) => InMemory(k)'
    BY <1>4, <2>1 DEF InMemory
  <2> QED BY <1>14, <2>1, <2>2, <2>3 DEF Secure
<1>15. LastIsOnItsWay'
  <2>1. ASSUME NEW k \in RowKeys, latest'[k] # NoWrite PROVE Secure(k)' \/ Queued(latest[k])'
    <3>1. CASE k = j
      BY <1>4, <1>9, <3>1 DEF Queued
    <3>2. CASE k # j
      <4>1. latest'[k] = latest[k]
        BY <1>9, <3>2
      <4>2. Secure(k) \/ Queued(latest[k])
        BY <2>1, <4>1 DEF BackSyncInv, LastIsOnItsWay
      <4> QED BY <1>4, <1>14, <3>2, <4>1, <4>2 DEF Queued
    <3> QED BY <3>1, <3>2
  <2> QED BY <2>1 DEF LastIsOnItsWay
<1>16. AnsweredIsSecure'
  <2>1. ASSUME NEW d \in Drainers, NEW t \in draining[d].result, t[3], t[1] = latest'[Key(t[1])]
        PROVE  Secure(Key(t[1]))'
    <3>1. t[1] \in Payloads /\ Written(t[1])
      BY DEF BackSyncInv, BackTypes, AllWritten
    <3>2. Key(t[1]) \in RowKeys /\ t[1] # p
      BY <1>7, <3>1, PayloadFacts
    <3>3. Key(t[1]) # j /\ t[1] = latest[Key(t[1])]
      BY <1>9, <2>1, <3>2
    <3>4. Secure(Key(t[1]))
      BY <2>1, <3>3 DEF BackSyncInv, AnsweredIsSecure
    <3> QED BY <1>14, <3>2, <3>3, <3>4
  <2> QED BY <1>4, <2>1 DEF AnsweredIsSecure
<1> QED BY <1>10, <1>11, <1>13, <1>15, <1>16 DEF BackSyncInv

\* What was written stays written.
LEMMA WrittenStays == ASSUME version' = version PROVE \A p : Written(p)' <=> Written(p)
BY DEF Written

\* One more unit of the bound.
LEMMA SpentWithin == ASSUME BackSyncInv, Spend \/ spent' = spent PROVE spent' \in 0..Budget
BY BackSyncNumbers DEF Spend, BackSyncInv, BackTypes

LEMMA PostedKeeps ==
  ASSUME BackSyncInv, NEW p \in posts, posts' = posts \ {p},
         NEW a \in Attempts, Arrive(p, a.reached),
         NEW K \in SUBSET RowKeys, Excuse(Overtaken(p, a.reached) \cup K),
         \/ outbox' = outbox /\ (a.ok \/ (p = latest[Key(p)] => Key(p) \in K))
         \/ outbox' = [outbox EXCEPT ![p] = [attempts |-> 1, due |-> FALSE]],
         UNCHANGED <<version, draining, flush, rows, draft, latest>>, Spend \/ spent' = spent
  PROVE  BackSyncInv'
<1>1. p \in Payloads /\ Written(p) /\ MaxAttempts \in Nat /\ MaxAttempts > 0
  BY BackSyncNumbers DEF BackSyncInv, BackTypes, AllWritten
<1>2. /\ a.ok \in BOOLEAN /\ pending' \in [Webs -> Batches]
      /\ \A w \in Webs : Takes(pending'[w])
  BY <1>1, Arrives
<1>3. BackTypes'
  <2>1. outbox' \in [Payloads -> [attempts : 0..MaxAttempts + 1, due : BOOLEAN]]
    <3>1. [attempts |-> 1, due |-> FALSE] \in [attempts : 0..MaxAttempts + 1, due : BOOLEAN]
      BY <1>1
    <3> QED BY <1>1, <3>1 DEF BackSyncInv, BackTypes
  <2>2. excused' \subseteq RowKeys
    <3>1. (Overtaken(p, a.reached) \cup K) \in SUBSET RowKeys
      BY <1>1, PayloadFacts DEF Overtaken
    <3> QED BY <3>1, ExcusedKeys DEF BackSyncInv, BackTypes
  <2> QED BY <1>2, <2>1, <2>2, SpentWithin DEF BackSyncInv, BackTypes
<1>4. DueAreOpen' /\ AllWritten'
  <2>1. \A q \in Payloads : outbox'[q] = outbox[q] \/ (q = p /\ outbox'[q] = [attempts |-> 1, due |-> FALSE])
    BY DEF BackSyncInv, BackTypes
  <2>2. DueAreOpen'
    BY <1>1, <2>1 DEF BackSyncInv, DueAreOpen
  <2>3. AllWritten'
    BY <1>1, <2>1, WrittenStays DEF BackSyncInv, AllWritten
  <2> QED BY <2>2, <2>3
<1>5. BatchesTake'
  BY <1>2 DEF BackSyncInv, BatchesTake
<1>6. /\ \A k \in RowKeys : Secure(k) => Secure(k)'
      /\ a.ok /\ p = latest[Key(p)] => Secure(Key(p))'
  BY <1>1, ArrivingKeepsSecure
<1>7. ASSUME NEW k \in RowKeys, NEW q \in Payloads, q = latest[k], Queued(q)
      PROVE  Queued(q)' \/ Secure(k)'
  <2>1. Key(q) = k
    BY <1>7, PayloadFacts DEF BackSyncInv, BackTypes
  <2>2. CASE q # p
    BY <1>1, <1>7, <2>2 DEF Queued, BackSyncInv, BackTypes
  <2>3. CASE q = p /\ outbox' = [outbox EXCEPT ![p] = [attempts |-> 1, due |-> FALSE]]
    <3>1. outbox'[q].attempts = 1
      BY <1>1, <2>3 DEF BackSyncInv, BackTypes
    <3> QED BY <1>1, <3>1 DEF Queued
  <2>4. CASE q = p /\ a.ok
    BY <1>6, <1>7, <2>1, <2>4
  <2>5. CASE q = p /\ Key(p) \in K
    BY <2>1, <2>5, ExcuseSecures
  <2> QED BY <1>7, <2>1, <2>2, <2>3, <2>4, <2>5
<1>8. LastIsOnItsWay' /\ AnsweredIsSecure'
  BY <1>6, <1>7, CoverKept
<1> QED BY <1>3, <1>4, <1>5, <1>8 DEF BackSyncInv

LEMMA PostKeeps ==
  ASSUME BackSyncInv, NEW p \in Payloads, PostAnswered(p) \/ PostFails(p) \/ ForgetPost(p)
  PROVE  BackSyncInv'
<1>1. /\ p \in posts /\ posts' = posts \ {p}
      /\ UNCHANGED <<version, draining, flush, rows, draft, latest>>
      /\ Spend \/ spent' = spent
  BY DEF PostAnswered, PostFails, ForgetPost
<1>2. \A S : S \cup {} = S
  OBVIOUS
<1>3. CASE PostAnswered(p)
  <2>1. PICK a \in Attempts : a.ok /\ Arrive(p, a.reached) /\ Excuse(Overtaken(p, a.reached))
    BY <1>3 DEF PostAnswered
  <2>2. PICK K : K = {}
    OBVIOUS
  <2>3. Excuse(Overtaken(p, a.reached) \cup K) /\ K \in SUBSET RowKeys
    BY <1>2, <2>1, <2>2
  <2>4. outbox' = outbox
    BY <1>3 DEF PostAnswered
  <2> QED BY <1>1, <2>1, <2>3, <2>4, PostedKeeps
<1>4. CASE PostFails(p)
  <2>1. PICK a \in Attempts : Arrive(p, a.reached) /\ Excuse(Overtaken(p, a.reached))
    BY <1>4 DEF PostFails
  <2>2. PICK K : K = {}
    OBVIOUS
  <2>3. Excuse(Overtaken(p, a.reached) \cup K) /\ K \in SUBSET RowKeys
    BY <1>2, <2>1, <2>2
  <2>4. outbox' = [outbox EXCEPT ![p] = [attempts |-> 1, due |-> FALSE]]
    BY <1>4 DEF PostFails
  <2> QED BY <1>1, <2>1, <2>3, <2>4, PostedKeeps
<1>5. CASE ForgetPost(p)
  <2>1. PICK a \in Attempts : Arrive(p, a.reached) /\ Excuse(Overtaken(p, a.reached) \cup LastKeys({p}))
    BY <1>5 DEF ForgetPost
  <2>2. LastKeys({p}) \in SUBSET RowKeys /\ (p = latest[Key(p)] => Key(p) \in LastKeys({p}))
    BY PayloadFacts DEF LastKeys
  <2>3. outbox' = outbox
    BY <1>5 DEF ForgetPost
  <2> QED BY <1>1, <2>1, <2>2, <2>3, PostedKeeps
<1> QED BY <1>3, <1>4, <1>5

\* Steps that leave batches, rows and excuses alone.
LEMMA SectionsRest ==
  ASSUME BackSyncInv, UNCHANGED <<pending, flush, rows, latest, excused>>
  PROVE  BatchesTake' /\ \A k : Secure(k)' <=> Secure(k)
<1>1. BatchesTake'
  BY DEF BackSyncInv, BatchesTake
<1>2. \A k : Secure(k)' <=> Secure(k)
  BY DEF Secure, InMemory, IsCurrent
<1> QED BY <1>1, <1>2

LEMMA DueKeeps == ASSUME BackSyncInv, NEW p \in Payloads, ComesDue(p) PROVE BackSyncInv'
<1>1. /\ outbox[p].attempts \in 1..MaxAttempts /\ outbox' = [outbox EXCEPT ![p].due = TRUE]
      /\ UNCHANGED <<version, posts, draining, pending, flush, rows, draft, latest, excused, spent>>
  BY DEF ComesDue
<1>2. outbox \in [Payloads -> [attempts : 0..MaxAttempts + 1, due : BOOLEAN]]
  BY DEF BackSyncInv, BackTypes
<1>3. outbox' \in [Payloads -> [attempts : 0..MaxAttempts + 1, due : BOOLEAN]]
  BY <1>1, <1>2
<1>4. \A q \in Payloads : /\ outbox'[q].attempts = outbox[q].attempts
                         /\ outbox'[q].due => outbox[q].due \/ q = p
  BY <1>1, <1>2
<1>5. BackTypes'
  BY <1>1, <1>3 DEF BackSyncInv, BackTypes
<1>6. DueAreOpen' /\ AllWritten'
  BY <1>1, <1>4, WrittenStays DEF BackSyncInv, DueAreOpen, AllWritten
<1>7. BatchesTake' /\ \A k : Secure(k)' <=> Secure(k)
  BY <1>1, SectionsRest
<1>8. \A q \in Payloads : Queued(q) => Queued(q)'
  BY <1>1, <1>4 DEF Queued
<1>9. LastIsOnItsWay' /\ AnsweredIsSecure'
  BY <1>1, <1>7, <1>8, CoverKept
<1> QED BY <1>5, <1>6, <1>7, <1>9 DEF BackSyncInv

LEMMA DrainReadKeeps == ASSUME BackSyncInv, NEW d \in Drainers, DrainRead(d) PROVE BackSyncInv'
<1>1. PICK todo : todo = {<<p, outbox[p].attempts>> : p \in {q \in Payloads : outbox[q].due}}
  OBVIOUS
<1>2. /\ draining' = [draining EXCEPT ![d].todo = todo]
      /\ UNCHANGED <<version, posts, outbox, pending, flush, rows, draft, latest, excused, spent>>
  BY <1>1 DEF DrainRead
<1>3. /\ todo \in SUBSET (Payloads \X (1..MaxAttempts))
      /\ \A t \in todo : Written(t[1])
  <2>1. \A p \in Payloads : outbox[p].due => outbox[p].attempts \in 1..MaxAttempts /\ Written(p)
    <3>1. \A p \in Payloads : outbox[p].due => outbox[p].attempts \in 1..MaxAttempts
      BY DEF BackSyncInv, DueAreOpen
    <3>2. \A n \in 1..MaxAttempts : n > 0
      BY BackSyncNumbers
    <3> QED BY <3>1, <3>2 DEF BackSyncInv, AllWritten
  <2> QED BY <1>1, <2>1
<1>4. draining \in [Drainers -> [todo : SUBSET (Payloads \X (1..MaxAttempts)),
                               result : SUBSET (Payloads \X (1..MaxAttempts) \X BOOLEAN)]]
  BY DEF BackSyncInv, BackTypes
<1>5. draining' \in [Drainers -> [todo : SUBSET (Payloads \X (1..MaxAttempts)),
                                result : SUBSET (Payloads \X (1..MaxAttempts) \X BOOLEAN)]]
  BY <1>2, <1>3, <1>4
<1>6. \A c \in Drainers : draining'[c].result = draining[c].result
                         /\ (draining'[c].todo = draining[c].todo \/ draining'[c].todo = todo)
  BY <1>2, <1>4
<1>7. BackTypes' /\ DueAreOpen'
  BY <1>2, <1>5 DEF BackSyncInv, BackTypes, DueAreOpen
<1>8. AllWritten'
  BY <1>2, <1>3, <1>6, WrittenStays DEF BackSyncInv, AllWritten
<1>9. BatchesTake' /\ \A k : Secure(k)' <=> Secure(k)
  BY <1>2, SectionsRest
<1>10. \A p : Queued(p) => Queued(p)'
  BY <1>2 DEF Queued
<1>11. LastIsOnItsWay' /\ AnsweredIsSecure'
  BY <1>2, <1>6, <1>9, <1>10, CoverKept
<1> QED BY <1>7, <1>8, <1>9, <1>11 DEF BackSyncInv

LEMMA DrainPostKeeps == ASSUME BackSyncInv, NEW d \in Drainers, DrainPost(d) PROVE BackSyncInv'
<1>1. PICK t \in draining[d].todo, a \in Attempts :
        /\ draining' = [draining EXCEPT ![d] = [todo |-> @.todo \ {t}, result |-> {<<t[1], t[2], a.ok>>}]]
        /\ UNCHANGED <<version, posts, outbox, flush, rows, draft, latest>>
        /\ Spend \/ spent' = spent
        /\ Arrive(t[1], a.reached)
        /\ Excuse(Overtaken(t[1], a.reached))
  BY DEF DrainPost
<1>2. draining \in [Drainers -> [todo : SUBSET (Payloads \X (1..MaxAttempts)),
                               result : SUBSET (Payloads \X (1..MaxAttempts) \X BOOLEAN)]]
  BY DEF BackSyncInv, BackTypes
<1>3. t[1] \in Payloads /\ t[2] \in 1..MaxAttempts /\ Written(t[1])
  BY <1>2 DEF BackSyncInv, AllWritten
<1>4. /\ a.ok \in BOOLEAN /\ pending' \in [Webs -> Batches]
      /\ \A w \in Webs : Takes(pending'[w])
  BY <1>1, <1>3, Arrives
<1>5. PICK r : r = <<t[1], t[2], a.ok>>
  OBVIOUS
<1>6. r \in Payloads \X (1..MaxAttempts) \X BOOLEAN /\ r[1] = t[1] /\ r[3] = a.ok
  BY <1>3, <1>4, <1>5
<1>7. /\ draining' \in [Drainers -> [todo : SUBSET (Payloads \X (1..MaxAttempts)),
                                    result : SUBSET (Payloads \X (1..MaxAttempts) \X BOOLEAN)]]
      /\ \A c \in Drainers : /\ draining'[c].todo \subseteq draining[c].todo
                             /\ draining'[c].result \subseteq draining[c].result \cup {r}
  <2>1. draining' = [draining EXCEPT ![d] = [todo |-> draining[d].todo \ {t}, result |-> {r}]]
    BY <1>1, <1>5
  <2>2. [todo |-> draining[d].todo \ {t}, result |-> {r}]
          \in [todo : SUBSET (Payloads \X (1..MaxAttempts)),
              result : SUBSET (Payloads \X (1..MaxAttempts) \X BOOLEAN)]
    BY <1>2, <1>6
  <2>3. draining'[d].todo = draining[d].todo \ {t} /\ draining'[d].result = {r}
    BY <1>2, <2>1
  <2>4. \A c \in Drainers : c # d => draining'[c] = draining[c]
    BY <1>2, <2>1
  <2>5. \A c \in Drainers : /\ draining'[c].todo \subseteq draining[c].todo
                           /\ draining'[c].result \subseteq draining[c].result \cup {r}
    BY <2>3, <2>4
  <2>6. draining' \in [Drainers -> [todo : SUBSET (Payloads \X (1..MaxAttempts)),
                                  result : SUBSET (Payloads \X (1..MaxAttempts) \X BOOLEAN)]]
    BY <1>2, <2>1, <2>2
  <2> QED BY <2>5, <2>6
<1>8. BackTypes'
  <2>1. excused' \subseteq RowKeys
    <3>1. Overtaken(t[1], a.reached) \in SUBSET RowKeys
      BY <1>3, PayloadFacts DEF Overtaken
    <3> QED BY <1>1, <3>1, ExcusedKeys DEF BackSyncInv, BackTypes
  <2> QED BY <1>1, <1>4, <1>7, <2>1, SpentWithin DEF BackSyncInv, BackTypes
<1>9. DueAreOpen'
  BY <1>1 DEF BackSyncInv, DueAreOpen
<1>10. AllWritten'
  BY <1>1, <1>3, <1>6, <1>7, WrittenStays DEF BackSyncInv, AllWritten
<1>11. BatchesTake'
  BY <1>1, <1>4 DEF BackSyncInv, BatchesTake
<1>12. /\ \A k \in RowKeys : Secure(k) => Secure(k)'
       /\ a.ok /\ t[1] = latest[Key(t[1])] => Secure(Key(t[1]))'
  <2>1. PICK K : K = {}
    OBVIOUS
  <2>2. Overtaken(t[1], a.reached) \cup K = Overtaken(t[1], a.reached)
    BY <2>1
  <2>3. Excuse(Overtaken(t[1], a.reached) \cup K)
    BY <1>1, <2>2
  <2> QED BY <1>1, <1>3, <2>3, ArrivingKeepsSecure
<1>13. \A p : Queued(p) => Queued(p)'
  BY <1>1 DEF Queued
<1>14. \A c \in Drainers : \A u \in draining'[c].result :
         u \in draining[c].result \/ (u[3] /\ u[1] = latest[Key(u[1])] => Secure(Key(u[1]))')
  BY <1>6, <1>7, <1>12
<1>15. LastIsOnItsWay' /\ AnsweredIsSecure'
  BY <1>1, <1>12, <1>13, <1>14, CoverKept
<1> QED BY <1>8, <1>9, <1>10, <1>11, <1>15 DEF BackSyncInv

LEMMA DrainRecordKeeps == ASSUME BackSyncInv, NEW d \in Drainers, DrainRecord(d) PROVE BackSyncInv'
<1>1. PICK t \in draining[d].result :
        LET p == t[1]  entry == IF outbox[p] = NoEntry THEN NoEntry ELSE EntryAfter(t[2], t[3]) IN
        /\ outbox' = [outbox EXCEPT ![p] = entry]
        /\ draining' = [draining EXCEPT ![d].result = {}]
        /\ UNCHANGED <<version, posts, pending, flush, rows, draft, latest, spent>>
        /\ Excuse(IF entry.attempts > MaxAttempts THEN LastKeys({p}) ELSE {})
  BY DEF DrainRecord
<1>2. PICK p \in Payloads : p = t[1] /\ t[2] \in 1..MaxAttempts /\ t[3] \in BOOLEAN /\ Written(p)
  BY DEF BackSyncInv, BackTypes, AllWritten
<1>3. PICK entry : entry = IF outbox[p] = NoEntry THEN NoEntry ELSE EntryAfter(t[2], t[3])
  OBVIOUS
<1>4. PICK K : K = IF entry.attempts > MaxAttempts THEN LastKeys({p}) ELSE {}
  OBVIOUS
<1>5. /\ outbox' = [outbox EXCEPT ![p] = entry]
      /\ draining' = [draining EXCEPT ![d].result = {}]
      /\ UNCHANGED <<version, posts, pending, flush, rows, draft, latest, spent>>
      /\ Excuse(K)
  BY <1>1, <1>2, <1>3, <1>4
<1>6. /\ entry \in [attempts : 0..MaxAttempts + 1, due : BOOLEAN] /\ entry.due = FALSE
      /\ outbox[p] # NoEntry /\ ~t[3] => entry.attempts \in 1..MaxAttempts + 1
  BY <1>2, <1>3, BackSyncNumbers DEF EntryAfter, NoEntry
<1>7. outbox \in [Payloads -> [attempts : 0..MaxAttempts + 1, due : BOOLEAN]]
  BY DEF BackSyncInv, BackTypes
<1>8. draining \in [Drainers -> [todo : SUBSET (Payloads \X (1..MaxAttempts)),
                               result : SUBSET (Payloads \X (1..MaxAttempts) \X BOOLEAN)]]
  BY DEF BackSyncInv, BackTypes
<1>9. \A q \in Payloads : outbox'[q] = IF q = p THEN entry ELSE outbox[q]
  BY <1>5, <1>7
<1>10. \A c \in Drainers : draining'[c].todo = draining[c].todo /\ draining'[c].result \subseteq draining[c].result
  BY <1>5, <1>8
<1>11. BackTypes'
  <2>1. excused' \subseteq RowKeys
    <3>1. K \in SUBSET RowKeys
      BY <1>4, Droppable DEF BackSyncInv
    <3> QED BY <1>5, <3>1, ExcusedKeys DEF BackSyncInv, BackTypes
  <2>2. outbox' \in [Payloads -> [attempts : 0..MaxAttempts + 1, due : BOOLEAN]]
    BY <1>5, <1>6, <1>7
  <2>3. draining' \in [Drainers -> [todo : SUBSET (Payloads \X (1..MaxAttempts)),
                                  result : SUBSET (Payloads \X (1..MaxAttempts) \X BOOLEAN)]]
    BY <1>5, <1>8
  <2> QED BY <1>5, <2>1, <2>2, <2>3 DEF BackSyncInv, BackTypes
<1>12. DueAreOpen' /\ AllWritten' /\ BatchesTake'
  <2>1. DueAreOpen'
    BY <1>6, <1>9 DEF BackSyncInv, DueAreOpen
  <2>2. AllWritten'
    BY <1>2, <1>5, <1>9, <1>10, WrittenStays DEF BackSyncInv, AllWritten
  <2>3. BatchesTake'
    BY <1>5 DEF BackSyncInv, BatchesTake
  <2> QED BY <2>1, <2>2, <2>3
<1>13. ASSUME NEW k \in RowKeys, Secure(k) PROVE Secure(k)'
  <2>1. InMemory(k)' <=> InMemory(k)
    BY <1>5 DEF InMemory
  <2>2. IsCurrent(k)' <=> IsCurrent(k)
    BY <1>5 DEF IsCurrent
  <2> QED BY <1>5, <1>13, <2>1, <2>2, SecureStays
<1>14. ASSUME NEW k \in RowKeys, NEW q \in Payloads, q = latest[k], Queued(q)
       PROVE  Queued(q)' \/ Secure(k)'
  <2>1. Key(q) = k
    BY <1>14, PayloadFacts DEF BackSyncInv, BackTypes
  <2>2. CASE q # p \/ q \in posts
    BY <1>5, <1>9, <1>14, <2>2 DEF Queued
  <2>3. CASE q = p /\ q \notin posts
    <3>1. outbox[p] # NoEntry
      BY <1>14, <2>3 DEF Queued, NoEntry
    <3>2. CASE t[3]
      <4>1. Secure(k)
        BY <1>2, <1>14, <2>1, <2>3, <3>2 DEF BackSyncInv, AnsweredIsSecure
      <4> QED BY <1>13, <4>1
    <3>3. CASE ~t[3] /\ entry.attempts <= MaxAttempts
      <4>1. entry.attempts \in 1..MaxAttempts
        BY <1>6, <3>1, <3>3, BackSyncNumbers
      <4> QED BY <1>9, <2>3, <4>1 DEF Queued
    <3>4. CASE entry.attempts > MaxAttempts
      <4>1. k \in K
        BY <1>4, <1>14, <2>1, <2>3, <3>4 DEF LastKeys
      <4> QED BY <1>5, <4>1, ExcuseSecures
    <3> QED BY <1>6, <3>2, <3>3, <3>4, BackSyncNumbers
  <2> QED BY <2>2, <2>3
<1>15. LastIsOnItsWay' /\ AnsweredIsSecure'
  <2>1. \A c \in Drainers : \A u \in draining'[c].result : u \in draining[c].result
    BY <1>10
  <2> QED BY <1>5, <1>13, <1>14, <2>1, CoverKept
<1> QED BY <1>11, <1>12, <1>15 DEF BackSyncInv

LEMMA DrainDiesKeeps == ASSUME BackSyncInv, NEW d \in Drainers, DrainDies(d) PROVE BackSyncInv'
<1>1. /\ draining' = [draining EXCEPT ![d] = Resting] /\ Spend
      /\ UNCHANGED <<version, posts, outbox, pending, flush, rows, draft, latest, excused>>
  BY DEF DrainDies
<1>2. draining \in [Drainers -> [todo : SUBSET (Payloads \X (1..MaxAttempts)),
                               result : SUBSET (Payloads \X (1..MaxAttempts) \X BOOLEAN)]]
  BY DEF BackSyncInv, BackTypes
<1>3. draining' \in [Drainers -> [todo : SUBSET (Payloads \X (1..MaxAttempts)),
                                result : SUBSET (Payloads \X (1..MaxAttempts) \X BOOLEAN)]]
  BY <1>1, <1>2 DEF Resting
<1>4. \A c \in Drainers : /\ draining'[c].todo \subseteq draining[c].todo
                         /\ draining'[c].result \subseteq draining[c].result
  BY <1>1, <1>2 DEF Resting
<1>5. BackTypes' /\ DueAreOpen'
  BY <1>1, <1>3, SpentWithin DEF BackSyncInv, BackTypes, DueAreOpen
<1>6. AllWritten'
  BY <1>1, <1>4, WrittenStays DEF BackSyncInv, AllWritten
<1>7. BatchesTake' /\ \A k : Secure(k)' <=> Secure(k)
  BY <1>1, SectionsRest
<1>8. \A p : Queued(p) => Queued(p)'
  BY <1>1 DEF Queued
<1>9. LastIsOnItsWay' /\ AnsweredIsSecure'
  <2>1. \A c \in Drainers : \A u \in draining'[c].result : u \in draining[c].result
    BY <1>4
  <2> QED BY <1>1, <1>7, <1>8, <2>1, CoverKept
<1> QED BY <1>5, <1>6, <1>7, <1>9 DEF BackSyncInv

-------------------------------------------------------------------------------
\* Steps of the web app and the editor: records, posts, outbox and drainers rest.
LEMMA WebKeeps ==
  ASSUME BackSyncInv, UNCHANGED <<version, posts, outbox, draining, latest>>,
         BackTypes', BatchesTake', \A k \in RowKeys : Secure(k) => Secure(k)'
  PROVE  BackSyncInv'
<1>1. DueAreOpen' /\ AllWritten'
  BY WrittenStays DEF BackSyncInv, DueAreOpen, AllWritten
<1>2. \A p : Queued(p) => Queued(p)'
  BY DEF Queued
<1>3. LastIsOnItsWay' /\ AnsweredIsSecure'
  <2>1. \A c \in Drainers : \A u \in draining'[c].result : u \in draining[c].result
    OBVIOUS
  <2> QED BY <1>2, <2>1, CoverKept
<1> QED BY <1>1, <1>3 DEF BackSyncInv

\* A batch with nothing in it.
LEMMA NoWorkFacts == NoWork \in Batches /\ Takes(NoWork) /\ \A k \in RowKeys : NoWork[k].by = NoWrite
BY DEF NoWork, NoOps, Batches, Operations, Takes

LEMMA FlushReadKeeps == ASSUME BackSyncInv, NEW w \in Webs, FlushRead(w) PROVE BackSyncInv'
<1>1. /\ flush[w] = NoFlush
      /\ flush' = [flush EXCEPT ![w] = [batch |-> pending[w], read |-> rows]]
      /\ pending' = [pending EXCEPT ![w] = NoWork]
      /\ UNCHANGED <<version, posts, outbox, draining, rows, draft, latest, excused, spent>>
  BY DEF FlushRead
<1>2. /\ pending \in [Webs -> Batches] /\ rows \in SectionStates
      /\ flush \in [Webs -> {NoFlush} \cup [batch : Batches, read : SectionStates]]
  BY DEF BackSyncInv, BackTypes
<1>3. PICK b : b = [batch |-> pending[w], read |-> rows]
  OBVIOUS
<1>4. /\ b \in [batch : Batches, read : SectionStates] /\ b # NoFlush
      /\ b.batch = pending[w] /\ b.read = rows
  <2>1. b \in [batch : Batches, read : SectionStates]
    BY <1>2, <1>3
  <2> QED BY <1>3, <2>1, NothingIsNoPayload
<1>5. \A x \in Webs : /\ flush'[x] = IF x = w THEN b ELSE flush[x]
                     /\ pending'[x] = IF x = w THEN NoWork ELSE pending[x]
  BY <1>1, <1>2, <1>3
<1>6. BackTypes'
  BY <1>1, <1>2, <1>3, <1>4, NoWorkFacts DEF BackSyncInv, BackTypes
<1>7. BatchesTake'
  BY <1>4, <1>5, NoWorkFacts DEF BackSyncInv, BatchesTake
<1>8. ASSUME NEW k \in RowKeys, Secure(k) PROVE Secure(k)'
  <2>1. ASSUME InMemory(k) PROVE InMemory(k)'
    <3>1. PICK x \in Webs : \/ pending[x][k].by = latest[k]
                            \/ flush[x] # NoFlush /\ flush[x].batch[k].by = latest[k]
      BY <2>1 DEF InMemory
    <3>2. pending'[x][k].by = latest'[k] \/ (flush'[x] # NoFlush /\ flush'[x].batch[k].by = latest'[k])
      BY <1>1, <1>4, <1>5, <3>1
    <3> QED BY <3>2 DEF InMemory
  <2>2. IsCurrent(k)' <=> IsCurrent(k)
    BY <1>1 DEF IsCurrent
  <2> QED BY <1>1, <1>8, <2>1, <2>2 DEF Secure
<1> QED BY <1>1, <1>6, <1>7, <1>8, WebKeeps

LEMMA FlushWriteKeeps == ASSUME BackSyncInv, NEW w \in Webs, FlushWrite(w) PROVE BackSyncInv'
<1>1. PICK batch : batch = flush[w].batch
  OBVIOUS
<1>2. PICK read : read = flush[w].read
  OBVIOUS
<1>3. /\ flush[w] # NoFlush /\ flush' = [flush EXCEPT ![w] = NoFlush]
      /\ rows' = [k \in RowKeys |-> Applied(batch[k], read[k])]
      /\ UNCHANGED <<version, posts, outbox, draining, pending, draft, latest, spent>>
      /\ Excuse(SetBack(w) \cup Crowded(w))
  BY <1>1, <1>2 DEF FlushWrite
<1>4. flush \in [Webs -> {NoFlush} \cup [batch : Batches, read : SectionStates]]
  BY DEF BackSyncInv, BackTypes
<1>5. batch \in [RowKeys -> Operations] /\ read \in [RowKeys -> Seq(Payloads)] /\ Takes(batch)
  <2>1. flush[w] \in [batch : Batches, read : SectionStates] /\ Takes(flush[w].batch)
    BY <1>3, <1>4 DEF BackSyncInv, BatchesTake
  <2> QED BY <1>1, <1>2, <2>1 DEF Batches, SectionStates
<1>6. ASSUME NEW k \in RowKeys
      PROVE  /\ rows'[k] \in Seq(Payloads) /\ rows'[k] = Applied(batch[k], read[k])
             /\ batch[k] = NoOps => rows'[k] = read[k]
             /\ batch[k].takes > 0 /\ ~(Len(read[k]) > 1) => rows'[k] = RowOf(batch[k].by)
  <2>1. batch[k] \in Operations /\ read[k] \in Seq(Payloads) /\ rows'[k] = Applied(batch[k], read[k])
    BY <1>3, <1>5
  <2> QED BY <2>1, AppliedFacts
<1>7. rows' \in SectionStates
  BY <1>3, <1>6 DEF SectionStates
<1>8. flush' \in [Webs -> {NoFlush} \cup [batch : Batches, read : SectionStates]]
      /\ \A x \in Webs : flush'[x] = IF x = w THEN NoFlush ELSE flush[x]
  BY <1>3, <1>4
<1>9. BackTypes'
  <2>1. excused' \subseteq RowKeys
    <3>1. (SetBack(w) \cup Crowded(w)) \in SUBSET RowKeys
      BY DEF SetBack, Crowded
    <3> QED BY <1>3, <3>1, ExcusedKeys DEF BackSyncInv, BackTypes
  <2> QED BY <1>3, <1>7, <1>8, <2>1 DEF BackSyncInv, BackTypes
<1>10. BatchesTake'
  BY <1>3, <1>8 DEF BackSyncInv, BatchesTake
<1>11. ASSUME NEW k \in RowKeys, batch[k].by = latest[k], k \notin Crowded(w) PROVE IsCurrent(k)'
  <2>1. SUFFICES ASSUME latest[k] # NoWrite PROVE rows'[k] = RowOf(latest[k])
    BY <1>3 DEF IsCurrent
  <2>2. batch[k].takes > 0 /\ batch[k] # NoOps
    BY <1>5, <1>11, <2>1 DEF Takes, NoOps
  <2>3. ~(Len(read[k]) > 1)
    BY <1>1, <1>2, <1>11, <2>2 DEF Crowded
  <2> QED BY <1>6, <1>11, <2>2, <2>3
<1>12. ASSUME NEW k \in RowKeys, IsCurrent(k), k \notin SetBack(w) \cup Crowded(w) PROVE IsCurrent(k)'
  <2>1. rows[k] = read[k] /\ (batch[k] = NoOps \/ batch[k].by = latest[k])
    BY <1>1, <1>2, <1>12 DEF SetBack
  <2>2. CASE batch[k] = NoOps
    BY <1>3, <1>6, <1>12, <2>1, <2>2 DEF IsCurrent
  <2>3. CASE batch[k].by = latest[k]
    BY <1>11, <1>12, <2>3
  <2> QED BY <2>1, <2>2, <2>3
<1>13. ASSUME NEW k \in RowKeys, Secure(k) PROVE Secure(k)'
  <2>1. ASSUME InMemory(k) PROVE InMemory(k)' \/ IsCurrent(k)' \/ k \in Crowded(w)
    <3>1. PICK x \in Webs : \/ pending[x][k].by = latest[k]
                            \/ flush[x] # NoFlush /\ flush[x].batch[k].by = latest[k]
      BY <2>1 DEF InMemory
    <3>2. CASE x = w /\ flush[w].batch[k].by = latest[k]
      BY <1>1, <1>11, <3>2
    <3>3. CASE pending[x][k].by = latest[k] \/ x # w
      <4>1. pending'[x][k].by = latest'[k] \/ (flush'[x] # NoFlush /\ flush'[x].batch[k].by = latest'[k])
        BY <1>3, <1>8, <3>1, <3>3
      <4> QED BY <4>1 DEF InMemory
    <3> QED BY <3>1, <3>2, <3>3
  <2>2. PICK K : K = SetBack(w) \cup Crowded(w)
    OBVIOUS
  <2> QED BY <1>3, <1>12, <1>13, <2>1, <2>2, SecureStays
<1> QED BY <1>3, <1>9, <1>10, <1>13, WebKeeps

LEMMA WebDiesKeeps == ASSUME BackSyncInv, NEW w \in Webs, WebDies(w) PROVE BackSyncInv'
<1>1. PICK P : P = Work(pending[w]) \cup (IF flush[w] = NoFlush THEN {} ELSE Work(flush[w].batch))
  OBVIOUS
<1>2. /\ pending' = [pending EXCEPT ![w] = NoWork] /\ flush' = [flush EXCEPT ![w] = NoFlush]
      /\ UNCHANGED <<version, posts, outbox, draining, rows, draft, latest>>
      /\ Excuse(LastKeys(P)) /\ Spend
  BY <1>1 DEF WebDies
<1>3. /\ pending \in [Webs -> Batches]
      /\ flush \in [Webs -> {NoFlush} \cup [batch : Batches, read : SectionStates]]
  BY DEF BackSyncInv, BackTypes
<1>4. \A x \in Webs : /\ flush'[x] = IF x = w THEN NoFlush ELSE flush[x]
                     /\ pending'[x] = IF x = w THEN NoWork ELSE pending[x]
  BY <1>2, <1>3
<1>5. P \in SUBSET Payloads
  <2>1. ASSUME NEW b \in Batches PROVE Work(b) \subseteq Payloads
    BY DEF Work, Batches, Operations
  <2>2. Work(pending[w]) \subseteq Payloads
    BY <1>3, <2>1
  <2>3. flush[w] # NoFlush => Work(flush[w].batch) \subseteq Payloads
    BY <1>3, <2>1
  <2> QED BY <1>1, <2>2, <2>3
<1>6. /\ LastKeys(P) \in SUBSET RowKeys
      /\ \A k \in RowKeys : latest[k] \in P => k \in LastKeys(P)
  BY <1>5, Droppable DEF BackSyncInv
<1>7. BackTypes'
  <2>1. excused' \subseteq RowKeys
    BY <1>2, <1>6, ExcusedKeys DEF BackSyncInv, BackTypes
  <2> QED BY <1>2, <1>3, <2>1, NoWorkFacts, SpentWithin DEF BackSyncInv, BackTypes
<1>8. BatchesTake'
  BY <1>4, NoWorkFacts DEF BackSyncInv, BatchesTake
<1>9. ASSUME NEW k \in RowKeys, Secure(k) PROVE Secure(k)'
  <2>1. ASSUME InMemory(k), latest[k] # NoWrite PROVE InMemory(k)' \/ k \in LastKeys(P)
    <3>1. PICK x \in Webs : \/ pending[x][k].by = latest[k]
                            \/ flush[x] # NoFlush /\ flush[x].batch[k].by = latest[k]
      BY <2>1 DEF InMemory
    <3>2. CASE x = w
      <4>1. latest[k] \in P
        BY <1>1, <2>1, <3>1, <3>2 DEF Work
      <4> QED BY <1>6, <4>1
    <3>3. CASE x # w
      <4>1. pending'[x][k].by = latest'[k] \/ (flush'[x] # NoFlush /\ flush'[x].batch[k].by = latest'[k])
        BY <1>2, <1>4, <3>1, <3>3
      <4> QED BY <4>1 DEF InMemory
    <3> QED BY <3>2, <3>3
  <2>2. IsCurrent(k) => IsCurrent(k)'
    BY <1>2 DEF IsCurrent
  <2>3. latest[k] = NoWrite => IsCurrent(k)'
    BY <1>2 DEF IsCurrent
  <2> QED BY <1>2, <1>9, <2>1, <2>2, <2>3, SecureStays
<1> QED BY <1>2, <1>7, <1>8, <1>9, WebKeeps

\* What the editor opens is a section.
LEMMA ViewsAreRows ==
  ASSUME BackSyncInv, NEW k \in RowKeys
  PROVE  Views(k) \subseteq Seq(Payloads)
<1>1. PICK live : live = LiveUnder(k)
  OBVIOUS
<1>2. PICK kept : kept = IF live = {} THEN rows[k] ELSE SubSeq(rows[k], 1, Len(rows[k]) - 1)
  OBVIOUS
<1>3. IsFiniteSet(live) /\ \A e \in live : Current(e) \in Payloads
  <2>1. IsFiniteSet(Entities) /\ live \in SUBSET Entities
    BY <1>1, BackSyncConstants DEF LiveUnder
  <2>2. IsFiniteSet(live)
    BY <2>1, FS_Subset
  <2> QED BY <1>1, <2>2 DEF LiveUnder, Upserts
<1>4. kept \in Seq(Payloads)
  <2>1. rows[k] \in Seq(Payloads)
    BY DEF BackSyncInv, BackTypes, SectionStates
  <2>len. PICK l \in Nat : l = Len(rows[k])
    BY <2>1
  <2>2. PICK n \in Int : n = l - 1 /\ n <= l
    OBVIOUS
  <2>part. n = Len(rows[k]) - 1 /\ n <= Len(rows[k])
    BY <2>len, <2>2
  <2>3. SubSeq(rows[k], 1, n) \in Seq(Payloads)
    BY <2>1, <2>2, <2>part, PartOfRows
  <2> QED BY <1>2, <2>1, <2>part, <2>3
<1>5. PICK n \in Nat : n = Cardinality(live)
  BY <1>3, FS_CardinalityType
<1>6. ASSUME NEW s \in Listings(live) PROVE [i \in DOMAIN s |-> Current(s[i])] \o kept \in Seq(Payloads)
  <2>1. s \in [1..n -> live]
    BY <1>5 DEF Listings
  <2>2. [i \in DOMAIN s |-> Current(s[i])] \in [1..n -> Payloads]
    BY <1>3, <2>1
  <2>3. [i \in DOMAIN s |-> Current(s[i])] \in Seq(Payloads)
    BY <1>5, <2>2
  <2> QED BY <1>4, <2>3, ConcatProperties
<1> QED BY <1>1, <1>2, <1>6 DEF Views

LEMMA EditorKeeps == ASSUME BackSyncInv, OpenEditor \/ OpenStored \/ SaveSection PROVE BackSyncInv'
<1>1. CASE OpenEditor \/ OpenStored
  <2>1. /\ draft' = rows \/ \E s \in [RowKeys -> UNION {Views(k) : k \in RowKeys}] :
                              (\A k \in RowKeys : s[k] \in Views(k)) /\ draft' = s
        /\ Spend
        /\ UNCHANGED <<version, posts, outbox, draining, pending, flush, rows, latest, excused>>
    BY <1>1 DEF OpenEditor, OpenStored
  <2>2. rows \in SectionStates
    BY DEF BackSyncInv, BackTypes
  <2>3. ASSUME NEW s \in [RowKeys -> UNION {Views(k) : k \in RowKeys}], \A k \in RowKeys : s[k] \in Views(k)
        PROVE  s \in SectionStates
    BY <2>3, ViewsAreRows DEF SectionStates
  <2>4. draft' \in SectionStates
    BY <2>1, <2>2, <2>3
  <2>5. BackTypes'
    BY <2>1, <2>4, SpentWithin DEF BackSyncInv, BackTypes
  <2>6. BatchesTake' /\ \A k : Secure(k)' <=> Secure(k)
    BY <2>1, SectionsRest
  <2> QED BY <2>1, <2>5, <2>6, WebKeeps
<1>2. CASE SaveSection
  <2>1. PICK K : K = {k \in RowKeys : IsCurrent(k) /\ rows[k] # draft[k]}
    OBVIOUS
  <2>2. /\ draft # NoDraft /\ draft' = NoDraft /\ rows' = draft /\ Excuse(K)
        /\ UNCHANGED <<version, posts, outbox, draining, pending, flush, latest, spent>>
    BY <1>2, <2>1 DEF SaveSection
  <2>3. excused' \subseteq RowKeys
    BY <2>1, <2>2, ExcusedKeys DEF BackSyncInv, BackTypes
  <2>4. BackTypes'
    BY <2>2, <2>3 DEF BackSyncInv, BackTypes
  <2>5. BatchesTake'
    BY <2>2 DEF BackSyncInv, BatchesTake
  <2>6. ASSUME NEW k \in RowKeys, Secure(k) PROVE Secure(k)'
    <3>1. InMemory(k)' <=> InMemory(k)
      BY <2>2 DEF InMemory
    <3>2. IsCurrent(k) => IsCurrent(k)' \/ k \in K
      BY <2>1, <2>2 DEF IsCurrent
    <3> QED BY <2>2, <2>6, <3>1, <3>2, SecureStays
  <2> QED BY <2>2, <2>4, <2>5, <2>6, WebKeeps
<1> QED BY <1>1, <1>2

-------------------------------------------------------------------------------
LEMMA BackSyncInvInit == BackSyncInit => BackSyncInv
<1> SUFFICES ASSUME BackSyncInit PROVE BackSyncInv
  OBVIOUS
<1>1. BackTypes
  <2>1. rows \in SectionStates
    BY DEF BackSyncInit, SectionStates
  <2>2. \A e \in Entities : Len(KeyOf[e]) \in Nat
    BY PayloadFacts
  <2> QED BY <2>1, <2>2, NoWorkFacts, BackSyncNumbers DEF BackSyncInit, BackTypes, NoEntry, Resting
<1>2. DueAreOpen /\ AllWritten
  BY DEF BackSyncInit, DueAreOpen, AllWritten, NoEntry, Resting
<1>3. BatchesTake
  BY NoWorkFacts DEF BackSyncInit, BatchesTake
<1>4. LastIsOnItsWay /\ AnsweredIsSecure
  BY DEF BackSyncInit, LastIsOnItsWay, AnsweredIsSecure, Resting
<1> QED BY <1>1, <1>2, <1>3, <1>4 DEF BackSyncInv

LEMMA BackSyncInvNext == BackSyncInv /\ [BackSyncNext]_backVars => BackSyncInv'
<1> SUFFICES ASSUME BackSyncInv, [BackSyncNext]_backVars PROVE BackSyncInv'
  OBVIOUS
<1>1. CASE UNCHANGED backVars
  <2>1. BackTypes'
    BY <1>1 DEF backVars, BackSyncInv, BackTypes
  <2>2. BatchesTake' /\ \A k : Secure(k)' <=> Secure(k)
    BY <1>1, SectionsRest DEF backVars
  <2> QED BY <1>1, <2>1, <2>2, WebKeeps DEF backVars
<1>2. CASE \E e \in Entities : WriteRecord(e)
  BY <1>2, WriteKeeps
<1>3. CASE \E p \in Payloads : PostAnswered(p) \/ PostFails(p) \/ ForgetPost(p)
  BY <1>3, PostKeeps
<1>4. CASE \E p \in Payloads : ComesDue(p)
  BY <1>4, DueKeeps
<1>5. CASE \E d \in Drainers : DrainRead(d) \/ DrainPost(d) \/ DrainRecord(d) \/ DrainDies(d)
  BY <1>5, DrainReadKeeps, DrainPostKeeps, DrainRecordKeeps, DrainDiesKeeps
<1>6. CASE \E w \in Webs : FlushRead(w) \/ FlushWrite(w) \/ WebDies(w)
  BY <1>6, FlushReadKeeps, FlushWriteKeeps, WebDiesKeeps
<1>7. CASE OpenEditor \/ OpenStored \/ SaveSection
  BY <1>7, EditorKeeps
<1> QED BY <1>1, <1>2, <1>3, <1>4, <1>5, <1>6, <1>7 DEF BackSyncNext, Delivery

\* The inductive invariant of the back-sync holds throughout (posts, outbox,
\* drainers, flushes and the editor).
THEOREM BackSyncInvariant == BackSyncSpec => []BackSyncInv
<1> QED BY BackSyncInvInit, BackSyncInvNext, PTL DEF BackSyncSpec

\* Versions, payloads, batches and the stored section keep their types, and what
\* was written last under a key has that key.
THEOREM BackSyncTyped == BackSyncSpec => []BackSyncTypeOK
<1>1. BackSyncInv => BackSyncTypeOK
  BY DEF BackSyncInv, BackTypes, BackSyncTypeOK
<1> QED BY <1>1, BackSyncInvariant, PTL

\* When nothing is on its way, what is stored under each key is one row of the last
\* write under it, none if that was a delete, or excused.
THEOREM QuietRowsAreCurrent == BackSyncSpec => []QuietIsCurrent
<1>1. BackSyncInv => QuietIsCurrent
  <2>1. SUFFICES ASSUME BackSyncInv, Quiet, NEW k \in RowKeys, k \notin excused, latest[k] # NoWrite
                 PROVE  IsCurrent(k)
    BY DEF QuietIsCurrent, IsCurrent
  <2>2. latest[k] \in Payloads
    BY <2>1 DEF BackSyncInv, BackTypes
  <2>3. ~Queued(latest[k])
    BY <2>1, <2>2, BackSyncNumbers DEF Quiet, Queued
  <2>4. ~InMemory(k)
    BY <2>1, NoWorkFacts DEF Quiet, InMemory
  <2> QED BY <2>1, <2>3, <2>4 DEF BackSyncInv, LastIsOnItsWay, Secure
<1> QED BY <1>1, BackSyncInvariant, PTL

-------------------------------------------------------------------------------
(***************************************************************************)
(* The three side by side: each of them behaves as it does alone.          *)
(***************************************************************************)
LEMMA ActivitySteps ==
  ASSUME [BackgroundNext]_backgroundVars
  PROVE  [LeaseNext]_leaseVars /\ [BackSyncNext]_backVars /\ [AutosaveNext]_autosaveVars
BY DEF BackgroundNext, backgroundVars

\* Activities that share no state: what each of them may do alone is what it does
\* beside the others.
THEOREM ActivitiesAreTheirOwn ==
  BackgroundSpec => LeaseSpec /\ BackSyncSpec /\ AutosaveSpec
<1>1. BackgroundInit => LeaseInit /\ BackSyncInit /\ AutosaveInit
  BY DEF BackgroundInit
<1>2. [BackgroundNext]_backgroundVars =>
        [LeaseNext]_leaseVars /\ [BackSyncNext]_backVars /\ [AutosaveNext]_autosaveVars
  BY ActivitySteps
<1> QED
  BY <1>1, <1>2, PTL DEF BackgroundSpec, LeaseSpec, BackSyncSpec, AutosaveSpec

\* The lease, the workbook on its way and the editing tab keep their types.
THEOREM BackgroundTyped == BackgroundSpec => []BackgroundTypeOK
<1>1. LeaseTypeOK /\ BackSyncTypeOK /\ AutosaveTypeOK => BackgroundTypeOK
  BY DEF BackgroundTypeOK
<1> QED
  BY <1>1, ActivitiesAreTheirOwn, LeaseTypes, BackSyncTyped, AutosaveTyped, PTL
===============================================================================
