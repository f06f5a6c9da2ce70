------------------------------- MODULE JobLease -------------------------------
(***************************************************************************)
(* The lease of a job that must run on one replica at a time               *)
(* (apps/api/src/services/jobLease.ts), and its one user, the walk over    *)
(* the certificate store that every API process starts when it boots      *)
(* (certificateStartupExtraction.ts, index.ts).                            *)
(*                                                                         *)
(* The lease is one document.  It is taken by an upsert whose filter asks  *)
(* for an expired lease: a free one is inserted, a live one collides on    *)
(* the key.  A process knows its lease by the name of its pod, which the   *)
(* next process of a restarted container bears too, and by nothing else.   *)
(*                                                                         *)
(* A process here is one life of a container: it boots, asks once, works   *)
(* or stands down, and dies at any moment.                                 *)
(***************************************************************************)
EXTENDS Integers

CONSTANTS
  Processes,    \* lives of API containers
  NameOf,       \* HOSTNAME of each, kept across the restarts of a container
  Ttl,          \* ttlMs
  ClockLimit,   \* bound of the model: the clock stops here
  NoLease       \* no document under the job's name

Names == {NameOf[p] : p \in Processes}

ASSUME LeaseConstants ==
  /\ NameOf \in [Processes -> Names]
  /\ Ttl \in Nat \ {0}
  /\ ClockLimit \in Nat
  /\ NoLease \notin [holder : Names, expiresAt : Nat]

VARIABLES
  lease,    \* the document, or NoLease
  job,      \* where each process stands
  stamp,    \* the time each process read before it asked
  clock     \* the time, on which the hosts agree

leaseVars == <<lease, job, stamp, clock>>

Stages == {"off", "booting", "asking", "working", "releasing", "done", "dead"}

LeaseTypeOK ==
  /\ lease \in [holder : Names, expiresAt : Nat] \cup {NoLease}
  /\ job \in [Processes -> Stages]
  /\ stamp \in [Processes -> Nat]
  /\ clock \in 0..ClockLimit

LeaseInit ==
  /\ lease = NoLease
  /\ job = [p \in Processes |-> "off"]
  /\ stamp = [p \in Processes |-> 0]
  /\ clock = 0

-------------------------------------------------------------------------------
Turn(p, from, to) ==
  /\ job[p] = from
  /\ job' = [job EXCEPT ![p] = to]

\* expiresAt of the lease this process asked for.
TermEnd(p) == stamp[p] + Ttl

LeaseOf(p) == [holder |-> NameOf[p], expiresAt |-> TermEnd(p)]

\* A container starts a process only after its previous one has died.
Boot(p) ==
  /\ Turn(p, "off", "booting")
  /\ \A q \in Processes : NameOf[q] = NameOf[p] => job[q] \in {"off", "dead"}
  /\ UNCHANGED <<lease, stamp, clock>>

\* The guard of the configuration: extraction at startup may be switched off.
Disabled(p) ==
  /\ Turn(p, "booting", "done")
  /\ UNCHANGED <<lease, stamp, clock>>

\* acquireJobLease: now and expiresAt are computed before the query leaves.
Ask(p) ==
  /\ Turn(p, "booting", "asking")
  /\ stamp' = [stamp EXCEPT ![p] = clock]
  /\ UNCHANGED <<lease, clock>>

\* Mutated form: the filter compares with the end of the new term.
FreeForEarly(p) == lease # NoLease => lease.expiresAt <= TermEnd(p)

\* The filter of the upsert, with the process's own reading of the clock.
FreeFor(p) == lease # NoLease => lease.expiresAt <= stamp[p]

\* acquireJobLease: the upsert stands, and the process is told so.
Acquire(p) ==
  /\ Turn(p, "asking", "working")
  /\ FreeFor(p)
  /\ lease' = LeaseOf(p)
  /\ UNCHANGED <<stamp, clock>>

\* The upsert collides, or the store cannot be reached: the process stands
\* down.  An upsert whose answer was lost stands all the same.
StandDown(p) ==
  /\ Turn(p, "asking", "done")
  /\ \/ UNCHANGED lease
     \/ FreeFor(p) /\ lease' = LeaseOf(p)
  /\ UNCHANGED <<stamp, clock>>

\* The walk ends, by itself, by an error or for want of a store to walk.
Finish(p) ==
  /\ Turn(p, "working", "releasing")
  /\ UNCHANGED <<lease, stamp, clock>>

\* Mutated form: whatever lease stands under the job's name is deleted.
ReleaseAny(p) ==
  /\ Turn(p, "releasing", "done")
  /\ lease' = NoLease
  /\ UNCHANGED <<stamp, clock>>

\* releaseJobLease: delete the lease if it bears our name; an error is logged.
Release(p) ==
  /\ Turn(p, "releasing", "done")
  /\ \/ lease' = IF lease # NoLease /\ lease.holder = NameOf[p] THEN NoLease ELSE lease
     \/ UNCHANGED lease
  /\ UNCHANGED <<stamp, clock>>

LifeEnds(p) ==
  /\ job[p] \notin {"off", "dead"}
  /\ job' = [job EXCEPT ![p] = "dead"]
  /\ UNCHANGED <<lease, stamp, clock>>

ClockTick ==
  /\ clock < ClockLimit
  /\ clock' = clock + 1
  /\ UNCHANGED <<lease, job, stamp>>

LeaseNext ==
  \/ \E p \in Processes :
       \/ Boot(p) \/ Disabled(p) \/ Ask(p) \/ Acquire(p) \/ StandDown(p)
       \/ Finish(p) \/ Release(p) \/ LifeEnds(p)
  \/ ClockTick

LeaseSpec == LeaseInit /\ [][LeaseNext]_leaseVars

-------------------------------------------------------------------------------
(***************************************************************************)
(* Properties.                                                             *)
(***************************************************************************)

Holds(p) == job[p] \in {"working", "releasing"}

\* Two processes may walk at once, when the first outlives its term (the six
\* hours of index.ts are a guess at the length of a walk).  They never do while
\* the terms of both still run: whoever was told that it holds the lease has it
\* to itself until expiresAt, whatever the others, late in finishing, release.
OneWalkPerTerm ==
  \A p, q \in Processes :
    Holds(p) /\ Holds(q) /\ TermEnd(p) > clock /\ TermEnd(q) > clock => p = q

\* The comment on releaseJobLease: a replica that finished cannot cancel a
\* lease someone else has taken over since.  The query asks for a pod's name
\* only, so this is about names too: the lease a process deletes is the very
\* one it took, never one of an earlier or a later process of its container.
ReleasesItsOwn ==
  [][ \A p \in Processes :
        Release(p) /\ lease' = NoLease /\ lease # NoLease => lease = LeaseOf(p) ]_leaseVars
===============================================================================
