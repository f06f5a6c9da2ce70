------------------------------- MODULE BackSync -------------------------------
(***************************************************************************)
(* One section of a company's workbook kept in step with the records the   *)
(* toolkit edits.                                                          *)
(*                                                                         *)
(* The API writes a record and posts its new state to the web app without  *)
(* waiting (workbookBackSyncFanout.ts).  A post that is not answered goes  *)
(* to an outbox that a drainer on every API replica retries.  The web app  *)
(* answers a post once it is in a batch in memory, and applies the batch   *)
(* a moment later by reading the section and writing it back whole         *)
(* (workbookBackSync.ts).  The editor opens the section, with the live     *)
(* records laid over it, and saves it whole (workbookRoutes.ts).           *)
(*                                                                         *)
(* Rows are found by composite key: the row identifier that would be tried *)
(* first is stamped on no record.  So a record that changes its name       *)
(* changes its row, and records with one key (an employee has no surname,  *)
(* and an identity number only if one was given) have one row: the write of*)
(* one replaces what the other's left there, and its delete takes the row  *)
(* away.  A record is the list of keys of its versions, the last of which  *)
(* deletes it when there is more than one; the content of a row is the     *)
(* version it was made from.  A section opened with the live records laid  *)
(* over it has a row for each, and brings several rows of one key with it  *)
(* when it is saved.                                                       *)
(***************************************************************************)
EXTENDS Integers, Sequences, FiniteSets

CONSTANTS
  Entities,     \* records of the section
  RowKeys,      \* composite keys
  KeyOf,        \* KeyOf[e][v]: the key of version v of record e
  Webs,         \* flushes that may run at once, on one web replica or several
  Drainers,     \* API replicas, each with its drainer
  MaxAttempts,  \* MAX_ATTEMPTS
  Budget,       \* bound of the model on records created, failures (unanswered posts,
                \* crashes, failed writes) and openings of the editor, taken together
  NoDraft,      \* no editor is open
  NoFlush,      \* a web replica that writes no section
  NoWrite       \* a key nothing was written under

ASSUME BackSyncConstants ==
  /\ IsFiniteSet(Entities)
  /\ \A e \in Entities : KeyOf[e] \in Seq(RowKeys) /\ Len(KeyOf[e]) > 0
  /\ \A e \in Entities :
       LET n == Len(KeyOf[e]) IN n > 1 => KeyOf[e][n] = KeyOf[e][n - 1]
  /\ MaxAttempts \in Nat \ {0}
  /\ Budget \in Nat

VARIABLES
  version,    \* the version of each record in its collection, 0 before it exists
  posts,      \* first attempts under way
  outbox,     \* workbook_backsync_outbox: attempts made, and whether the next is due
  draining,   \* what each drainer read and still has to post, and what it must record
  pending,    \* pendingWork of each web replica: by key, what the batch does to its rows
  flush,      \* the batch a web replica is writing and the section it read for it
  rows,       \* the stored section: by key, its rows in order
  draft,      \* the section as the open editor holds it
  latest,     \* history: by key, what was written last under it, by any record
  excused,    \* history: keys whose last write was dropped, or whose row was set
              \* back, and that have not been written or made good since
  spent       \* of Budget, so far

backVars == <<version, posts, outbox, draining, pending, flush, rows, draft,
              latest, excused, spent>>

\* What the records are and were: <<e, v>> is version v of record e.
Payloads == UNION {{e} \X (1..Len(KeyOf[e])) : e \in Entities}

Key(p) == KeyOf[p[1]][p[2]]

IsDelete(p) == p[2] > 1 /\ p[2] = Len(KeyOf[p[1]])

Upserts == {p \in Payloads : ~IsDelete(p)}

Current(e) == <<e, version[e]>>

\* The live records with key k.
LiveUnder(k) == {e \in Entities : Current(e) \in Upserts /\ Key(Current(e)) = k}

\* What a batch does to the rows of one key: it takes the first few away and, if
\* its last payload is not a delete, puts that one's row in their place.
Operations == [by : Payloads \cup {NoWrite}, takes : Nat]

NoOps == [by |-> NoWrite, takes |-> 0]

RowOf(by) == IF by \in Upserts THEN <<by>> ELSE <<>>

Applied(ops, list) == RowOf(ops.by) \o SubSeq(list, ops.takes + 1, Len(list))

\* One more payload in the batch: it replaces the first row or, after a delete,
\* whichever row has come first.
With(ops, p) ==
  [by |-> p, takes |-> IF RowOf(ops.by) = <<>> THEN ops.takes + 1 ELSE ops.takes]

Batches == [RowKeys -> Operations]

SectionStates == [RowKeys -> Seq(Payloads)]

ASSUME NothingIsNoPayload ==
  /\ NoWrite \notin Payloads
  /\ NoFlush \notin [batch : Batches, read : SectionStates]

NoWork == [k \in RowKeys |-> NoOps]

NoEntry == [attempts |-> 0, due |-> FALSE]

Resting == [todo |-> {}, result |-> {}]

BackSyncTypeOK ==
  /\ \A e \in Entities : version[e] \in 0..Len(KeyOf[e])
  /\ posts \subseteq Payloads
  /\ outbox \in [Payloads -> [attempts : 0..MaxAttempts + 1, due : BOOLEAN]]
  /\ \A d \in Drainers :
       /\ draining[d].todo \subseteq Payloads \X (1..MaxAttempts)
       /\ draining[d].result \subseteq Payloads \X (1..MaxAttempts) \X BOOLEAN
  /\ \A w \in Webs :
       /\ pending[w] \in Batches
       /\ flush[w] = NoFlush \/ (flush[w].batch \in Batches /\ flush[w].read \in SectionStates)
  /\ rows \in SectionStates
  /\ draft = NoDraft \/ draft \in SectionStates
  /\ \A k \in RowKeys : latest[k] = NoWrite \/ (latest[k] \in Payloads /\ Key(latest[k]) = k)
  /\ excused \subseteq RowKeys
  /\ spent \in 0..Budget

\* What is stored under key k is the row of the last write under it, and no more.
IsCurrent(k) == latest[k] # NoWrite => rows[k] = RowOf(latest[k])

\* History: an excuse lasts until the row is made good.
Excuse(K) == excused' = {k \in excused \cup K : ~IsCurrent(k)'}

\* Dropping payloads is an excuse for the keys they were the last to write.
LastKeys(P) == {Key(p) : p \in {q \in P : q = latest[Key(q)]}}

BackSyncInit ==
  /\ version = [e \in Entities |-> 0]
  /\ posts = {}
  /\ outbox = [p \in Payloads |-> NoEntry]
  /\ draining = [d \in Drainers |-> Resting]
  /\ pending = [w \in Webs |-> NoWork]
  /\ flush = [w \in Webs |-> NoFlush]
  /\ rows = [k \in RowKeys |-> <<>>]
  /\ draft = NoDraft
  /\ latest = [k \in RowKeys |-> NoWrite]
  /\ excused = {} /\ spent = 0

-------------------------------------------------------------------------------
Spend ==
  /\ spent < Budget
  /\ spent' = spent + 1

\* A create, update or delete route: the collection first, then the post is
\* issued and the route answers.
WriteRecord(e) ==
  /\ version[e] < Len(KeyOf[e])
  /\ LET p == <<e, version[e] + 1>> IN
     /\ version' = [version EXCEPT ![e] = p[2]]
     /\ posts' = posts \cup {p}
     /\ latest' = [latest EXCEPT ![Key(p)] = p]
     /\ excused' = excused \ {Key(p)}
  /\ IF version[e] = 0 THEN Spend ELSE UNCHANGED spent
  /\ UNCHANGED <<outbox, draining, pending, flush, rows, draft>>

\* handleBackSync on the replicas a post reaches, none or one.
Arrive(p, reached) ==
  pending' = [w \in Webs |-> IF w \in reached
                             THEN [pending[w] EXCEPT ![Key(p)] = With(@, p)]
                             ELSE pending[w]]

\* The key whose last write a late payload takes back before it was stored.
Overtaken(p, reached) ==
  {k \in {Key(p)} : \E w \in reached : pending[w][k].by = latest[k] /\ p # latest[k]}

\* attemptPost: where it arrived and whether the answer came back in two seconds.
Attempts == {[reached |-> {}, ok |-> FALSE]}
  \cup [reached : {{w} : w \in Webs}, ok : BOOLEAN]

\* postInternal, answered.
PostAnswered(p) ==
  /\ p \in posts
  /\ posts' = posts \ {p}
  /\ UNCHANGED <<version, outbox, draining, flush, rows, draft, latest, spent>>
  /\ \E a \in Attempts : a.ok /\ Arrive(p, a.reached) /\ Excuse(Overtaken(p, a.reached))

\* postInternal, not answered: enqueueRetry.
PostFails(p) ==
  /\ p \in posts
  /\ Spend
  /\ posts' = posts \ {p}
  /\ outbox' = [outbox EXCEPT ![p] = [attempts |-> 1, due |-> FALSE]]
  /\ UNCHANGED <<version, draining, flush, rows, draft, latest>>
  /\ \E a \in Attempts : ~a.ok /\ Arrive(p, a.reached) /\ Excuse(Overtaken(p, a.reached))

\* The API stops before the answer, or the outbox cannot be written.
ForgetPost(p) ==
  /\ p \in posts
  /\ Spend
  /\ posts' = posts \ {p}
  /\ UNCHANGED <<version, outbox, draining, flush, rows, draft, latest>>
  /\ \E a \in Attempts :
       /\ ~a.ok
       /\ Arrive(p, a.reached)
       /\ Excuse(Overtaken(p, a.reached) \cup LastKeys({p}))

\* Mutated form: an entry given up comes due like any other.
ComesDueAfterAll(p) ==
  /\ outbox[p].attempts # 0
  /\ ~outbox[p].due
  /\ \A d \in Drainers : draining[d] = Resting
  /\ outbox' = [outbox EXCEPT ![p].due = TRUE]
  /\ UNCHANGED <<version, posts, draining, pending, flush, rows, draft, latest, excused, spent>>

\* nextAttemptAt passes.  The delays are five minutes and more, and a pass over
\* the outbox is shorter; an entry given up is put off for a year.
ComesDue(p) ==
  /\ outbox[p].attempts \in 1..MaxAttempts
  /\ ~outbox[p].due
  /\ \A d \in Drainers : draining[d] = Resting
  /\ outbox' = [outbox EXCEPT ![p].due = TRUE]
  /\ UNCHANGED <<version, posts, draining, pending, flush, rows, draft, latest, excused, spent>>

\* Mutated form: entries on their last attempt are not read.
DrainReadEarly(d) ==
  /\ draining[d] = Resting
  /\ \E p \in Payloads : outbox[p].due /\ outbox[p].attempts < MaxAttempts
  /\ draining' = [draining EXCEPT ![d].todo =
       {<<p, outbox[p].attempts>> :
          p \in {q \in Payloads : outbox[q].due /\ outbox[q].attempts < MaxAttempts}}]
  /\ UNCHANGED <<version, posts, outbox, pending, flush, rows, draft, latest, excused, spent>>

\* drainOnce reads the entries that are due.
DrainRead(d) ==
  /\ draining[d] = Resting
  /\ \E p \in Payloads : outbox[p].due
  /\ draining' = [draining EXCEPT ![d].todo =
       {<<p, outbox[p].attempts>> : p \in {q \in Payloads : outbox[q].due}}]
  /\ UNCHANGED <<version, posts, outbox, pending, flush, rows, draft, latest, excused, spent>>

\* It posts one of them,
DrainPost(d) ==
  /\ draining[d].result = {}
  /\ \E t \in draining[d].todo, a \in Attempts :
       /\ draining' = [draining EXCEPT ![d] =
            [todo |-> @.todo \ {t}, result |-> {<<t[1], t[2], a.ok>>}]]
       /\ UNCHANGED <<version, posts, outbox, flush, rows, draft, latest>>
       /\ IF a.ok THEN UNCHANGED spent ELSE Spend
       /\ Arrive(t[1], a.reached)
       /\ Excuse(Overtaken(t[1], a.reached))

\* Mutated form: the entry goes whatever the answer.
EntryAfterAny(n, ok) == NoEntry

EntryAfter(n, ok) == IF ok THEN NoEntry ELSE [attempts |-> n + 1, due |-> FALSE]

\* and deletes the entry, or puts it off with the attempts it had read plus one;
\* past MAX_ATTEMPTS for good.  An entry the other replica deleted stays so.
DrainRecord(d) ==
  \E t \in draining[d].result :
    LET p == t[1]  entry == IF outbox[p] = NoEntry THEN NoEntry ELSE EntryAfter(t[2], t[3]) IN
    /\ outbox' = [outbox EXCEPT ![p] = entry]
    /\ draining' = [draining EXCEPT ![d].result = {}]
    /\ UNCHANGED <<version, posts, pending, flush, rows, draft, latest, spent>>
    /\ Excuse(IF entry.attempts > MaxAttempts THEN LastKeys({p}) ELSE {})

\* The pass ends early: an operation throws, or the replica stops.
DrainDies(d) ==
  /\ draining[d] # Resting
  /\ Spend
  /\ draining' = [draining EXCEPT ![d] = Resting]
  /\ UNCHANGED <<version, posts, outbox, pending, flush, rows, draft, latest, excused>>

\* The timer fires: flushBatch takes the batch and reads the section.
FlushRead(w) ==
  /\ flush[w] = NoFlush
  /\ pending[w] # NoWork
  /\ flush' = [flush EXCEPT ![w] = [batch |-> pending[w], read |-> rows]]
  /\ pending' = [pending EXCEPT ![w] = NoWork]
  /\ UNCHANGED <<version, posts, outbox, draining, rows, draft, latest, excused, spent>>

\* Keys that were as their last write would have them, and that a flush may set
\* back: the section was read before that write was stored, or a payload came late.
SetBack(w) ==
  {k \in RowKeys :
     /\ IsCurrent(k)
     /\ \/ rows[k] # flush[w].read[k]
        \/ flush[w].batch[k] # NoOps /\ flush[w].batch[k].by # latest[k]}

\* Keys of the batch that had several rows, of which it replaces the first.
Crowded(w) == {k \in RowKeys : flush[w].batch[k] # NoOps /\ Len(flush[w].read[k]) > 1}

\* It writes the section back with the batch applied.
FlushWrite(w) ==
  /\ flush[w] # NoFlush
  /\ flush' = [flush EXCEPT ![w] = NoFlush]
  /\ rows' = [k \in RowKeys |-> Applied(flush[w].batch[k], flush[w].read[k])]
  /\ UNCHANGED <<version, posts, outbox, draining, pending, draft, latest, spent>>
  /\ Excuse(SetBack(w) \cup Crowded(w))

Work(batch) == {batch[k].by : k \in RowKeys} \ {NoWrite}

\* The write fails and is logged, or the replica stops: what it answered for is gone.
WebDies(w) ==
  /\ Spend
  /\ flush[w] # NoFlush \/ pending[w] # NoWork
  /\ pending' = [pending EXCEPT ![w] = NoWork]
  /\ flush' = [flush EXCEPT ![w] = NoFlush]
  /\ UNCHANGED <<version, posts, outbox, draining, rows, draft, latest>>
  /\ Excuse(LastKeys(Work(pending[w])
       \cup (IF flush[w] = NoFlush THEN {} ELSE Work(flush[w].batch))))

\* A set in any order.
Listings(S) == {s \in [1..Cardinality(S) -> S] : S \subseteq {s[i] : i \in DOMAIN s}}

\* rebuildWorkbookFromEntities: a row for each live record, in the order the
\* collection is read in, and the stored rows after them, except the last of each
\* key some live record has, which those were laid over.
Views(k) ==
  LET live == LiveUnder(k)
      kept == IF live = {} THEN rows[k] ELSE SubSeq(rows[k], 1, Len(rows[k]) - 1)
  IN {[i \in DOMAIN s |-> Current(s[i])] \o kept : s \in Listings(live)}

\* GET of the workbook.
OpenEditor ==
  /\ draft = NoDraft
  /\ Spend
  /\ \E s \in [RowKeys -> UNION {Views(k) : k \in RowKeys}] :
       /\ \A k \in RowKeys : s[k] \in Views(k)
       /\ draft' = s
  /\ UNCHANGED <<version, posts, outbox, draining, pending, flush, rows, latest, excused>>

\* GET without the rebuild, or merge-documents reading the stored workbook.
OpenStored ==
  /\ draft = NoDraft
  /\ Spend
  /\ draft' = rows
  /\ UNCHANGED <<version, posts, outbox, draining, pending, flush, rows, latest, excused>>

\* PUT of the section, or merge-documents writing it: persistSection.
SaveSection ==
  /\ draft # NoDraft
  /\ draft' = NoDraft
  /\ rows' = draft
  /\ UNCHANGED <<version, posts, outbox, draining, pending, flush, latest, spent>>
  /\ Excuse({k \in RowKeys : IsCurrent(k) /\ rows[k] # draft[k]})

-------------------------------------------------------------------------------
\* What the machinery does of itself.
Delivery ==
  \/ \E p \in Payloads : PostAnswered(p) \/ PostFails(p) \/ ComesDue(p)
  \/ \E d \in Drainers : DrainRead(d) \/ DrainPost(d) \/ DrainRecord(d)
  \/ \E w \in Webs : FlushRead(w) \/ FlushWrite(w)

BackSyncNext ==
  \/ \E e \in Entities : WriteRecord(e)
  \/ Delivery
  \/ \E p \in Payloads : ForgetPost(p)
  \/ \E d \in Drainers : DrainDies(d)
  \/ \E w \in Webs : WebDies(w)
  \/ OpenEditor \/ OpenStored \/ SaveSection

BackSyncSpec == BackSyncInit /\ [][BackSyncNext]_backVars

\* Attempts end by their timeout, intervals and timers fire.
FairBackSyncSpec == BackSyncSpec /\ WF_backVars(Delivery)

-------------------------------------------------------------------------------
(***************************************************************************)
(* Properties.                                                             *)
(***************************************************************************)

\* Nothing is on its way, save entries given up.
Quiet ==
  /\ posts = {}
  /\ \A p \in Payloads : outbox[p].attempts \in {0, MaxAttempts + 1}
  /\ \A d \in Drainers : draining[d] = Resting
  /\ \A w \in Webs : pending[w] = NoWork /\ flush[w] = NoFlush

\* Once nothing is on its way, what is stored under each key is one row of the
\* last write under it, by whichever record, or none if that was a delete; unless
\* the payload of that write was dropped, a payload that came late or a section
\* saved whole put other rows in its place, or the payload met several rows of its
\* key, and nothing was written there or made it good since.  Failed, repeated and
\* reordered posts, drainers that work on one entry together and records that share
\* a row do no other harm.
QuietIsCurrent ==
  Quiet => \A k \in RowKeys : IsCurrent(k) \/ k \in excused

\* Delivery comes to an end: whatever was written, sooner or later every payload
\* has been applied, dropped or given up, and QuietIsCurrent speaks.
BecomesQuiet == []<>Quiet

\* What the comments on the read-time rebuild say: the workbook is a true
\* derived view of the live records.  Opened when nothing is on its way and
\* what is stored is as the last writes would have it, it has no row but theirs.
OpenedIsDerived ==
  Quiet /\ excused = {} =>
    \A k \in RowKeys : \A s \in Views(k) : \A i \in DOMAIN s :
      s[i] \in {Current(e) : e \in LiveUnder(k)}
===============================================================================
