-------------------------- MODULE TokenWallet_proofs --------------------------
(***************************************************************************)
(* Theorems about TokenWallet, for every set of calls and references.      *)
(*                                                                         *)
(* IInv is inductive.  Conservation alone is not: that a movement is not   *)
(* added to null rests on WalletGranted, and that the missing grant line   *)
(* is some call's to write rests on GrantHasOwner.                         *)
(***************************************************************************)
EXTENDS TokenWallet, FiniteSums

\* ensureWallet comes first: a call past it runs against a granted wallet.
WalletGranted ==
  \A c \in Calls : pc[c] \notin {"read", "seed", "failed"} => balance # NoBalance

\* A grant that is on the balance and not in the ledger is some call's to record.
GrantHasOwner ==
  (balance # NoBalance /\ Welcome \notin ledger)
    => \E c \in Calls : pc[c] \in {"grant", "ungranted"}

\* A rollback follows a collision.
CollisionIsRecorded ==
  \A c \in Calls : pc[c] = "undo" => RefOf[c] \in Posted

IInv ==
  /\ TypeOK
  /\ WalletGranted
  /\ GrantHasOwner
  /\ CollisionIsRecorded
  /\ Conservation

-------------------------------------------------------------------------------
\* A call has a reference, and names a line that moves an integer of tokens.
LEMMA AmountType ==
  \A c \in Calls : /\ RefOf[c] \in References
                   /\ c # Welcome
                   /\ c \in Lines
                   /\ Amount[c] \in Int
BY ConstantsAssumption DEF Lines

\* Sums over sets of lines.
LEMMA LineSums ==
  /\ SumFunctionOnSet(Amount, {}) = 0
  /\ \A T \in SUBSET Lines : SumFunctionOnSet(Amount, T) \in Int
  /\ \A T \in SUBSET Lines : \A l \in Lines \ T :
       SumFunctionOnSet(Amount, T \cup {l}) = SumFunctionOnSet(Amount, T) + Amount[l]
<1>1. \A l \in Lines : Amount[l] \in Int
  BY ConstantsAssumption
<1>2. IsFiniteSet(Lines)
  BY ConstantsAssumption, FS_AddElement DEF Lines
<1> QED BY <1>1, <1>2, SumProperties

\* Sums over sets of calls.
LEMMA CallSums ==
  /\ SumFunctionOnSet(Amount, {}) = 0
  /\ \A T \in SUBSET Calls : SumFunctionOnSet(Amount, T) \in Int
  /\ \A T \in SUBSET Calls : \A c \in Calls \ T :
       SumFunctionOnSet(Amount, T \cup {c}) = SumFunctionOnSet(Amount, T) + Amount[c]
<1>1. SUBSET Calls \subseteq SUBSET Lines
  BY DEF Lines
<1>2. \A T \in SUBSET Calls : \A c \in Calls \ T : c \in Lines \ T
  BY DEF Lines
<1> QED BY <1>1, <1>2, LineSums

-------------------------------------------------------------------------------
\* The invariant holds before the first call.
LEMMA InitIInv == Init => IInv
<1> SUFFICES ASSUME Init PROVE IInv
  OBVIOUS
<1>1. TypeOK
  BY DEF Init, TypeOK, Operations
<1>2. Unrecorded = {}
  BY DEF Init, Unrecorded
<1> QED BY <1>1, <1>2 DEF Init, IInv, WalletGranted, GrantHasOwner, CollisionIsRecorded, Conservation

\* References are posted by the line of a call, one at a time.
LEMMA PostedStep ==
  ASSUME TypeOK
  PROVE  /\ ledger' = ledger => Posted' = Posted
         /\ ledger' = ledger \cup {Welcome} => Posted' = Posted
         /\ \A c \in Calls : ledger' = ledger \cup {c} => Posted' = Posted \cup {RefOf[c]}
         /\ \A c \in Calls : c \in ledger => RefOf[c] \in Posted
BY ConstantsAssumption DEF TypeOK, Posted, Lines

\* The easy parts of IInv, one step per action.
LEMMA StepControl ==
  ASSUME IInv, [Next]_vars
  PROVE  TypeOK' /\ WalletGranted' /\ GrantHasOwner' /\ CollisionIsRecorded'
<1> USE ConstantsAssumption, AmountType, PostedStep
<1> USE DEF IInv, TypeOK, WalletGranted, GrantHasOwner, CollisionIsRecorded,
            Goto, Operations, Ends, FreeTokenGrant, IsDebit
<1>1. ASSUME NEW c \in Calls, Read(c)
      PROVE  TypeOK' /\ WalletGranted' /\ GrantHasOwner' /\ CollisionIsRecorded'
  BY <1>1 DEF Read, AfterEnsure
<1>2. ASSUME NEW c \in Calls, Seed(c)
      PROVE  TypeOK' /\ WalletGranted' /\ GrantHasOwner' /\ CollisionIsRecorded'
  BY <1>2 DEF Seed, AfterEnsure
<1>3. ASSUME NEW c \in Calls, RecordGrant(c)
      PROVE  TypeOK' /\ WalletGranted' /\ GrantHasOwner' /\ CollisionIsRecorded'
  BY <1>3 DEF RecordGrant, AfterEnsure, Lines
<1>4. ASSUME NEW c \in Calls, Lookup(c)
      PROVE  TypeOK' /\ WalletGranted' /\ GrantHasOwner' /\ CollisionIsRecorded'
  BY <1>4 DEF Lookup
<1>5. ASSUME NEW c \in Calls, ApplyDebit(c)
      PROVE  TypeOK' /\ WalletGranted' /\ GrantHasOwner' /\ CollisionIsRecorded'
  BY <1>5 DEF ApplyDebit
<1>6. ASSUME NEW c \in Calls, RefuseDebit(c)
      PROVE  TypeOK' /\ WalletGranted' /\ GrantHasOwner' /\ CollisionIsRecorded'
  BY <1>6 DEF RefuseDebit
<1>7. ASSUME NEW c \in Calls, ApplyCredit(c)
      PROVE  TypeOK' /\ WalletGranted' /\ GrantHasOwner' /\ CollisionIsRecorded'
  BY <1>7 DEF ApplyCredit
<1>8. ASSUME NEW c \in Calls, Record(c)
      PROVE  TypeOK' /\ WalletGranted' /\ GrantHasOwner' /\ CollisionIsRecorded'
  BY <1>8 DEF Record
<1>9. ASSUME NEW c \in Calls, Undo(c)
      PROVE  TypeOK' /\ WalletGranted' /\ GrantHasOwner' /\ CollisionIsRecorded'
  BY <1>9 DEF Undo
<1>10. ASSUME NEW c \in Calls, Die(c)
       PROVE  TypeOK' /\ WalletGranted' /\ GrantHasOwner' /\ CollisionIsRecorded'
  BY <1>10 DEF Die
<1>11. CASE UNCHANGED vars
  BY <1>11 DEF vars
<1> QED BY <1>1, <1>2, <1>3, <1>4, <1>5, <1>6, <1>7, <1>8, <1>9, <1>10, <1>11 DEF Next, Step

\* The states in which a call's movement is on the balance and unrecorded.
U == {"record", "undo", "stranded"}

\* A step of call c and of no other call.
Moves(c) ==
  /\ pc' \in [Calls -> Operations \cup Ends]
  /\ \A d \in Calls \ {c} : pc'[d] = pc[d]

\* A sum of movements is an integer.
LEMMA UnrecordedSumType ==
  ASSUME TypeOK
  PROVE  UnrecordedSum \in Int
BY CallSums DEF UnrecordedSum, Unrecorded

\* The sum of unrecorded movements stays as it is while a call stays in U or out
\* of it, ...
LEMMA UnrecordedStays ==
  ASSUME NEW c \in Calls, Moves(c), pc[c] \in U <=> pc'[c] \in U
  PROVE  Unrecorded' = Unrecorded /\ UnrecordedSum' = UnrecordedSum
<1>1. Unrecorded' = Unrecorded
  BY DEF Unrecorded, Moves, U
<1> QED BY <1>1 DEF UnrecordedSum

\* ... gains the amount of a call that enters U, ...
LEMMA UnrecordedEnters ==
  ASSUME NEW c \in Calls, Moves(c), pc[c] \notin U, pc'[c] \in U
  PROVE  UnrecordedSum' = UnrecordedSum + Amount[c]
<1>1. /\ Unrecorded' = Unrecorded \cup {c}
      /\ c \in Calls \ Unrecorded
      /\ Unrecorded \in SUBSET Calls
  BY DEF Unrecorded, Moves, U
<1>2. SumFunctionOnSet(Amount, Unrecorded') = SumFunctionOnSet(Amount, Unrecorded) + Amount[c]
  BY <1>1, CallSums
<1> QED BY <1>2 DEF UnrecordedSum

\* ... and loses the amount of a call that leaves it.
LEMMA UnrecordedLeaves ==
  ASSUME NEW c \in Calls, Moves(c), pc[c] \in U, pc'[c] \notin U
  PROVE  UnrecordedSum' = UnrecordedSum - Amount[c]
<1>1. /\ Unrecorded = Unrecorded' \cup {c}
      /\ c \in Calls \ Unrecorded'
      /\ Unrecorded' \in SUBSET Calls
  BY DEF Unrecorded, Moves, U
<1>2. /\ SumFunctionOnSet(Amount, Unrecorded) = SumFunctionOnSet(Amount, Unrecorded') + Amount[c]
      /\ SumFunctionOnSet(Amount, Unrecorded') \in Int
      /\ Amount[c] \in Int
  BY <1>1, CallSums, AmountType
<1>3. SumFunctionOnSet(Amount, Unrecorded') = SumFunctionOnSet(Amount, Unrecorded) - Amount[c]
  BY <1>2
<1> QED BY <1>3 DEF UnrecordedSum

\* The ledger's sum after a line is appended.
LEMMA LedgerSumStep ==
  ASSUME TypeOK, NEW l \in Lines, ledger' = ledger \cup {l}
  PROVE  /\ LedgerSum \in Int
         /\ LedgerSum' = IF l \in ledger THEN LedgerSum ELSE LedgerSum + Amount[l]
<1>1. ledger \in SUBSET Lines
  BY DEF TypeOK
<1>2. ASSUME l \in ledger PROVE ledger' = ledger
  BY <1>2
<1> QED BY <1>1, <1>2, LineSums DEF LedgerSum

\* Conservation, one step per action.
LEMMA StepConservation ==
  ASSUME IInv, [Next]_vars
  PROVE  Conservation'
<1>0. /\ TypeOK /\ WalletGranted /\ CollisionIsRecorded /\ Conservation
      /\ LedgerSum \in Int
      /\ UnrecordedSum \in Int
      /\ FreeTokenGrant \in Int
      /\ GrantUnrecorded \in Int
      /\ NoBalance \notin Int
  BY LineSums, UnrecordedSumType, ConstantsAssumption
     DEF IInv, TypeOK, LedgerSum, GrantUnrecorded, FreeTokenGrant
<1> USE DEF Goto, Conservation
<1>1. ASSUME NEW c \in Calls, Read(c) \/ Lookup(c) \/ RefuseDebit(c) \/ Die(c)
      PROVE  Conservation'
  <2>1. Moves(c) /\ (pc[c] \in U <=> pc'[c] \in U)
    BY <1>0, <1>1, StepControl
       DEF IInv, TypeOK, Read, Lookup, RefuseDebit, Die, AfterEnsure, Moves, U, Operations
  <2>2. UNCHANGED <<balance, ledger>>
    BY <1>1 DEF Read, Lookup, RefuseDebit, Die
  <2>3. Unrecorded' = Unrecorded /\ UnrecordedSum' = UnrecordedSum
    BY <2>1, UnrecordedStays
  <2> QED BY <1>0, <2>2, <2>3 DEF LedgerSum, GrantUnrecorded
<1>2. ASSUME NEW c \in Calls, Seed(c)
      PROVE  Conservation'
  <2>1. Moves(c) /\ pc[c] \notin U /\ pc'[c] \notin U
    BY <1>0, <1>2, StepControl DEF TypeOK, Seed, AfterEnsure, Moves, U
  <2>2. Unrecorded' = Unrecorded /\ UnrecordedSum' = UnrecordedSum
    BY <2>1, UnrecordedStays
  <2>3. LedgerSum' = LedgerSum /\ GrantUnrecorded' = GrantUnrecorded
    BY <1>2 DEF Seed, LedgerSum, GrantUnrecorded
  <2>4. CASE balance = NoBalance
    <3>1. ledger = {} /\ Unrecorded = {} /\ balance' = FreeTokenGrant
      BY <1>0, <1>2, <2>4 DEF Seed
    <3>2. LedgerSum = 0 /\ GrantUnrecorded = FreeTokenGrant
      BY <3>1, LineSums DEF LedgerSum, GrantUnrecorded
    <3>3. UnrecordedSum = 0
      BY <3>1, CallSums DEF UnrecordedSum
    <3>4. balance' # NoBalance
      BY <1>0, <3>1
    <3> QED BY <1>0, <2>2, <2>3, <3>1, <3>2, <3>3, <3>4
  <2>5. CASE balance # NoBalance
    BY <1>0, <1>2, <2>2, <2>3, <2>5 DEF Seed
  <2> QED BY <2>4, <2>5
<1>3. ASSUME NEW c \in Calls, RecordGrant(c)
      PROVE  Conservation'
  <2>1. Moves(c) /\ pc[c] \notin U /\ pc'[c] \notin U
    BY <1>0, <1>3, StepControl DEF TypeOK, RecordGrant, AfterEnsure, Moves, U
  <2>2. UnrecordedSum' = UnrecordedSum
    BY <2>1, UnrecordedStays
  <2>3. balance # NoBalance /\ balance' = balance
    BY <1>0, <1>3 DEF RecordGrant, WalletGranted
  <2>4. LedgerSum' = IF Welcome \in ledger THEN LedgerSum ELSE LedgerSum + FreeTokenGrant
    BY <1>0, <1>3, LedgerSumStep, ConstantsAssumption DEF RecordGrant, FreeTokenGrant, Lines
  <2>5. GrantUnrecorded' = 0 /\ GrantUnrecorded = IF Welcome \in ledger THEN 0 ELSE FreeTokenGrant
    BY <1>3 DEF RecordGrant, GrantUnrecorded
  <2> QED BY <1>0, <2>2, <2>3, <2>4, <2>5
<1>4. ASSUME NEW c \in Calls, ApplyDebit(c) \/ ApplyCredit(c)
      PROVE  Conservation'
  <2>1. /\ pc' = [pc EXCEPT ![c] = "record"] /\ pc[c] = "apply"
        /\ balance' = balance + Amount[c]
        /\ ledger' = ledger
    BY <1>4 DEF ApplyDebit, ApplyCredit
  <2>2. UnrecordedSum' = UnrecordedSum + Amount[c]
    <3>1. Moves(c) /\ pc[c] \notin U /\ pc'[c] \in U
      BY <1>0, <2>1, StepControl DEF TypeOK, Moves, U
    <3> QED BY <3>1, UnrecordedEnters
  <2>3. balance # NoBalance
    BY <1>0, <2>1 DEF WalletGranted
  <2>4. Amount[c] \in Int /\ balance \in Int
    BY <1>0, <2>3, AmountType DEF TypeOK
  <2>5. LedgerSum' = LedgerSum /\ GrantUnrecorded' = GrantUnrecorded
    BY <2>1 DEF LedgerSum, GrantUnrecorded
  <2>6. balance' # NoBalance
    BY <1>0, <2>1, <2>4
  <2> QED BY <1>0, <2>1, <2>2, <2>3, <2>4, <2>5, <2>6
<1>5. ASSUME NEW c \in Calls, Record(c)
      PROVE  Conservation'
  <2>1. /\ pc' = [pc EXCEPT ![c] = IF RefOf[c] \in Posted THEN "undo" ELSE "applied"]
        /\ pc[c] = "record"
        /\ ledger' = IF RefOf[c] \in Posted THEN ledger ELSE ledger \cup {c}
        /\ balance' = balance
    BY <1>5 DEF Record
  <2>2. balance # NoBalance
    BY <1>0, <2>1 DEF WalletGranted
  <2>3. LedgerSum' = IF RefOf[c] \in Posted THEN LedgerSum ELSE LedgerSum + Amount[c]
    <3>1. CASE RefOf[c] \in Posted
      BY <2>1, <3>1 DEF LedgerSum
    <3>2. CASE RefOf[c] \notin Posted
      <4>1. c \notin ledger /\ ledger' = ledger \cup {c}
        BY <1>0, <2>1, <3>2, PostedStep
      <4> QED BY <1>0, <3>2, <4>1, AmountType, LedgerSumStep
    <3> QED BY <3>1, <3>2
  <2>4. GrantUnrecorded' = GrantUnrecorded
    BY <2>1, AmountType DEF GrantUnrecorded
  <2>5. CASE RefOf[c] \in Posted
    <3>1. UnrecordedSum' = UnrecordedSum
      <4>1. Moves(c) /\ pc[c] \in U /\ pc'[c] \in U
        BY <1>0, <2>1, <2>5, StepControl DEF TypeOK, Moves, U
      <4> QED BY <4>1, UnrecordedStays
    <3> QED BY <1>0, <2>1, <2>2, <2>3, <2>4, <2>5, <3>1
  <2>6. CASE RefOf[c] \notin Posted
    <3>1. UnrecordedSum' = UnrecordedSum - Amount[c]
      <4>1. Moves(c) /\ pc[c] \in U /\ pc'[c] \notin U
        BY <1>0, <2>1, <2>6, StepControl DEF TypeOK, Moves, U
      <4> QED BY <4>1, UnrecordedLeaves
    <3> QED BY <1>0, <2>1, <2>2, <2>3, <2>4, <2>6, <3>1, AmountType
  <2> QED BY <2>5, <2>6
<1>6. ASSUME NEW c \in Calls, Undo(c)
      PROVE  Conservation'
  <2>1. /\ pc' = [pc EXCEPT ![c] = "undone"] /\ pc[c] = "undo"
        /\ balance' = balance - Amount[c]
        /\ ledger' = ledger
    BY <1>6 DEF Undo
  <2>2. UnrecordedSum' = UnrecordedSum - Amount[c]
    <3>1. Moves(c) /\ pc[c] \in U /\ pc'[c] \notin U
      BY <1>0, <2>1, StepControl DEF TypeOK, Moves, U
    <3> QED BY <3>1, UnrecordedLeaves
  <2>3. balance # NoBalance
    BY <1>0, <2>1 DEF WalletGranted
  <2>4. Amount[c] \in Int /\ balance \in Int
    BY <1>0, <2>3, AmountType DEF TypeOK
  <2>5. LedgerSum' = LedgerSum /\ GrantUnrecorded' = GrantUnrecorded
    BY <2>1 DEF LedgerSum, GrantUnrecorded
  <2>6. balance' # NoBalance
    BY <1>0, <2>1, <2>4
  <2> QED BY <1>0, <2>1, <2>2, <2>3, <2>4, <2>5, <2>6
<1>7. CASE UNCHANGED vars
  BY <1>0, <1>7 DEF vars, LedgerSum, Unrecorded, UnrecordedSum, GrantUnrecorded
<1> QED BY <1>1, <1>2, <1>3, <1>4, <1>5, <1>6, <1>7 DEF Next, Step

\* The inductive invariant holds of the wallet's every state.
THEOREM IInvHolds == Spec => []IInv
<1>1. IInv /\ [Next]_vars => IInv'
  BY StepControl, StepConservation DEF IInv
<1> QED BY InitIInv, <1>1, PTL DEF Spec

\* Every document and every call stays within its type.
THEOREM TypeCorrect == Spec => []TypeOK
<1>1. IInv => TypeOK
  BY DEF IInv
<1> QED BY <1>1, IInvHolds, PTL

\* No interleaving, collision or death of any number of calls makes or loses a
\* token: the balance is always the ledger's sum plus the movements in flight.
THEOREM ConservationHolds == Spec => []Conservation
<1>1. IInv => Conservation
  BY DEF IInv
<1> QED BY <1>1, IInvHolds, PTL

\* While no call is between a movement and its record, the balance is exactly
\* the ledger's sum.
THEOREM CacheExact == Spec => []CacheIsLedgerSum
<1>1. ASSUME IInv, balance # NoBalance, \A c \in Calls : ~Inexact(c)
      PROVE  balance = LedgerSum
  <2>1. Unrecorded = {}
    BY <1>1 DEF Unrecorded, Inexact
  <2>2. UnrecordedSum = 0
    BY <2>1, CallSums DEF UnrecordedSum
  <2>3. GrantUnrecorded = 0
    BY <1>1 DEF IInv, GrantHasOwner, GrantUnrecorded, Inexact
  <2>4. LedgerSum \in Int
    BY <1>1, LineSums DEF IInv, TypeOK, LedgerSum
  <2> QED BY <1>1, <2>2, <2>3, <2>4 DEF IInv, Conservation
<1>2. IInv => CacheIsLedgerSum
  BY <1>1 DEF CacheIsLedgerSum
<1> QED BY <1>2, IInvHolds, PTL

-------------------------------------------------------------------------------
\* The tokens that undone credits showed and took back.
UndoneSum == SumFunctionOnSet(Amount, UndoneCredits)

\* OverdraftIsUndoneCredit, with what makes it inductive: undone credits only
\* ever add up.
OverdraftInv ==
  /\ UndoneSum \in Nat
  /\ balance # NoBalance => balance + UndoneSum >= 0

\* The sum of undone credits changes only when a credit is undone.
LEMMA UndoneStays ==
  ASSUME NEW c \in Calls, Moves(c), pc[c] # "undone", pc'[c] # "undone"
  PROVE  UndoneSum' = UndoneSum
<1>1. UndoneCredits' = UndoneCredits
  BY DEF UndoneCredits, Moves, IsDebit
<1> QED BY <1>1 DEF UndoneSum

\* A rollback adds its amount to the sum if it was of a credit.
LEMMA UndoneEnters ==
  ASSUME NEW c \in Calls, Moves(c), pc[c] # "undone", pc'[c] = "undone"
  PROVE  UndoneSum' = IF IsDebit(c) THEN UndoneSum ELSE UndoneSum + Amount[c]
<1>1. CASE IsDebit(c)
  <2>1. UndoneCredits' = UndoneCredits
    BY <1>1 DEF UndoneCredits, Moves, IsDebit
  <2> QED BY <1>1, <2>1 DEF UndoneSum
<1>2. CASE ~IsDebit(c)
  <2>1. /\ UndoneCredits' = UndoneCredits \cup {c}
        /\ c \in Calls \ UndoneCredits
        /\ UndoneCredits \in SUBSET Calls
    BY <1>2 DEF UndoneCredits, Moves, IsDebit
  <2>2. SumFunctionOnSet(Amount, UndoneCredits')
          = SumFunctionOnSet(Amount, UndoneCredits) + Amount[c]
    BY <2>1, CallSums
  <2> QED BY <1>2, <2>2 DEF UndoneSum
<1> QED BY <1>1, <1>2

\* One step per action that moves tokens; every other step leaves both sides.
LEMMA StepOverdraft ==
  ASSUME IInv, OverdraftInv, [Next]_vars
  PROVE  OverdraftInv'
<1>0. /\ TypeOK /\ WalletGranted
      /\ UndoneSum \in Nat
      /\ balance # NoBalance => balance \in Int /\ balance + UndoneSum >= 0
      /\ pc' \in [Calls -> Operations \cup Ends]
      /\ FreeTokenGrant \in Nat
  BY StepControl, ConstantsAssumption DEF IInv, TypeOK, OverdraftInv, FreeTokenGrant
<1> USE DEF Goto
<1>1. ASSUME NEW c \in Calls,
             Read(c) \/ RecordGrant(c) \/ Lookup(c) \/ RefuseDebit(c) \/ Record(c) \/ Die(c)
      PROVE  OverdraftInv'
  <2>1. Moves(c) /\ pc[c] # "undone" /\ pc'[c] # "undone"
    BY <1>0, <1>1
       DEF TypeOK, Read, RecordGrant, Lookup, RefuseDebit, Record, Die, AfterEnsure, Moves, Operations
  <2>2. balance' = balance
    BY <1>1 DEF Read, RecordGrant, Lookup, RefuseDebit, Record, Die
  <2> QED BY <1>0, <2>1, <2>2, UndoneStays DEF OverdraftInv
<1>2. ASSUME NEW c \in Calls, Seed(c)
      PROVE  OverdraftInv'
  <2>1. Moves(c) /\ pc[c] # "undone" /\ pc'[c] # "undone"
    BY <1>0, <1>2 DEF TypeOK, Seed, AfterEnsure, Moves
  <2>2. UndoneSum' = UndoneSum
    BY <2>1, UndoneStays
  <2> QED BY <1>0, <1>2, <2>2 DEF OverdraftInv, Seed
<1>3. ASSUME NEW c \in Calls, ApplyDebit(c) \/ ApplyCredit(c)
      PROVE  OverdraftInv'
  <2>1. Moves(c) /\ pc[c] = "apply" /\ pc'[c] # "undone"
    BY <1>0, <1>3 DEF TypeOK, ApplyDebit, ApplyCredit, Moves
  <2>2. UndoneSum' = UndoneSum
    BY <2>1, UndoneStays
  <2>3. balance \in Int /\ balance + UndoneSum >= 0 /\ Amount[c] \in Int
    BY <1>0, <2>1, AmountType DEF WalletGranted
  <2>4. CASE ApplyDebit(c)
    BY <1>0, <2>2, <2>3, <2>4 DEF OverdraftInv, ApplyDebit
  <2>5. CASE ApplyCredit(c)
    BY <1>0, <2>2, <2>3, <2>5 DEF OverdraftInv, ApplyCredit, IsDebit
  <2> QED BY <1>3, <2>4, <2>5
<1>4. ASSUME NEW c \in Calls, Undo(c)
      PROVE  OverdraftInv'
  <2>1. Moves(c) /\ pc[c] = "undo" /\ pc'[c] = "undone" /\ balance' = balance - Amount[c]
    BY <1>0, <1>4 DEF TypeOK, Undo, Moves
  <2>2. UndoneSum' = IF IsDebit(c) THEN UndoneSum ELSE UndoneSum + Amount[c]
    BY <2>1, UndoneEnters
  <2>3. balance \in Int /\ balance + UndoneSum >= 0 /\ Amount[c] \in Int
    BY <1>0, <2>1, AmountType DEF WalletGranted
  <2> QED BY <1>0, <2>1, <2>2, <2>3 DEF OverdraftInv, IsDebit
<1>5. CASE UNCHANGED vars
  BY <1>0, <1>5 DEF vars, OverdraftInv, UndoneSum, UndoneCredits
<1> QED BY <1>1, <1>2, <1>3, <1>4, <1>5 DEF Next, Step

\* The organisation is never overdrawn by more than the duplicate credits that
\* were shown and taken back: the guarded update and the reference together
\* bound what concurrency can do, for any number of calls.
THEOREM OverdraftBounded == Spec => []OverdraftIsUndoneCredit
<1>1. ASSUME Init PROVE OverdraftInv
  <2>1. UndoneCredits = {} /\ balance = NoBalance
    BY <1>1 DEF Init, UndoneCredits
  <2>2. UndoneSum = 0
    BY <2>1, CallSums DEF UndoneSum
  <2> QED BY <2>1, <2>2 DEF OverdraftInv
<1>2. IInv /\ OverdraftInv /\ [Next]_vars => OverdraftInv'
  BY StepOverdraft
<1>3. OverdraftInv => OverdraftIsUndoneCredit
  BY DEF OverdraftInv, OverdraftIsUndoneCredit, UndoneSum
<1> QED BY <1>1, <1>2, <1>3, IInvHolds, PTL DEF Spec

-------------------------------------------------------------------------------
\* The answers, one equation per operation or end.
LEMMA AnswerValues ==
  /\ \A e \in Operations : AnswerAt(e) = "none"
  /\ AnswerAt("applied") = "applied"
  /\ AnswerAt("alreadyApplied") = "alreadyApplied"
  /\ AnswerAt("undone") = "alreadyApplied"
  /\ AnswerAt("insufficient") = "refused"
  /\ AnswerAt("nothing") = "nothing"
  /\ \A e \in {"failed", "ungranted", "stranded"} : AnswerAt(e) = "lost"
<1>1. \A e \in Operations : AnswerAt(e) = "none"
  BY DEF AnswerAt, Operations
<1>2. AnswerAt("applied") = "applied"
  BY DEF AnswerAt, Operations
<1>3. AnswerAt("alreadyApplied") = "alreadyApplied" /\ AnswerAt("undone") = "alreadyApplied"
  BY DEF AnswerAt, Operations
<1>4. AnswerAt("insufficient") = "refused" /\ AnswerAt("nothing") = "nothing"
  BY DEF AnswerAt, Operations
<1>5. \A e \in {"failed", "ungranted", "stranded"} : AnswerAt(e) = "lost"
  BY DEF AnswerAt, Operations
<1> QED BY <1>1, <1>2, <1>3, <1>4, <1>5

\* Refinement, step by step: the abstract ledger sees a posting when a call
\* records, a recognition when one finds or collides with a record, and an
\* answer whenever a call ends.
LEMMA StepRefines ==
  ASSUME IInv, [Next]_vars
  PROVE  [Abstract!Next]_(Abstract!vars)
<1>0. /\ pc \in [Calls -> Operations \cup Ends]
      /\ pc' \in [Calls -> Operations \cup Ends]
      /\ CollisionIsRecorded
      /\ TypeOK
  BY StepControl, AmountType DEF IInv, TypeOK
<1> DEFINE Answered(c, a) ==
             [d \in Calls |-> AnswerAt(pc'[d])] = [[d \in Calls |-> AnswerAt(pc[d])] EXCEPT ![c] = a]
\* A call that goes from an operation to an end is told the end's answer.
<1>a. ASSUME NEW c \in Calls, NEW e \in Ends,
             pc[c] \in Operations, pc' = [pc EXCEPT ![c] = e]
      PROVE  AnswerAt(pc[c]) = "none" /\ Answered(c, AnswerAt(e))
  <2>1. pc'[c] = e /\ \A d \in Calls \ {c} : pc'[d] = pc[d]
    BY <1>0, <1>a
  <2>2. \A d \in Calls \ {c} : AnswerAt(pc'[d]) = AnswerAt(pc[d])
    BY <2>1
  <2>3. AnswerAt(pc'[c]) = AnswerAt(e)
    BY <2>1
  <2>4. Answered(c, AnswerAt(e))
    BY <2>2, <2>3
  <2> QED BY <1>a, <2>4, AnswerValues
<1> HIDE DEF Answered
<1> USE DEF Goto
\* A step from an operation to an operation answers nobody.
<1>b. ASSUME NEW c \in Calls, NEW e \in Operations,
             pc[c] \in Operations, pc' = [pc EXCEPT ![c] = e],
             Posted' = Posted
      PROVE  UNCHANGED Abstract!vars
  <2>1. ASSUME NEW d \in Calls PROVE AnswerAt(pc'[d]) = AnswerAt(pc[d])
    <3>1. CASE d = c
      <4>1. pc'[d] = e
        BY <1>0, <1>b, <3>1
      <4> QED BY <1>b, <3>1, <4>1, AnswerValues
    <3>2. CASE d # c
      <4>1. pc'[d] = pc[d]
        BY <1>0, <1>b, <3>2
      <4> QED BY <4>1
    <3> QED BY <3>1, <3>2
  <2> QED BY <1>b, <2>1 DEF Abstract!vars
\* A call that ends without its movement is declined.
<1>c. ASSUME NEW c \in Calls, NEW e \in {"insufficient", "nothing", "failed", "ungranted", "stranded"},
             pc[c] \in Operations, pc' = [pc EXCEPT ![c] = e],
             Posted' = Posted
      PROVE  Abstract!Next
  <2>1. AnswerAt(e) \in {"refused", "nothing", "lost"}
    BY <1>c, AnswerValues
  <2>2. AnswerAt(pc[c]) = "none" /\ Answered(c, AnswerAt(e))
    BY <1>a, <1>c DEF Ends
  <2> QED BY <1>c, <2>1, <2>2 DEF Abstract!Next, Abstract!Decline, Abstract!Tell, Answered
\* A call that ends on a recorded movement is told so.
<1>d. ASSUME NEW c \in Calls, NEW e \in {"alreadyApplied", "undone"},
             pc[c] \in Operations, pc' = [pc EXCEPT ![c] = e],
             RefOf[c] \in Posted, Posted' = Posted
      PROVE  Abstract!Next
  <2>1. AnswerAt(e) = "alreadyApplied"
    BY <1>d, AnswerValues
  <2>2. AnswerAt(pc[c]) = "none" /\ Answered(c, "alreadyApplied")
    BY <1>a, <1>d, <2>1 DEF Ends
  <2> QED BY <1>0, <1>d, <2>2 DEF Abstract!Next, Abstract!Recognise, Abstract!Tell, Answered
<1>1. ASSUME NEW c \in Calls, Read(c)
      PROVE  [Abstract!Next]_(Abstract!vars)
  BY <1>1, <1>b, <1>c DEF Read, AfterEnsure, Operations, Posted
<1>2. ASSUME NEW c \in Calls, Seed(c)
      PROVE  [Abstract!Next]_(Abstract!vars)
  BY <1>2, <1>b, <1>c DEF Seed, AfterEnsure, Operations, Posted
<1>3. ASSUME NEW c \in Calls, RecordGrant(c)
      PROVE  [Abstract!Next]_(Abstract!vars)
  <2>1. Posted' = Posted
    BY <1>0, <1>3, PostedStep DEF RecordGrant
  <2> QED BY <1>3, <2>1, <1>b, <1>c DEF RecordGrant, AfterEnsure, Operations
<1>4. ASSUME NEW c \in Calls, Lookup(c)
      PROVE  [Abstract!Next]_(Abstract!vars)
  BY <1>4, <1>b, <1>d DEF Lookup, Operations, Posted
<1>5. ASSUME NEW c \in Calls, ApplyDebit(c) \/ ApplyCredit(c)
      PROVE  [Abstract!Next]_(Abstract!vars)
  BY <1>5, <1>b DEF ApplyDebit, ApplyCredit, Operations, Posted
<1>6. ASSUME NEW c \in Calls, RefuseDebit(c)
      PROVE  [Abstract!Next]_(Abstract!vars)
  BY <1>6, <1>c DEF RefuseDebit, Operations, Posted
<1>7. ASSUME NEW c \in Calls, Record(c)
      PROVE  [Abstract!Next]_(Abstract!vars)
  <2>1. /\ pc[c] = "record"
        /\ ledger' = IF RefOf[c] \in Posted THEN ledger ELSE ledger \cup {c}
        /\ pc' = [pc EXCEPT ![c] = IF RefOf[c] \in Posted THEN "undo" ELSE "applied"]
    BY <1>7 DEF Record
  <2>2. CASE RefOf[c] \in Posted
    <3>1. Posted' = Posted /\ pc' = [pc EXCEPT ![c] = "undo"]
      BY <1>0, <2>1, <2>2, PostedStep
    <3> QED BY <2>1, <3>1, <1>b DEF Operations
  <2>3. CASE RefOf[c] \notin Posted
    <3>1. pc' = [pc EXCEPT ![c] = "applied"]
      BY <2>1, <2>3
    <3>3. AnswerAt(pc[c]) = "none" /\ Answered(c, "applied")
      BY <2>1, <3>1, <1>a, AnswerValues DEF Operations, Ends
    <3>4. Posted' = Posted \cup {RefOf[c]}
      BY <1>0, <2>1, <2>3, PostedStep
    <3> QED BY <2>3, <3>3, <3>4 DEF Abstract!Next, Abstract!Post, Abstract!Tell, Answered
  <2> QED BY <2>2, <2>3
<1>8. ASSUME NEW c \in Calls, Undo(c)
      PROVE  [Abstract!Next]_(Abstract!vars)
  BY <1>8, <1>0, <1>d, PostedStep DEF Undo, Operations, CollisionIsRecorded
<1>9. ASSUME NEW c \in Calls, Die(c)
      PROVE  [Abstract!Next]_(Abstract!vars)
  <2>1. PICK e \in {"failed", "ungranted", "stranded"} : pc' = [pc EXCEPT ![c] = e]
    BY <1>9 DEF Die
  <2> QED BY <1>0, <1>9, <2>1, <1>c, PostedStep DEF Die
<1>10. CASE UNCHANGED vars
  BY <1>10 DEF vars, Abstract!vars, Posted
<1> QED BY <1>1, <1>2, <1>3, <1>4, <1>5, <1>6, <1>7, <1>8, <1>9, <1>10 DEF Next, Step

\* The wallet implements the idempotent ledger, for any number of calls and
\* references: each reference is posted at most once and one call is told so.
THEOREM Refinement == Spec => ImplementsLedger
<1>1. Init => Abstract!Init
  BY AnswerValues DEF Init, Abstract!Init, Operations, Posted
<1>2. IInv /\ [Next]_vars => [Abstract!Next]_(Abstract!vars)
  BY StepRefines
<1> QED BY <1>1, <1>2, IInvHolds, PTL DEF Spec, ImplementsLedger, Abstract!Spec
===============================================================================
