--------------------- MODULE ValidatorSubmissionProofs ---------------------
(***************************************************************************)
(* The weight writes of one validator host, for any number of processes,   *)
(* any modes, budgets, authorizations, windows and deaths: what the chain   *)
(* can still include is the attempt the journal names, no attempt is        *)
(* forgotten or revived, and the chain sees one submitter, a WeightChain.   *)
(* The invariant is SubmissionInv: DataInv relates the journal, the lane    *)
(* file and the chain, ProcInv the processes to the journal.                *)
(***************************************************************************)
EXTENDS ValidatorSubmission, FiniteSetTheorems, SequenceTheorems, TLAPS

\* A process at work holds the lock of its host.
Busy(p) == pc[p] \notin {"down", "contradiction", "recover", "idle"}
LockHeld == \A p \in Procs : Busy(p) => lock = p

\* The journal's pending attempt is signed, and may be on chain.
HasIntent == pending # NONE /\ pending.phase = "signed_intent"
Signed == pendingId # NONE /\ pending.phase = "signed_intent"
LaunchSucceeded == \E id \in launch.ids : Succeeded(id)

\* What is pending is named by its id, and what it says of the chain is true.
PendingFits ==
    /\ pendingId # NONE => pending # NONE /\ pending.id = pendingId
    /\ pending # NONE =>
          /\ pending.phase = "unsigned_reserved" =>
                pendingId # NONE /\ pending.intent = NONE /\ pending.receipt = NONE
          /\ pending.phase = "signed_intent" =>
                /\ pending.intent # NONE /\ pending.intent.id = pending.id
                /\ pending.id \in attemptIds
          /\ pending.receipt # NONE =>
                \E i \in OnChain(pending.intent) : included[i].block = pending.receipt
          /\ pending.id.launch => pending.id.lane = "thin"
          /\ pending.id.auth # NONE =>
                /\ pending.scope = pending.id.auth
                /\ pending.limit = AuthMax[pending.id.auth]
          /\ pending.id.lane = "authority" => LaunchSucceeded

\* The signed attempts: below the high-water marks, in the lane that is active or
\* before it, one launch among them, and the pending one the newest of its lane.
HistoryFits ==
    /\ expired \subseteq attemptIds /\ pendingId \notin expired
    /\ \A id \in attemptIds :
          /\ id.ver <= highest[id.lane]
          /\ id.launch => id.lane = "thin" /\ id \in launch.ids
          /\ activeLane \in {"authority", id.lane}
    /\ \A id \in launch.ids : id.launch /\ \A jd \in launch.ids : id = jd
    /\ Signed =>
          /\ activeLane = pendingId.lane
          /\ \A id \in attemptIds \ {pendingId} :
                id.lane = pendingId.lane => id.ver < pendingId.ver
    /\ finalized # NONE =>
          finalized.intent.id = finalized.id /\ finalized.id \in attemptIds

AttemptsUnder(a) == {id \in attemptIds : id.auth = a}

BudgetsFit ==
    /\ \A s \in Scopes : IsFiniteSet(budgets[s])
    /\ \A a \in Auths : AttemptsUnder(a) \subseteq budgets[a]
    /\ BudgetRespected

\* Every call ever signed that can still matter.
Calls == pool \cup (IF HasIntent THEN {pending.intent} ELSE {})

\* How many calls of the account the journal has finalized.
Settled == IF finalized = NONE THEN 0 ELSE finalized.intent.nonce + 1

\* Calls are included in nonce order, inside their era; the only one that still can
\* be is the pending attempt, and it is the last the chain has beyond the finalized.
ChainFits ==
    /\ \A i \in 1..Len(included) :
          /\ included[i].tx \in pool
          /\ included[i].tx.nonce = i - 1
          /\ included[i].tx.era < included[i].block
          /\ included[i].block < included[i].tx.era + MortalPeriod
    /\ \A tx \in Calls :
          /\ tx.id \in attemptIds
          /\ tx.nonce <= Len(included)
          /\ tx.era + MortalPeriod <= tx.id.until
          /\ \A ty \in Calls : tx.id = ty.id => tx = ty
    /\ LiveIsFenced
    /\ Signed => pending.intent.nonce = Settled
    /\ \/ Len(included) = Settled
       \/ /\ Signed
          /\ Len(included) = Settled + 1
          /\ included[Len(included)].tx = pending.intent

\* Where a process is tells what it works on.
Place(p) ==
    /\ pc[p] = "recovering" => mine[p].id = pendingId
    /\ Mode[p] = "authority" /\ pc[p] \in {"ticking", "audited"} => LaunchSucceeded
    /\ pc[p] \in {"reserved", "authorized"} =>
          /\ mine[p].id # NONE /\ Unsigned(mine[p].id)
          /\ pending.block = mine[p].block
    /\ pc[p] = "authorized" => InclusionPolicyReady(pendingId, pending.block)
    /\ pc[p] \in {"found", "signed", "submitted", "receipted", "proved"} =>
          Signed /\ pendingId = mine[p].id
    /\ pc[p] = "found" => OnChain(pending.intent) # {}
    /\ pc[p] \in {"receipted", "proved"} => pending.receipt # NONE
    /\ pc[p] = "proved" => \E i \in OnChain(pending.intent) : included[i].ok
    /\ pc[p] = "finalized" => finalized # NONE /\ finalized.id = mine[p].id

PlaceFits == \A p \in Procs : Place(p)

----------------------------------------------------------------------------
(* The invariant in two halves: the processes, and what they share.         *)

ProcTypes ==
    /\ lock \in Procs \cup {NONE}
    /\ pc \in [Procs -> PCs]
    /\ mine \in [Procs -> Mine]
    /\ crashes \in 0..MaxCrashes

DataTypes ==
    /\ pendingId \in AttemptId \cup {NONE}
    /\ pending \in PendingRecord \cup {NONE}
    /\ attemptIds \subseteq AttemptId
    /\ budgets \in [Scopes -> SUBSET AttemptId]
    /\ activeLane \in Lanes \cup {NONE}
    /\ highest \in [Lanes -> {-1} \cup Versions]
    /\ finalized \in FinalRecord \cup {NONE}
    /\ expired \subseteq AttemptId
    /\ launch \in [ids : SUBSET AttemptId,
                   status : {"none", "pending", "finalized", "expired"}]
    /\ continuous \in BOOLEAN
    /\ laneFile \in LaneFile
    /\ approval \in BOOLEAN
    /\ head \in 1..(IF MaxHead > 1 THEN MaxHead ELSE 1)
    /\ pool \subseteq Intent
    /\ included \in Seq(Included)

\* What the journal and the chain say of one another.
JournalFits ==
    /\ PendingFits /\ HistoryFits /\ BudgetsFit /\ ChainFits
    /\ FinalizedIsOnChain /\ ExpiredNeverIncluded /\ ContinuousAfterLaunch

DataInv == DataTypes /\ JournalFits
ProcInv == ProcTypes /\ LockHeld /\ PlaceFits
SubmissionInv == DataInv /\ ProcInv

dataVars == <<journal, laneFile, approval, chain>>

LEMMA TypesSplit == TypeOK <=> ProcTypes /\ DataTypes
BY DEF TypeOK, ProcTypes, DataTypes

LEMMA NoneFacts ==
    /\ NONE \notin Lanes /\ NONE \notin AttemptId /\ NONE \notin Intent
    /\ NONE \notin PendingRecord /\ NONE \notin FinalRecord /\ NONE \notin Nat
    /\ NONE \notin Procs /\ NONE \notin Auths
BY NoneIsNothing, ConstantsOK

\* Nothing of the data half speaks of a process.
LEMMA DataStays ==
    ASSUME DataInv, UNCHANGED dataVars
    PROVE  DataInv'
<1>1. UNCHANGED <<pendingId, pending, attemptIds, budgets, activeLane, highest, finalized,
                  expired, launch, continuous, laneFile, approval, head, pool, included>>
  BY DEF dataVars, journal, chain
<1>2. DataTypes'
  BY <1>1 DEF DataInv, DataTypes
<1>3. PendingFits' /\ HistoryFits' /\ BudgetsFit'
  BY <1>1 DEF DataInv, JournalFits, PendingFits, HistoryFits, BudgetsFit, OnChain, Signed,
              LaunchSucceeded, Succeeded, AttemptsUnder, BudgetRespected
<1>4. ChainFits'
  BY <1>1 DEF DataInv, JournalFits, ChainFits, Calls, HasIntent, Settled, LiveIsFenced, Live,
              Signed
<1>5. FinalizedIsOnChain' /\ ExpiredNeverIncluded' /\ ContinuousAfterLaunch'
  BY <1>1 DEF DataInv, JournalFits, FinalizedIsOnChain, OnChain, Succeeded,
              ExpiredNeverIncluded, Live, ContinuousAfterLaunch
<1>6. QED
  BY <1>2, <1>3, <1>4, <1>5 DEF DataInv, JournalFits

----------------------------------------------------------------------------
(* The processes and their lock                                             *)

AtRest == {"down", "contradiction", "recover", "idle"}

\* A step of process p alone: where it goes, and with what.
Moved(p, to, m) ==
    /\ pc' = [pc EXCEPT ![p] = to]
    /\ mine' = [mine EXCEPT ![p] = m]

\* The other processes stay where they are, and those at work cannot be many.
LEMMA OneAtWork ==
    ASSUME ProcInv, NEW p \in Procs, NEW to \in PCs, NEW m \in Mine,
           Moved(p, to, m),
           \/ lock = p /\ (lock' = p \/ (lock' = NONE /\ to \in AtRest))
           \/ lock = NONE /\ lock' = p
           \/ lock' = lock /\ to \in AtRest,
           crashes' \in 0..MaxCrashes
    PROVE  /\ ProcTypes' /\ LockHeld'
           /\ pc'[p] = to /\ mine'[p] = m
           /\ \A q \in Procs \ {p} : pc'[q] = pc[q] /\ mine'[q] = mine[q]
           /\ lock \in {NONE, p} => \A q \in Procs \ {p} : pc[q] \in AtRest
<1>1. /\ pc'[p] = to /\ mine'[p] = m
      /\ \A q \in Procs \ {p} : pc'[q] = pc[q] /\ mine'[q] = mine[q]
  BY DEF ProcInv, ProcTypes, Moved
<1>2. ProcTypes'
  BY DEF ProcInv, ProcTypes, Moved
<1>3. LockHeld'
  BY <1>1, NoneFacts DEF ProcInv, LockHeld, Busy, AtRest, Moved
<1>4. lock \in {NONE, p} => \A q \in Procs \ {p} : pc[q] \in AtRest
  BY NoneFacts DEF ProcInv, LockHeld, Busy, AtRest
<1>5. QED
  BY <1>1, <1>2, <1>3, <1>4
\* A process that holds the lock, or takes it, and leaves what is shared sound.
LEMMA WorkStep ==
    ASSUME SubmissionInv, NEW p \in Procs, NEW to \in PCs, NEW m \in Mine,
           Moved(p, to, m),
           \/ lock = p /\ (lock' = p \/ (lock' = NONE /\ to \in AtRest))
           \/ lock = NONE /\ lock' = p,
           crashes' = crashes, DataInv', Place(p)'
    PROVE  SubmissionInv'
<1>1. ProcInv /\ crashes' \in 0..MaxCrashes
  BY DEF SubmissionInv, ProcInv, ProcTypes
<1>2. /\ ProcTypes' /\ LockHeld'
      /\ \A q \in Procs \ {p} : pc'[q] = pc[q] /\ pc[q] \in AtRest
  BY <1>1, OneAtWork
<1>3. \A q \in Procs \ {p} : Place(q)'
  BY <1>2 DEF Place, AtRest
<1>4. QED
  BY <1>2, <1>3 DEF SubmissionInv, ProcInv, PlaceFits

\* A step of a process that leaves everything shared as it is.
LEMMA QuietStep ==
    ASSUME SubmissionInv, NEW p \in Procs, NEW to \in PCs, NEW m \in Mine,
           Moved(p, to, m),
           \/ lock = p /\ (lock' = p \/ (lock' = NONE /\ to \in AtRest))
           \/ lock = NONE /\ lock' = p
           \/ lock' = lock /\ to \in AtRest,
           crashes' \in 0..MaxCrashes,
           UNCHANGED dataVars, Place(p)'
    PROVE  SubmissionInv'
<1>1. ProcInv
  BY DEF SubmissionInv
<1>2. /\ ProcTypes' /\ LockHeld'
      /\ \A q \in Procs \ {p} : pc'[q] = pc[q] /\ mine'[q] = mine[q]
  BY <1>1, OneAtWork
<1>3. UNCHANGED <<pendingId, pending, attemptIds, finalized, launch, included>>
  BY DEF dataVars, journal, chain
<1>4. \A q \in Procs \ {p} : Place(q)'
  BY <1>1, <1>2, <1>3 DEF ProcInv, PlaceFits, Place, LaunchSucceeded, Succeeded, Unsigned,
     Signed, OnChain
<1>5. DataInv'
  BY DataStays DEF SubmissionInv
<1>6. QED
  BY <1>2, <1>4, <1>5 DEF SubmissionInv, ProcInv, PlaceFits

\* The ways a step ends: the process goes on, rests, or leaves.
LEMMA Leaves ==
    ASSUME SubmissionInv, NEW p \in Procs,
           \/ ToLoop(p) \/ ExitNotProven(p) \/ ExitContradiction(p)
    PROVE  /\ \E to \in AtRest \ {"recover"} : Moved(p, to, NoMine)
           /\ NoMine \in Mine /\ AtRest \subseteq PCs
           /\ lock' = NONE /\ crashes' = crashes
BY DEF ToLoop, ExitNotProven, ExitContradiction, ExitAs, Release, Moved, AtRest, PCs, NoMine,
       Mine

LEMMA Continues ==
    ASSUME SubmissionInv, NEW p \in Procs, NEW to \in PCs, Goto(p, to)
    PROVE  /\ Moved(p, to, mine[p]) /\ mine[p] \in Mine /\ mine' = mine
           /\ lock' = lock /\ crashes' = crashes
BY DEF Goto, Moved, SubmissionInv, ProcInv, ProcTypes

\* At rest there is nothing a place has to say.
LEMMA NoPlace ==
    ASSUME NEW p \in Procs, pc'[p] \in AtRest
    PROVE  Place(p)'
BY DEF Place, AtRest

\* A busy process that ends its step with what is shared sound.
LEMMA LeaveStep ==
    ASSUME SubmissionInv, NEW p \in Procs, lock = p,
           \/ ToLoop(p) \/ ExitNotProven(p) \/ ExitContradiction(p),
           DataInv'
    PROVE  SubmissionInv'
<1>1. PICK to \in AtRest \ {"recover"} : Moved(p, to, NoMine)
  BY Leaves
<1>2. to \in PCs /\ NoMine \in Mine /\ lock' = NONE /\ crashes' = crashes
  BY Leaves
<1>3. pc'[p] = to
  BY <1>1 DEF Moved, SubmissionInv, ProcInv, ProcTypes
<1>4. Place(p)'
  BY <1>3, NoPlace
<1>5. QED
  BY <1>1, <1>2, <1>4, WorkStep

\* One that goes on holding the lock.
LEMMA GoOnStep ==
    ASSUME SubmissionInv, NEW p \in Procs, lock = p, NEW to \in PCs, Goto(p, to),
           DataInv', Place(p)'
    PROVE  SubmissionInv'
<1>1. /\ Moved(p, to, mine[p]) /\ mine[p] \in Mine
      /\ lock' = lock /\ crashes' = crashes
  BY Continues
<1>2. PICK m \in Mine : m = mine[p]
  BY <1>1
<1>3. Moved(p, to, m)
  BY <1>1, <1>2
<1>4. QED
  BY <1>1, <1>3, WorkStep

\* Being at work means holding the lock.
LEMMA AtWork ==
    ASSUME SubmissionInv, NEW p \in Procs, pc[p] \notin AtRest
    PROVE  lock = p /\ Place(p) /\ mine[p] \in Mine
BY DEF SubmissionInv, ProcInv, ProcTypes, LockHeld, Busy, AtRest, PlaceFits

----------------------------------------------------------------------------
(* What each write of the journal, and each step of the chain, keeps        *)

\* What a pending record, a call on chain and a live call are made of.
LEMMA Parts ==
    ASSUME DataInv
    PROVE  /\ pending # NONE => pending \in PendingRecord
           /\ pendingId # NONE =>
                 pendingId \in AttemptId /\ pending # NONE /\ pending.id = pendingId
           /\ HasIntent => pending.intent \in Intent /\ pending.intent \in Calls
           /\ \A i \in 1..Len(included) :
                 included[i] \in Included /\ included[i].tx \in Intent
           /\ Len(included) \in Nat /\ head \in Nat /\ Calls \subseteq Intent
           /\ MortalPeriod \in Nat
           /\ \A tx \in Intent : /\ tx.id \in AttemptId /\ tx.nonce \in Nat /\ tx.era \in Nat
                                 /\ tx.id.until \in Nat /\ tx.id.ver \in Nat
           /\ Settled \in Nat
<1> USE DEF DataInv, DataTypes, JournalFits, PendingFits
<1>1. pending # NONE => pending \in PendingRecord
  OBVIOUS
<1>2. pendingId # NONE => pendingId \in AttemptId /\ pending # NONE /\ pending.id = pendingId
  OBVIOUS
<1>3. HasIntent => pending.intent \in Intent /\ pending.intent \in Calls
  BY <1>1 DEF HasIntent, PendingRecord, Calls
<1>4. Calls \subseteq Intent
  BY <1>3 DEF Calls
<1>5. \A i \in 1..Len(included) : included[i] \in Included /\ included[i].tx \in Intent
  <2>1. \A i \in 1..Len(included) : included[i] \in Included
    OBVIOUS
  <2>2. \A e \in Included : e.tx \in Intent
    BY DEF Included
  <2>3. QED
    BY <2>1, <2>2
<1>6. Len(included) \in Nat /\ head \in Nat /\ MortalPeriod \in Nat
  BY ConstantsOK
<1>7. \A tx \in Intent : /\ tx.id \in AttemptId /\ tx.nonce \in Nat /\ tx.era \in Nat
                         /\ tx.id.until \in Nat /\ tx.id.ver \in Nat
  BY ConstantsOK DEF Intent, AttemptId, Versions
<1>8. Settled \in Nat
  BY <1>7 DEF Settled, FinalRecord
<1>9. QED
  BY <1>1, <1>2, <1>3, <1>4, <1>5, <1>6, <1>7, <1>8

\* A live call is the pending attempt, signed, and none of it is included.
LEMMA LiveIsPending ==
    ASSUME DataInv, NEW tx \in Live
    PROVE  /\ Signed /\ HasIntent /\ pendingId = tx.id /\ pending.intent = tx
           /\ tx \in Intent /\ OnChain(tx) = {}
<1>1. tx \in Intent /\ pendingId = tx.id /\ pending.intent = tx
  BY DEF DataInv, DataTypes, JournalFits, ChainFits, LiveIsFenced, Live
<1>2. pendingId # NONE
  BY <1>1, NoneFacts DEF Intent
<1>3. pending \in PendingRecord /\ pending.phase = "signed_intent"
  BY <1>1, <1>2, NoneFacts DEF DataInv, DataTypes, JournalFits, PendingFits, PendingRecord,
     Phases
<1>4. \A i \in 1..Len(included) : included[i].tx # tx
  BY <1>1, Parts DEF DataInv, JournalFits, ChainFits, Live
<1>5. QED
  BY <1>1, <1>2, <1>3, <1>4, NoneFacts DEF Signed, HasIntent, OnChain

\* A signed attempt is in the journal's history, and every call of its id is it.
LEMMA SignedFacts ==
    ASSUME DataInv, Signed
    PROVE  /\ HasIntent /\ pending.id = pendingId /\ pending.intent \in Intent
           /\ pending.intent.id = pendingId /\ pendingId \in attemptIds
           /\ pending.intent.nonce = Settled
           /\ pending.intent.era + MortalPeriod <= pendingId.until
           /\ \A tx \in Calls : tx.id = pendingId => tx = pending.intent
<1>1. pending # NONE /\ pending.id = pendingId /\ HasIntent
  BY DEF DataInv, JournalFits, PendingFits, Signed, HasIntent
<1>2. pending.intent \in Intent /\ pending.intent \in Calls
  BY <1>1, Parts
<1>3. pending.intent.id = pendingId /\ pendingId \in attemptIds
  BY <1>1 DEF DataInv, JournalFits, PendingFits, HasIntent
<1>4. QED
  BY <1>1, <1>2, <1>3 DEF DataInv, JournalFits, ChainFits

\* A call is included at most once.
LEMMA IncludedOnce ==
    ASSUME DataInv, NEW i \in 1..Len(included), NEW j \in 1..Len(included),
           included[i].tx = included[j].tx
    PROVE  i = j
BY Parts DEF DataInv, JournalFits, ChainFits

\* A signed attempt that is not on chain is the next call of the account.
LEMMA NotIncluded ==
    ASSUME DataInv, Signed, OnChain(pending.intent) = {}
    PROVE  Len(included) = Settled
<1>1. Len(included) \in Nat /\ Settled \in Nat
  BY Parts
<1>2. CASE Len(included) = Settled + 1 /\ included[Len(included)].tx = pending.intent
  <2>1. Len(included) \in 1..Len(included)
    BY <1>1, <1>2
  <2>2. QED
    BY <1>2, <2>1 DEF OnChain
<1>3. QED
  BY <1>2 DEF DataInv, JournalFits, ChainFits

\* The reservation is dropped: it was not signed, so nothing is live.
LEMMA AbortKeeps ==
    ASSUME DataInv, NEW id \in AttemptId, Unsigned(id), abort_unsigned_common_submission,
           UNCHANGED <<laneFile, approval, chain>>
    PROVE  DataInv'
<1> USE DEF DataInv, JournalFits
<1>0. UNCHANGED <<attemptIds, budgets, activeLane, highest, finalized, expired, launch,
                  continuous, laneFile, approval, head, pool, included>>
  BY DEF abort_unsigned_common_submission, chain
<1>1. pendingId' = NONE /\ pending' = NONE
  BY DEF abort_unsigned_common_submission
<1>2. Live = {}
  BY LiveIsPending DEF Unsigned, HasIntent
<1>3. ~Signed /\ Calls = pool
  BY NoneFacts DEF Unsigned, Signed, Calls, HasIntent
<1>4. DataTypes'
  BY <1>0, <1>1 DEF DataTypes
<1>5. PendingFits'
  BY <1>1 DEF PendingFits
<1>6. HistoryFits'
  <2>1. NONE \notin attemptIds
    BY NoneFacts DEF DataTypes
  <2>2. QED
    BY <1>0, <1>1, <2>1 DEF HistoryFits, Signed
<1>7. BudgetsFit'
  BY <1>0 DEF BudgetsFit, AttemptsUnder, BudgetRespected
<1>8. ChainFits'
  <2>1. Calls' = pool /\ ~Signed' /\ Live' = {} /\ Settled' = Settled
    BY <1>0, <1>1, <1>2 DEF Calls, HasIntent, Signed, Live, Settled
  <2>2. Len(included) = Settled
    BY <1>3 DEF ChainFits
  <2>3. QED
    BY <1>0, <1>3, <2>1, <2>2 DEF ChainFits, LiveIsFenced
<1>9. FinalizedIsOnChain' /\ ExpiredNeverIncluded' /\ ContinuousAfterLaunch'
  BY <1>0 DEF FinalizedIsOnChain, OnChain, Succeeded, ExpiredNeverIncluded, Live,
              ContinuousAfterLaunch
<1>10. QED
  BY <1>4, <1>5, <1>6, <1>7, <1>8, <1>9

\* Absence is conclusive: when the search expires nothing is live any more.
LEMMA AbsentIsFinal ==
    ASSUME DataInv, Signed, Locate(pending.intent) = "EXPIRED"
    PROVE  Live = {} /\ OnChain(pending.intent) = {}
<1> DEFINE tx == pending.intent
<1>1. /\ tx \in Intent /\ tx.id = pendingId /\ tx.era + MortalPeriod <= pendingId.until
      /\ HasIntent
  BY SignedFacts
<1>2. tx.era \in Nat /\ pendingId.until \in Nat /\ MortalPeriod \in Nat \ {0} /\ head \in Nat
  BY <1>1, Parts, ConstantsOK
<1>3. SearchUntil(tx) = tx.era + MortalPeriod /\ SearchFrom(tx) = tx.era
  BY <1>1, <1>2 DEF SearchUntil, SearchFrom
<1>4. SearchFrom(tx) < SearchUntil(tx)
  BY <1>2, <1>3
<1>5. ~Found(tx) /\ head >= SearchUntil(tx) - 1
  BY <1>4 DEF Locate
<1>6. OnChain(tx) = {}
  <2> SUFFICES ASSUME NEW i \in 1..Len(included), included[i].tx = tx
               PROVE  FALSE
    BY DEF OnChain
  <2>1. included[i].block \in Nat
    BY Parts DEF Included
  <2>2. tx.era < included[i].block /\ included[i].block < tx.era + MortalPeriod
    BY DEF DataInv, JournalFits, ChainFits
  <2>3. included[i].block \in SearchFrom(tx)..(SearchUntil(tx) - 1)
    BY <1>2, <1>3, <2>1, <2>2
  <2>4. QED
    BY <1>5, <2>3 DEF Found
<1>7. ASSUME NEW t \in Live
      PROVE  FALSE
  <2>1. t = tx
    BY LiveIsPending
  <2>2. head + 1 < tx.era + MortalPeriod
    BY <2>1 DEF Live
  <2>3. QED
    BY <1>2, <1>3, <1>5, <2>2
<1>8. QED
  BY <1>6, <1>7

\* The attempt that expired is retired: it is not on chain and cannot get there.
LEMMA ExpireKeeps ==
    ASSUME DataInv, Signed, Locate(pending.intent) = "EXPIRED",
           pendingId' = NONE, pending' = NONE, expired' = expired \cup {pendingId},
           launch' \in [ids : {launch.ids}, status : {launch.status, "expired"}],
           continuous' \in BOOLEAN, continuous' => continuous,
           UNCHANGED <<attemptIds, budgets, activeLane, highest, finalized, laneFile,
                       approval, chain>>
    PROVE  DataInv'
<1> USE DEF DataInv, JournalFits
<1>0. /\ UNCHANGED <<attemptIds, budgets, activeLane, highest, finalized,
                     laneFile, approval, head, pool, included>>
      /\ launch'.ids = launch.ids
  BY DEF chain
<1>1. Live = {} /\ OnChain(pending.intent) = {}
  BY AbsentIsFinal
<1>2. /\ pendingId \in AttemptId /\ pendingId \in attemptIds
      /\ \A tx \in Calls : tx.id = pendingId => tx = pending.intent
  BY SignedFacts, NoneFacts DEF DataTypes
<1>3. Len(included) = Settled
  BY <1>1, NotIncluded
<1>4. DataTypes'
  BY <1>0, <1>2 DEF DataTypes
<1>5. PendingFits'
  BY DEF PendingFits
<1>6. HistoryFits'
  <2>1. NONE \notin attemptIds
    BY NoneFacts DEF DataTypes
  <2>2. QED
    BY <1>0, <1>2, <2>1, NoneFacts DEF HistoryFits, Signed
<1>7. BudgetsFit'
  BY <1>0 DEF BudgetsFit, AttemptsUnder, BudgetRespected
<1>8. ChainFits'
  <2>1. Calls' = pool /\ ~Signed' /\ Live' = {} /\ Settled' = Settled /\ pool \subseteq Calls
    BY <1>0, <1>1 DEF Calls, HasIntent, Signed, Live, Settled
  <2>2. QED
    BY <1>0, <1>3, <2>1 DEF ChainFits, LiveIsFenced
<1>9. FinalizedIsOnChain'
  BY <1>0 DEF FinalizedIsOnChain, OnChain, Succeeded
<1>10. ExpiredNeverIncluded'
  <2>1. \A i \in 1..Len(included) : included[i].tx.id # pendingId
    BY <1>1, <1>2 DEF OnChain, ChainFits, Calls
  <2>2. Live' = {}
    BY <1>0, <1>1 DEF Live
  <2>3. QED
    BY <1>0, <2>1, <2>2 DEF ExpiredNeverIncluded
<1>11. ContinuousAfterLaunch'
  BY <1>0 DEF ContinuousAfterLaunch, Succeeded
<1>12. QED
  BY <1>4, <1>5, <1>6, <1>7, <1>8, <1>9, <1>10, <1>11

\* Notes on the pending record, its receipt and the state of its proof.
LEMMA NoteKeeps ==
    ASSUME DataInv, pending # NONE, NEW r \in PendingRecord, pending' = r,
           r.id = pending.id, r.phase = pending.phase, r.intent = pending.intent,
           r.scope = pending.scope, r.limit = pending.limit,
           r.phase = "unsigned_reserved" => r.receipt = NONE,
           r.receipt # NONE =>
               \E i \in OnChain(pending.intent) : included[i].block = r.receipt,
           UNCHANGED <<pendingId, attemptIds, budgets, activeLane, highest, finalized,
                       expired, launch, continuous, laneFile, approval, chain>>
    PROVE  DataInv'
<1> USE DEF DataInv, JournalFits
<1>0. UNCHANGED <<pendingId, attemptIds, budgets, activeLane, highest, finalized, expired,
                  launch, continuous, laneFile, approval, head, pool, included>>
  BY DEF chain
<1>1. pending' # NONE
  BY NoneFacts
<1>2. DataTypes'
  BY <1>0 DEF DataTypes
<1>3. PendingFits'
  BY <1>0, <1>1 DEF PendingFits, OnChain, LaunchSucceeded, Succeeded
<1>4. (Signed' <=> Signed) /\ (HasIntent' <=> HasIntent) /\ Calls' = Calls
      /\ Settled' = Settled /\ Live' = Live
  BY <1>0, <1>1 DEF Signed, HasIntent, Calls, Settled, Live
<1>5. HistoryFits'
  BY <1>0, <1>4 DEF HistoryFits
<1>6. BudgetsFit'
  BY <1>0 DEF BudgetsFit, AttemptsUnder, BudgetRespected
<1>7. ChainFits'
  BY <1>0, <1>4 DEF ChainFits, LiveIsFenced
<1>8. FinalizedIsOnChain' /\ ExpiredNeverIncluded' /\ ContinuousAfterLaunch'
  BY <1>0, <1>4 DEF FinalizedIsOnChain, OnChain, Succeeded, ExpiredNeverIncluded,
     ContinuousAfterLaunch
<1>9. QED
  BY <1>2, <1>3, <1>5, <1>6, <1>7, <1>8

\* A reservation is made when no attempt is pending, so nothing is live.
LEMMA ReserveKeeps ==
    ASSUME DataInv, pendingId = NONE, NEW id \in AttemptId, NEW r \in PendingRecord,
           id \notin attemptIds, pendingId' = id, pending' = r,
           r.id = id, r.phase = "unsigned_reserved", r.intent = NONE, r.receipt = NONE,
           id.launch => id.lane = "thin",
           id.auth # NONE => r.scope = id.auth /\ r.limit = AuthMax[id.auth],
           id.lane = "authority" => LaunchSucceeded,
           UNCHANGED <<attemptIds, budgets, activeLane, highest, finalized, expired,
                       launch, continuous, laneFile, approval, chain>>
    PROVE  DataInv'
<1> USE DEF DataInv, JournalFits
<1>0. UNCHANGED <<attemptIds, budgets, activeLane, highest, finalized, expired,
                  launch, continuous, laneFile, approval, head, pool, included>>
  BY DEF chain
<1>1. pending' # NONE /\ pendingId' # NONE
  BY NoneFacts
<1>2. Live = {} /\ ~Signed
  BY LiveIsPending DEF Signed
<1>3. DataTypes'
  BY <1>0 DEF DataTypes
<1>4. PendingFits'
  BY <1>0, <1>1 DEF PendingFits, LaunchSucceeded, Succeeded
<1>5. ~Signed' /\ Calls' = pool /\ pool \subseteq Calls
  BY <1>0 DEF Signed, HasIntent, Calls
<1>6. HistoryFits'
  BY <1>0, <1>5 DEF HistoryFits
<1>7. BudgetsFit'
  BY <1>0 DEF BudgetsFit, AttemptsUnder, BudgetRespected
<1>8. ChainFits'
  <2>1. Live' = {} /\ Settled' = Settled /\ Len(included) = Settled
    BY <1>0, <1>2 DEF Live, Settled, ChainFits
  <2>2. QED
    BY <1>0, <1>5, <2>1 DEF ChainFits, LiveIsFenced
<1>9. FinalizedIsOnChain' /\ ExpiredNeverIncluded' /\ ContinuousAfterLaunch'
  BY <1>0 DEF FinalizedIsOnChain, OnChain, Succeeded, ExpiredNeverIncluded,
              ContinuousAfterLaunch, Live
<1>10. QED
  BY <1>3, <1>4, <1>6, <1>7, <1>8, <1>9

\* The write that makes the attempt irreversible.
LEMMA CommitKeeps ==
    ASSUME DataInv, NEW id \in AttemptId, NEW intent \in Intent,
           intent.id = id, intent.nonce = Len(included),
           intent.era + MortalPeriod <= id.until,
           commit_pending_signed_attempt(id, intent),
           UNCHANGED <<laneFile, approval, chain>>
    PROVE  DataInv'
<1> USE DEF DataInv, JournalFits
<1>0. UNCHANGED <<pendingId, finalized, expired, continuous, laneFile, approval, head,
                  pool, included>>
  BY DEF commit_pending_signed_attempt, chain
<1> DEFINE r == [pending EXCEPT !.phase = "signed_intent", !.intent = intent]
<1>1. /\ Unsigned(id) /\ id \notin attemptIds /\ LaneAllowed(id)
      /\ BudgetLeft(pending.scope, pending.limit)
      /\ id.launch => launch.ids = {}
      /\ id.ver > highest[id.lane]
      /\ attemptIds' = attemptIds \cup {id}
      /\ budgets' = [s \in Scopes |->
                        budgets[s] \cup (IF s = pending.scope THEN {id} ELSE {})]
      /\ activeLane' = id.lane
      /\ highest' = [highest EXCEPT ![id.lane] = id.ver]
      /\ pending' = r
  BY DEF commit_pending_signed_attempt
<1>2. /\ launch'.ids = (IF id.launch THEN {id} ELSE launch.ids)
      /\ launch' \in [ids : SUBSET AttemptId,
                      status : {"none", "pending", "finalized", "expired"}]
  BY DEF commit_pending_signed_attempt, DataTypes
<1>3. /\ pending \in PendingRecord /\ pendingId = id /\ pending.id = id
      /\ pending.receipt = NONE
  BY <1>1, NoneFacts DEF Unsigned, DataTypes, PendingFits
<1>4. /\ r \in PendingRecord /\ r.id = id /\ r.phase = "signed_intent" /\ r.intent = intent
      /\ r.receipt = NONE /\ r.scope = pending.scope /\ r.limit = pending.limit
  BY <1>3 DEF PendingRecord, Phases
<1> HIDE DEF r
<1>5. Live = {} /\ ~Signed /\ Calls = pool
  BY <1>1, LiveIsPending, NoneFacts DEF Unsigned, HasIntent, Signed, Calls
<1>6. id.lane \in Lanes /\ id.ver \in Versions /\ id.ver \in Int /\ id # NONE
  BY NoneFacts, ConstantsOK DEF AttemptId, Versions
<1>7. pending' # NONE /\ Signed' /\ HasIntent'
  BY <1>0, <1>1, <1>3, <1>4, <1>6, NoneFacts DEF Signed, HasIntent
<1>8. DataTypes'
  <2>1. budgets' \in [Scopes -> SUBSET AttemptId]
    BY <1>1 DEF DataTypes
  <2>2. highest' \in [Lanes -> {-1} \cup Versions]
    BY <1>1, <1>6 DEF DataTypes
  <2>3. QED
    BY <1>0, <1>1, <1>2, <1>4, <1>6, <2>1, <2>2 DEF DataTypes
<1>9. id.launch => id.lane = "thin"
  BY <1>1, <1>3, NoneFacts DEF PendingFits
<1>10. PendingFits'
  <2>1. id.lane = "authority" => LaunchSucceeded'
    BY <1>0, <1>2, <1>3, <1>9, NoneFacts DEF PendingFits, LaunchSucceeded, Succeeded
  <2>2. id.auth # NONE => r.scope = id.auth /\ r.limit = AuthMax[id.auth]
    BY <1>3, <1>4, NoneFacts DEF PendingFits
  <2>3. intent # NONE
    BY NoneFacts
  <2>4. /\ pending'.id = id /\ pending'.phase = "signed_intent"
        /\ pending'.intent = intent /\ pending'.receipt = NONE
        /\ pending'.scope = r.scope /\ pending'.limit = r.limit
        /\ pendingId' = id /\ id \in attemptIds' /\ pending' # NONE
    BY <1>0, <1>1, <1>3, <1>4, <1>7
  <2>5. QED
    BY <1>9, <2>1, <2>2, <2>3, <2>4 DEF PendingFits
<1>11. HistoryFits'
  <2>1. expired' \subseteq attemptIds' /\ pendingId' \notin expired'
    BY <1>0, <1>1, <1>3 DEF HistoryFits
  <2>2. \A l \in Lanes : highest[l] \in Int
    BY ConstantsOK DEF DataTypes, Versions
  <2>3. \A jd \in attemptIds : jd \in AttemptId /\ jd.lane \in Lanes /\ jd.ver \in Int
    BY ConstantsOK DEF DataTypes, AttemptId, Versions
  <2>4. \A jd \in attemptIds : jd.lane = id.lane => jd.ver < id.ver
    BY <1>1, <1>6, <2>2, <2>3 DEF HistoryFits
  <2>5. \A jd \in attemptIds' : jd.ver <= highest'[jd.lane]
    <3>1. highest'[id.lane] = id.ver
      BY <1>1, <1>6 DEF DataTypes
    <3>2. \A l \in Lanes : l # id.lane => highest'[l] = highest[l]
      BY <1>1 DEF DataTypes
    <3>3. \A jd \in attemptIds : jd.ver <= highest'[jd.lane]
      BY <1>6, <2>3, <2>4, <3>1, <3>2 DEF HistoryFits
    <3>4. QED
      BY <1>1, <1>6, <3>1, <3>3
  <2>6. \A jd \in attemptIds' : jd.launch => jd.lane = "thin" /\ jd \in launch'.ids
    BY <1>1, <1>2, <1>9 DEF HistoryFits
  <2>7. \A jd \in attemptIds' : activeLane' \in {"authority", jd.lane}
    <3>1. \A jd \in attemptIds : activeLane # NONE
      BY <2>3, NoneFacts DEF HistoryFits, Lanes
    <3>2. \A jd \in attemptIds : activeLane' \in {"authority", jd.lane}
      BY <1>1, <3>1 DEF HistoryFits, LaneAllowed
    <3>3. QED
      BY <1>1, <3>2
  <2>8. \A jd \in launch'.ids : jd.launch /\ \A kd \in launch'.ids : jd = kd
    BY <1>2 DEF HistoryFits
  <2>9. \A jd \in attemptIds' \ {id} : jd.lane = id.lane => jd.ver < id.ver
    BY <1>1, <2>4
  <2>10. finalized' # NONE => finalized'.intent.id = finalized'.id
                              /\ finalized'.id \in attemptIds'
    BY <1>0, <1>1 DEF HistoryFits
  <2>11. QED
    BY <1>0, <1>1, <1>3, <2>1, <2>5, <2>6, <2>7, <2>8, <2>9, <2>10 DEF HistoryFits
<1>12. BudgetsFit'
  <2>1. \A s \in Scopes : budgets'[s] \in {budgets[s], budgets[s] \cup {id}}
    BY <1>1
  <2>2. \A s \in Scopes : IsFiniteSet(budgets'[s])
    BY <2>1, FS_AddElement DEF BudgetsFit
  <2>3. ASSUME NEW a \in Auths
        PROVE  /\ AttemptsUnder(a)' \subseteq budgets'[a]
               /\ Cardinality(AttemptsUnder(a)') <= AuthMax[a]
    <3>0. a \in Scopes /\ a # NONE /\ AuthMax[a] \in Nat
      BY NoneFacts, ConstantsOK DEF Scopes
    <3>1. CASE id.auth = a
      <4>1. AttemptsUnder(a)' = AttemptsUnder(a) \cup {id} /\ id \notin AttemptsUnder(a)
        BY <1>1, <3>1 DEF AttemptsUnder
      <4>2. pending.scope = a /\ pending.limit = AuthMax[a]
        BY <1>3, <3>0, <3>1, NoneFacts DEF PendingFits
      <4>3. IsFiniteSet(budgets[a]) /\ AttemptsUnder(a) \subseteq budgets[a]
        BY <3>0 DEF BudgetsFit
      <4>4. Cardinality(budgets[a]) < AuthMax[a] /\ Cardinality(budgets[a]) \in Nat
        BY <1>1, <3>0, <4>2, <4>3, FS_CardinalityType DEF BudgetLeft
      <4>5. /\ IsFiniteSet(AttemptsUnder(a)) /\ Cardinality(AttemptsUnder(a)) \in Nat
            /\ Cardinality(AttemptsUnder(a)) <= Cardinality(budgets[a])
        BY <4>3, FS_Subset, FS_CardinalityType
      <4>6. Cardinality(AttemptsUnder(a) \cup {id}) = Cardinality(AttemptsUnder(a)) + 1
        BY <4>1, <4>5, FS_AddElement
      <4>7. budgets'[a] = budgets[a] \cup {id}
        BY <1>1, <3>0, <4>2
      <4>8. QED
        BY <3>0, <4>1, <4>3, <4>4, <4>5, <4>6, <4>7
    <3>2. CASE id.auth # a
      <4>1. AttemptsUnder(a)' = AttemptsUnder(a)
        BY <1>1, <3>2 DEF AttemptsUnder
      <4>2. QED
        BY <2>1, <3>0, <4>1 DEF BudgetsFit, BudgetRespected, AttemptsUnder
    <3>3. QED
      BY <3>1, <3>2
  <2>4. QED
    BY <2>2, <2>3 DEF BudgetsFit, BudgetRespected, AttemptsUnder
<1>13. ChainFits'
  <2>1. Calls' = pool \cup {intent} /\ Live' = {} /\ Settled' = Settled
    BY <1>0, <1>1, <1>4, <1>5, <1>7 DEF Calls, Live, Settled
  <2>2. Len(included) = Settled /\ Len(included) \in Nat
    BY <1>5, Parts DEF ChainFits
  <2>3. \A tx \in pool : tx.id \in attemptIds /\ tx.id # id
    BY <1>1, <1>5 DEF ChainFits
  <2>4. \A tx \in Calls' :
          /\ tx.id \in attemptIds'
          /\ tx.nonce <= Len(included')
          /\ tx.era + MortalPeriod <= tx.id.until
          /\ \A ty \in Calls' : tx.id = ty.id => tx = ty
    BY <1>0, <1>1, <1>5, <2>1, <2>2, <2>3 DEF ChainFits
  <2>5. QED
    BY <1>0, <1>1, <1>4, <1>7, <2>1, <2>2, <2>4 DEF ChainFits, LiveIsFenced
<1>14. FinalizedIsOnChain'
  <2>1. highest'["thin"] >= highest["thin"]
    BY <1>1, <1>6, ConstantsOK DEF DataTypes, Versions, Lanes
  <2>2. laneFile.fence \in Int /\ highest["thin"] \in Int /\ highest'["thin"] \in Int
    BY <1>8, ConstantsOK DEF DataTypes, LaneFile, Versions, Lanes
  <2>3. QED
    BY <1>0, <2>1, <2>2 DEF FinalizedIsOnChain, OnChain, Succeeded
<1>15. ExpiredNeverIncluded'
  BY <1>0 DEF ExpiredNeverIncluded, Live
<1>16. ContinuousAfterLaunch'
  BY <1>0, <1>1, <1>2 DEF ContinuousAfterLaunch, Succeeded
<1>17. QED
  BY <1>8, <1>10, <1>11, <1>12, <1>13, <1>14, <1>15, <1>16

\* The call is handed to the node: it is the pending one already.
LEMMA BroadcastKeeps ==
    ASSUME DataInv, Signed, pool' = pool \cup {pending.intent},
           UNCHANGED <<journal, laneFile, approval, head, included>>
    PROVE  DataInv'
<1> USE DEF DataInv, JournalFits
<1>0. UNCHANGED <<pendingId, pending, attemptIds, budgets, activeLane, highest, finalized,
                  expired, launch, continuous, laneFile, approval, head, included>>
  BY DEF journal
<1>1. /\ HasIntent /\ pending.intent \in Intent /\ pending.intent.id = pendingId
      /\ pendingId \in attemptIds
  BY SignedFacts
<1>2. Calls' = Calls /\ Settled' = Settled /\ Signed' = Signed
  BY <1>0, <1>1 DEF Calls, HasIntent, Settled, Signed
<1>3. Live' \subseteq Live \cup {pending.intent}
  BY <1>0 DEF Live
<1>4. DataTypes'
  BY <1>0, <1>1 DEF DataTypes
<1>5. PendingFits' /\ HistoryFits' /\ BudgetsFit'
  BY <1>0 DEF PendingFits, HistoryFits, BudgetsFit, OnChain, Signed, LaunchSucceeded,
              Succeeded, AttemptsUnder, BudgetRespected
<1>6. LiveIsFenced'
  BY <1>0, <1>1, <1>3 DEF ChainFits, LiveIsFenced
<1>7. ChainFits'
  BY <1>0, <1>2, <1>6 DEF ChainFits
<1>8. ExpiredNeverIncluded'
  BY <1>0, <1>1, <1>3 DEF ExpiredNeverIncluded, HistoryFits
<1>9. FinalizedIsOnChain' /\ ContinuousAfterLaunch'
  BY <1>0 DEF FinalizedIsOnChain, OnChain, Succeeded, ContinuousAfterLaunch
<1>10. QED
  BY <1>4, <1>5, <1>7, <1>8, <1>9

\* The attempt is on chain and executed: its nonce is used up.
LEMMA FinalizeKeeps ==
    ASSUME DataInv, Signed, finalize_common_submission(pendingId),
           pending.receipt # NONE, \E i \in OnChain(pending.intent) : included[i].ok,
           UNCHANGED <<laneFile, approval, chain>>
    PROVE  DataInv'
<1> USE DEF DataInv, JournalFits
<1>0. UNCHANGED <<attemptIds, budgets, activeLane, highest, expired, laneFile, approval,
                  head, pool, included>>
  BY DEF finalize_common_submission, chain
<1> DEFINE r == [pending EXCEPT !.proof = "PASS"]
<1> DEFINE f == [id |-> pendingId, intent |-> pending.intent, block |-> pending.receipt]
<1>1. pendingId' = NONE /\ pending' = r /\ finalized' = f
  BY DEF finalize_common_submission
<1>2. /\ launch' \in [ids : {launch.ids}, status : {launch.status, "finalized"}]
      /\ continuous' \in BOOLEAN /\ (continuous' => continuous)
  BY DEF finalize_common_submission, DataTypes
<1>3. /\ HasIntent /\ pending.id = pendingId /\ pending.intent \in Intent
      /\ pending.intent.id = pendingId /\ pendingId \in attemptIds
      /\ pendingId \in AttemptId /\ pending.intent.nonce = Settled
      /\ pending \in PendingRecord
  BY SignedFacts, Parts DEF DataTypes, HasIntent
<1>4. /\ r \in PendingRecord /\ r.id = pending.id /\ r.phase = pending.phase
      /\ r.intent = pending.intent /\ r.receipt = pending.receipt
      /\ r.scope = pending.scope /\ r.limit = pending.limit
  BY <1>3 DEF PendingRecord, Proofs
<1>5. /\ f \in FinalRecord /\ f.id = pendingId /\ f.intent = pending.intent
      /\ f.block = pending.receipt
  BY <1>3 DEF FinalRecord, PendingRecord
<1> HIDE DEF r, f
<1>6. PICK i \in OnChain(pending.intent) : included[i].ok
  OBVIOUS
<1>7. i \in 1..Len(included) /\ included[i].tx = pending.intent
  BY <1>6 DEF OnChain
<1>8. included[i].block = pending.receipt
  <2>1. PICK j \in OnChain(pending.intent) : included[j].block = pending.receipt
    BY <1>3 DEF PendingFits, HasIntent
  <2>2. j \in 1..Len(included) /\ included[j].tx = pending.intent
    BY <2>1 DEF OnChain
  <2>3. i = j
    BY <1>7, <2>2, IncludedOnce
  <2>4. QED
    BY <2>1, <2>3
<1>9. Live = {} /\ Live' = {}
  <2>1. Live = {}
    BY <1>6, LiveIsPending
  <2>2. QED
    BY <1>0, <2>1 DEF Live
<1>10. Len(included) = Settled + 1 /\ Settled \in Nat
  <2>1. Settled = i - 1 /\ i \in 1..Len(included)
    BY <1>3, <1>7 DEF ChainFits
  <2>2. Len(included) \in Nat /\ Settled \in Nat
    BY Parts
  <2>3. Len(included) \in {Settled, Settled + 1}
    BY DEF ChainFits
  <2>4. QED
    BY <2>1, <2>2, <2>3
<1>11. Settled' = Settled + 1
  BY <1>1, <1>3, <1>5, NoneFacts DEF Settled
<1>12. DataTypes'
  BY <1>0, <1>1, <1>2, <1>4, <1>5 DEF DataTypes
<1>13. launch'.ids = launch.ids
  BY <1>2
<1>14. PendingFits'
  BY <1>0, <1>1, <1>3, <1>4, <1>13, NoneFacts DEF PendingFits, OnChain, LaunchSucceeded,
     Succeeded, HasIntent
<1>15. HistoryFits'
  <2>1. NONE \notin expired /\ ~Signed'
    BY <1>1, NoneFacts DEF DataTypes, Signed
  <2>2. QED
    BY <1>0, <1>1, <1>3, <1>5, <1>13, <2>1 DEF HistoryFits
<1>16. BudgetsFit'
  BY <1>0 DEF BudgetsFit, AttemptsUnder, BudgetRespected
<1>17. ChainFits'
  <2>1. Calls' = Calls /\ ~Signed'
    BY <1>0, <1>1, <1>3, <1>4, NoneFacts DEF Calls, HasIntent, Signed
  <2>2. QED
    BY <1>0, <1>9, <1>10, <1>11, <2>1 DEF ChainFits, LiveIsFenced
<1>18. FinalizedIsOnChain'
  BY <1>0, <1>1, <1>5, <1>6, <1>7, <1>8 DEF FinalizedIsOnChain, OnChain, Succeeded
<1>19. ExpiredNeverIncluded'
  BY <1>0, <1>9 DEF ExpiredNeverIncluded
<1>20. ContinuousAfterLaunch'
  BY <1>0, <1>2, <1>13 DEF ContinuousAfterLaunch, Succeeded
<1>21. QED
  BY <1>12, <1>14, <1>15, <1>16, <1>17, <1>18, <1>19, <1>20

\* A lane file that mirrors what succeeded and is not ahead of the journal.
LEMMA LaneKeeps ==
    ASSUME DataInv, NEW f \in LaneFile, laneFile' = f,
           \A id \in f.ids : Succeeded(id), f.fence <= highest["thin"],
           UNCHANGED <<journal, approval, chain>>
    PROVE  DataInv'
<1> USE DEF DataInv, JournalFits
<1>0. UNCHANGED <<pendingId, pending, attemptIds, budgets, activeLane, highest, finalized,
                  expired, launch, continuous, approval, head, pool, included>>
  BY DEF journal, chain
<1>1. DataTypes'
  BY <1>0 DEF DataTypes
<1>2. PendingFits' /\ HistoryFits' /\ BudgetsFit'
  BY <1>0 DEF PendingFits, HistoryFits, BudgetsFit, OnChain, Signed, LaunchSucceeded,
              Succeeded, AttemptsUnder, BudgetRespected
<1>3. ChainFits'
  BY <1>0 DEF ChainFits, Calls, HasIntent, Settled, LiveIsFenced, Live, Signed
<1>4. FinalizedIsOnChain' /\ ExpiredNeverIncluded' /\ ContinuousAfterLaunch'
  BY <1>0 DEF FinalizedIsOnChain, OnChain, Succeeded, ExpiredNeverIncluded, Live,
              ContinuousAfterLaunch
<1>5. QED
  BY <1>1, <1>2, <1>3, <1>4

\* What operators write beside the processes.
LEMMA OperatorKeeps ==
    ASSUME DataInv, LaunchPreflight \/ ReconcileLaunch
    PROVE  DataInv'
<1> USE DEF DataInv, JournalFits
<1>0. UNCHANGED <<pendingId, pending, attemptIds, budgets, activeLane, highest, finalized,
                  expired, launch, laneFile, head, pool, included>>
  BY DEF LaunchPreflight, ReconcileLaunch, journal, chain
<1>1. /\ approval' \in BOOLEAN /\ continuous' \in BOOLEAN
      /\ continuous' => continuous \/ \E id \in launch.ids : Succeeded(id)
  <2>1. CASE LaunchPreflight
    BY <2>1 DEF LaunchPreflight, journal, DataTypes
  <2>2. CASE ReconcileLaunch
    BY <2>2 DEF ReconcileLaunch, Succeeded, DataTypes
  <2>3. QED
    BY <2>1, <2>2
<1>2. DataTypes'
  BY <1>0, <1>1 DEF DataTypes
<1>3. PendingFits' /\ HistoryFits' /\ BudgetsFit'
  BY <1>0 DEF PendingFits, HistoryFits, BudgetsFit, OnChain, Signed, LaunchSucceeded,
              Succeeded, AttemptsUnder, BudgetRespected
<1>4. ChainFits'
  BY <1>0 DEF ChainFits, Calls, HasIntent, Settled, LiveIsFenced, Live, Signed
<1>5. FinalizedIsOnChain' /\ ExpiredNeverIncluded'
  BY <1>0 DEF FinalizedIsOnChain, OnChain, Succeeded, ExpiredNeverIncluded, Live
<1>6. ContinuousAfterLaunch'
  BY <1>0, <1>1 DEF ContinuousAfterLaunch, Succeeded
<1>7. QED
  BY <1>2, <1>3, <1>4, <1>5, <1>6

\* What is on chain stays, and only a live call joins it.
LEMMA BlockAdds ==
    ASSUME DataInv, FinalizeBlock
    PROVE  \/ included' = included
           \/ \E tx \in Live, ok \in BOOLEAN :
                 /\ included' = Append(included, [tx |-> tx, block |-> head + 1, ok |-> ok])
                 /\ tx.era < head + 1
<1>1. \A tx \in pool : tx \in Intent
  BY DEF DataInv, DataTypes
<1>2. QED
  BY <1>1, ConstantsOK DEF FinalizeBlock, Includable, Live

LEMMA AppendFacts ==
    ASSUME NEW S, NEW s \in Seq(S), NEW e \in S
    PROVE  /\ Append(s, e) \in Seq(S) /\ Len(Append(s, e)) = Len(s) + 1
           /\ \A i \in 1..Len(s) : Append(s, e)[i] = s[i]
           /\ Append(s, e)[Len(s) + 1] = e /\ Len(s) \in Nat
OBVIOUS

\* What was on chain stays where it was.
LEMMA ChainGrows ==
    ASSUME DataInv, FinalizeBlock
    PROVE  /\ included' \in Seq(Included)
           /\ 1..Len(included) \subseteq 1..Len(included')
           /\ \A i \in 1..Len(included) : included'[i] = included[i]
<1>1. CASE included' = included
  BY <1>1 DEF DataInv, DataTypes
<1>2. ASSUME NEW tx \in Live, NEW ok \in BOOLEAN,
             included' = Append(included, [tx |-> tx, block |-> head + 1, ok |-> ok])
      PROVE  /\ included' \in Seq(Included)
             /\ 1..Len(included) \subseteq 1..Len(included')
             /\ \A i \in 1..Len(included) : included'[i] = included[i]
  <2> DEFINE e == [tx |-> tx, block |-> head + 1, ok |-> ok]
  <2>1. e \in Included
    BY LiveIsPending, Parts DEF Included
  <2>2. included' = Append(included, e) /\ included \in Seq(Included)
    BY <1>2 DEF DataInv, DataTypes
  <2> HIDE DEF e
  <2>3. QED
    BY <2>1, <2>2, AppendFacts
<1>3. QED
  BY <1>1, <1>2, BlockAdds

\* A block is finalized, with the live call or without.
LEMMA BlockKeeps ==
    ASSUME DataInv, FinalizeBlock
    PROVE  DataInv'
<1> USE DEF DataInv, JournalFits
<1>0. /\ UNCHANGED <<pendingId, pending, attemptIds, budgets, activeLane, highest,
                     finalized, expired, launch, continuous, laneFile, approval, pool>>
      /\ head' = head + 1 /\ head < MaxHead
  BY DEF FinalizeBlock, journal
<1>1. /\ included' \in Seq(Included)
      /\ 1..Len(included) \subseteq 1..Len(included')
      /\ \A i \in 1..Len(included) : included'[i] = included[i]
  BY ChainGrows
<1>4. DataTypes'
  BY <1>0, <1>1, ConstantsOK DEF DataTypes
<1>5. Calls' = Calls /\ Settled' = Settled /\ Signed' = Signed
  BY <1>0 DEF Calls, HasIntent, Settled, Signed
<1>6. PendingFits'
  <2>1. LaunchSucceeded => LaunchSucceeded'
    BY <1>0, <1>1 DEF LaunchSucceeded, Succeeded
  <2>2. ASSUME pending # NONE, pending.receipt # NONE
        PROVE  \E i \in OnChain(pending.intent)' : included'[i].block = pending'.receipt
    <3>1. PICK i \in OnChain(pending.intent) : included[i].block = pending.receipt
      BY <2>2 DEF PendingFits
    <3>2. i \in OnChain(pending.intent)' /\ included'[i] = included[i]
      BY <1>0, <1>1, <3>1 DEF OnChain
    <3>3. QED
      BY <1>0, <3>1, <3>2
  <2>3. QED
    BY <1>0, <2>1, <2>2 DEF PendingFits, OnChain
<1>7. HistoryFits' /\ BudgetsFit'
  BY <1>0 DEF HistoryFits, BudgetsFit, Signed, AttemptsUnder, BudgetRespected
<1>8. FinalizedIsOnChain' /\ ContinuousAfterLaunch'
  <2>1. ContinuousAfterLaunch'
    BY <1>0, <1>1 DEF Succeeded, ContinuousAfterLaunch
  <2>2. ASSUME finalized # NONE
        PROVE  \E i \in OnChain(finalized.intent)' :
                   included'[i].ok /\ included'[i].block = finalized'.block
    <3>1. PICK i \in OnChain(finalized.intent) :
                   included[i].ok /\ included[i].block = finalized.block
      BY <2>2 DEF FinalizedIsOnChain
    <3>2. i \in OnChain(finalized.intent)' /\ included'[i] = included[i]
      BY <1>0, <1>1, <3>1 DEF OnChain
    <3>3. QED
      BY <1>0, <3>1, <3>2
  <2>3. \A id \in laneFile'.ids : Succeeded(id)'
    BY <1>0, <1>1 DEF FinalizedIsOnChain, Succeeded
  <2>4. QED
    BY <1>0, <2>1, <2>2, <2>3 DEF FinalizedIsOnChain
<1>9. CASE included' = included
  <2>1. Live' \subseteq Live
    <3> SUFFICES ASSUME NEW tx \in Live' PROVE tx \in Live
      OBVIOUS
    <3>1. tx \in Intent /\ tx.era \in Nat /\ head \in Nat
      BY <1>0, Parts DEF Live, DataTypes
    <3>2. QED
      BY <1>0, <1>9, <3>1, ConstantsOK DEF Live
  <2>2. LiveIsFenced'
    BY <1>0, <2>1 DEF ChainFits, LiveIsFenced
  <2>3. ChainFits'
    BY <1>0, <1>5, <1>9, <2>2 DEF ChainFits
  <2>4. ExpiredNeverIncluded'
    BY <1>0, <1>9, <2>1 DEF ExpiredNeverIncluded
  <2>5. QED
    BY <1>4, <1>6, <1>7, <1>8, <2>3, <2>4
<1>10. ASSUME NEW tx \in Live, NEW ok \in BOOLEAN,
              included' = Append(included, [tx |-> tx, block |-> head + 1, ok |-> ok]),
              tx.era < head + 1
       PROVE  DataInv'
  <2> DEFINE e == [tx |-> tx, block |-> head + 1, ok |-> ok]
  <2>1. /\ Signed /\ HasIntent /\ pendingId = tx.id /\ pending.intent = tx
        /\ tx \in Intent /\ OnChain(tx) = {}
    BY LiveIsPending
  <2>2. e \in Included /\ e.tx = tx /\ e.block = head + 1
    BY <2>1, Parts DEF Included
  <2>3. included' = Append(included, e) /\ included \in Seq(Included)
    BY <1>10 DEF DataTypes
  <2> HIDE DEF e
  <2>4. /\ Len(included') = Len(included) + 1
        /\ included'[Len(included) + 1] = e /\ Len(included) \in Nat
    BY <2>2, <2>3, AppendFacts
  <2>5. Len(included) = Settled
    BY <2>1, NotIncluded
  <2>6. tx \in pool /\ tx.nonce = Len(included) /\ head + 1 < tx.era + MortalPeriod
    BY DEF Live
  <2>7. \A i \in 1..Len(included') :
            i \in 1..Len(included) \/ i = Len(included) + 1
    BY <2>4
  <2>8. \A i \in 1..Len(included') :
            /\ included'[i].tx \in pool
            /\ included'[i].tx.nonce = i - 1
            /\ included'[i].tx.era < included'[i].block
            /\ included'[i].block < included'[i].tx.era + MortalPeriod
    <3>1. \A i \in 1..Len(included) :
            /\ included'[i].tx \in pool
            /\ included'[i].tx.nonce = i - 1
            /\ included'[i].tx.era < included'[i].block
            /\ included'[i].block < included'[i].tx.era + MortalPeriod
      BY <1>1 DEF ChainFits
    <3>2. LET i == Len(included) + 1
          IN  /\ included'[i].tx \in pool
              /\ included'[i].tx.nonce = i - 1
              /\ included'[i].tx.era < included'[i].block
              /\ included'[i].block < included'[i].tx.era + MortalPeriod
      BY <1>10, <2>2, <2>4, <2>6
    <3>3. QED
      BY <2>7, <3>1, <3>2
  <2>9. Live' = {}
    <3> SUFFICES ASSUME NEW t \in Live' PROVE FALSE
      OBVIOUS
    <3>1. t \in pool /\ t.nonce = Len(included) + 1
      BY <1>0, <2>4 DEF Live
    <3>2. t.nonce <= Len(included)
      BY <3>1 DEF ChainFits, Calls
    <3>3. QED
      BY <2>4, <3>1, <3>2
  <2>10. \A t \in Calls : t.nonce <= Len(included')
    BY <2>4, Parts DEF ChainFits
  <2>11. included'[Len(included')].tx = pending.intent
    BY <2>1, <2>2, <2>4
  <2>12. ChainFits'
    BY <1>0, <1>5, <2>1, <2>4, <2>5, <2>8, <2>9, <2>10, <2>11 DEF ChainFits, LiveIsFenced
  <2>13. ExpiredNeverIncluded'
    <3>1. tx.id \notin expired
      BY <2>1 DEF HistoryFits
    <3>2. \A i \in 1..Len(included') : included'[i].tx.id \notin expired
      BY <1>1, <2>2, <2>4, <2>7, <3>1 DEF ExpiredNeverIncluded
    <3>3. QED
      BY <1>0, <2>9, <3>2 DEF ExpiredNeverIncluded
  <2>14. QED
    BY <1>4, <1>6, <1>7, <1>8, <2>12, <2>13
<1>11. QED
  BY <1>9, <1>10, BlockAdds

----------------------------------------------------------------------------
(* One lemma per action of a process                                        *)

LEMMA DataOf ==
    ASSUME SubmissionInv
    PROVE  DataInv /\ DataTypes /\ PendingFits /\ HistoryFits /\ FinalizedIsOnChain
BY DEF SubmissionInv, DataInv, JournalFits

\* A process at work that changes nothing shared and leaves.
LEMMA QuietLeave ==
    ASSUME SubmissionInv, NEW p \in Procs, pc[p] \notin AtRest,
           \/ ToLoop(p) \/ ExitNotProven(p) \/ ExitContradiction(p),
           UNCHANGED dataVars
    PROVE  SubmissionInv'
BY AtWork, DataOf, DataStays, LeaveStep

\* The same of one that stays at rest, or comes to it.
LEMMA QuietRest ==
    ASSUME SubmissionInv, NEW p \in Procs, NEW to \in AtRest,
           pc' = [pc EXCEPT ![p] = to], UNCHANGED <<mine, lock, crashes>>,
           UNCHANGED dataVars
    PROVE  SubmissionInv'
<1>1. mine[p] \in Mine /\ mine' = [mine EXCEPT ![p] = mine[p]] /\ pc'[p] = to
      /\ crashes' \in 0..MaxCrashes
  BY DEF SubmissionInv, ProcInv, ProcTypes
<1>2. PICK m \in Mine : m = mine[p]
  BY <1>1
<1>3. Moved(p, to, m) /\ lock' = lock
  BY <1>1, <1>2 DEF Moved
<1>4. to \in PCs
  BY DEF AtRest, PCs
<1>5. Place(p)'
  BY <1>1, NoPlace
<1>6. QED
  BY <1>1, <1>3, <1>4, <1>5, QuietStep

LEMMA StartKeeps ==
    ASSUME SubmissionInv, NEW p \in Procs, Start(p) \/ RecoverUnavailable(p) \/ Stop(p)
    PROVE  SubmissionInv'
<1>1. UNCHANGED dataVars /\ UNCHANGED <<mine, lock, crashes>>
  BY DEF Start, RecoverUnavailable, Stop, Goto, dataVars
<1>2. \E to \in AtRest : pc' = [pc EXCEPT ![p] = to]
  BY DEF Start, RecoverUnavailable, Stop, Goto, AtRest
<1>3. QED
  BY <1>1, <1>2, QuietRest

LEMMA CrashKeeps ==
    ASSUME SubmissionInv, NEW p \in Procs, Crash(p)
    PROVE  SubmissionInv'
<1>1. Moved(p, "down", NoMine) /\ pc'[p] = "down" /\ UNCHANGED dataVars
  BY DEF Crash, Moved, SubmissionInv, ProcInv, ProcTypes, dataVars
<1>2. crashes' \in 0..MaxCrashes
  BY ConstantsOK DEF Crash, SubmissionInv, ProcInv, ProcTypes
<1>3. NoMine \in Mine /\ "down" \in PCs /\ "down" \in AtRest
  BY DEF NoMine, Mine, PCs, AtRest
<1>4. \/ lock = p /\ (lock' = p \/ (lock' = NONE /\ "down" \in AtRest))
      \/ lock = NONE /\ lock' = p
      \/ lock' = lock /\ "down" \in AtRest
  BY <1>3 DEF Crash
<1>5. Place(p)'
  BY <1>1, <1>3, NoPlace
<1>6. QED
  BY <1>1, <1>2, <1>3, <1>4, <1>5, QuietStep

LEMMA RecoverEnterKeeps ==
    ASSUME SubmissionInv, NEW p \in Procs, RecoverEnter(p)
    PROVE  SubmissionInv'
<1> DEFINE m0 == [NoMine EXCEPT !.id = pendingId, !.recovery = TRUE]
<1>1. m0 \in Mine /\ m0.id = pendingId
  BY DataOf DEF DataTypes, Mine, NoMine
<1>2. PICK m \in Mine : m = m0
  BY <1>1
<1>3. /\ Moved(p, "recovering", m) /\ UNCHANGED dataVars
      /\ lock = NONE /\ lock' = p /\ crashes' = crashes
  BY <1>2 DEF RecoverEnter, Acquire, Moved, dataVars
<1>4. pc'[p] = "recovering" /\ mine'[p].id = pendingId'
  BY <1>1, <1>2, <1>3 DEF Moved, SubmissionInv, ProcInv, ProcTypes, dataVars, journal
<1>5. Place(p)'
  BY <1>4 DEF Place
<1>6. "recovering" \in PCs
  BY DEF PCs
<1>7. DataInv'
  BY <1>3, DataOf, DataStays
<1>8. QED
  BY <1>3, <1>5, <1>6, <1>7, WorkStep

LEMMA QuietExitsKeep ==
    ASSUME SubmissionInv, NEW p \in Procs,
           \/ RecoverNothing(p) \/ RecoverMismatch(p) \/ RecoverRefused(p) \/ TickEnds(p)
           \/ AuthorizeFails(p) \/ SubmitUnknown(p) \/ WriteLaneFails(p)
    PROVE  SubmissionInv'
<1>1. UNCHANGED dataVars /\ pc[p] \notin AtRest
  BY DEF RecoverNothing, RecoverMismatch, RecoverRefused, TickEnds, AuthorizeFails,
         SubmitUnknown, WriteLaneFails, dataVars, AtRest
<1>2. ToLoop(p) \/ ExitNotProven(p) \/ ExitContradiction(p)
  BY DEF RecoverNothing, RecoverMismatch, RecoverRefused, TickEnds, AuthorizeFails,
         SubmitUnknown, WriteLaneFails
<1>3. QED
  BY <1>1, <1>2, QuietLeave

\* What the lane file becomes when it mirrors an attempt that succeeded.
LEMMA MirrorKeeps ==
    ASSUME DataInv, finalized # NONE, NEW r \in AttemptId \cup {NONE},
           laneFile' = WithLane(finalized.id, r), UNCHANGED <<journal, approval, chain>>
    PROVE  DataInv'
<1> USE DEF DataInv, JournalFits
<1> DEFINE id == finalized.id
<1>1. /\ id \in AttemptId /\ id \in attemptIds /\ finalized.intent.id = id
      /\ finalized.intent \in Intent
  BY DEF DataTypes, FinalRecord, HistoryFits
<1>2. Succeeded(id)
  BY <1>1 DEF FinalizedIsOnChain, OnChain, Succeeded
<1>3. id.ver \in Versions /\ id.ver <= highest[id.lane] /\ id.lane \in Lanes
  BY <1>1 DEF HistoryFits, AttemptId
<1>4. laneFile \in LaneFile
  BY DEF DataTypes
<1>5. /\ WithLane(id, r) \in LaneFile
      /\ WithLane(id, r).ids = laneFile.ids \cup {id}
      /\ WithLane(id, r).fence = (IF id.lane = "thin" THEN id.ver ELSE laneFile.fence)
  <2>1. CASE id.lane = "thin"
    BY <1>1, <1>3, <1>4, <2>1 DEF WithLane, LaneFile
  <2>2. CASE id.lane # "thin"
    BY <1>1, <1>4, <2>2 DEF WithLane, LaneFile
  <2>3. QED
    BY <2>1, <2>2
<1>6. PICK f \in LaneFile : f = WithLane(id, r)
  BY <1>5
<1>7. f.fence <= highest["thin"] /\ \A jd \in f.ids : Succeeded(jd)
  BY <1>2, <1>3, <1>5, <1>6 DEF FinalizedIsOnChain
<1>8. laneFile' = f
  BY <1>6
<1> HIDE DEF DataInv, JournalFits
<1>9. QED
  BY <1>7, <1>8, LaneKeeps

LEMMA RecoverMirrorKeeps ==
    ASSUME SubmissionInv, NEW p \in Procs, RecoverMirror(p)
    PROVE  SubmissionInv'
<1>1. lock = p
  BY AtWork DEF RecoverMirror, AtRest
<1>2. /\ finalized # NONE /\ ToLoop(p)
      /\ laneFile' = WithLane(finalized.id, finalized.id)
      /\ UNCHANGED <<journal, approval, chain>>
  BY DEF RecoverMirror, MirrorNeeded
<1>3. finalized.id \in AttemptId
  BY <1>2, DataOf DEF DataTypes, FinalRecord
<1>4. PICK r \in AttemptId \cup {NONE} : r = finalized.id
  BY <1>3
<1>5. DataInv'
  BY <1>2, <1>4, DataOf, MirrorKeeps
<1>6. QED
  BY <1>1, <1>2, <1>5, LeaveStep

LEMMA WriteLaneKeeps ==
    ASSUME SubmissionInv, NEW p \in Procs, WriteLane(p)
    PROVE  SubmissionInv'
<1>1. /\ lock = p /\ finalized # NONE /\ finalized.id = mine[p].id
  BY AtWork DEF WriteLane, AtRest, Place
<1>2. ToLoop(p) /\ UNCHANGED <<journal, approval, chain>>
  BY DEF WriteLane
<1>3. \E r \in AttemptId \cup {NONE} : laneFile' = WithLane(finalized.id, r)
  <2>1. finalized.id \in AttemptId
    BY <1>1, DataOf DEF DataTypes, FinalRecord
  <2>2. laneFile' = WithLane(finalized.id, IF mine[p].recovery THEN finalized.id ELSE NONE)
    BY <1>1 DEF WriteLane
  <2>3. QED
    BY <2>1, <2>2
<1>4. DataInv'
  BY <1>1, <1>2, <1>3, DataOf, MirrorKeeps
<1>5. QED
  BY <1>1, <1>2, <1>4, LeaveStep

LEMMA AbortStepKeeps ==
    ASSUME SubmissionInv, NEW p \in Procs, RecoverUnsigned(p) \/ SubmitAborts(p)
    PROVE  SubmissionInv'
<1>1. lock = p /\ Place(p)
  BY AtWork DEF RecoverUnsigned, SubmitAborts, AtRest
<1>2. \E id \in AttemptId : Unsigned(id)
  <2>1. CASE RecoverUnsigned(p)
    BY <2>1, DataOf DEF RecoverUnsigned, DataTypes
  <2>2. CASE SubmitAborts(p)
    BY <1>1, <2>2, DataOf DEF SubmitAborts, Place, Unsigned, DataTypes
  <2>3. QED
    BY <2>1, <2>2
<1>3. /\ abort_unsigned_common_submission /\ ToLoop(p)
      /\ UNCHANGED <<laneFile, approval, chain>>
  BY DEF RecoverUnsigned, SubmitAborts
<1>4. DataInv'
  BY <1>2, <1>3, DataOf, AbortKeeps
<1>5. QED
  BY <1>1, <1>3, <1>4, LeaveStep

LEMMA ExpireStepKeeps ==
    ASSUME SubmissionInv, NEW p \in Procs, RecoverExpire(p)
    PROVE  SubmissionInv'
<1>1. lock = p
  BY AtWork DEF RecoverExpire, Searching, AtRest
<1>2. Signed /\ Locate(pending.intent) = "EXPIRED" /\ ToLoop(p)
  BY DEF RecoverExpire, Searching, Signed
<1>3. /\ pendingId' = NONE /\ pending' = NONE /\ expired' = expired \cup {pendingId}
      /\ launch' \in [ids : {launch.ids}, status : {launch.status, "expired"}]
      /\ continuous' \in BOOLEAN /\ (continuous' => continuous)
      /\ UNCHANGED <<attemptIds, budgets, activeLane, highest, finalized, laneFile,
                     approval, chain>>
  BY DataOf DEF RecoverExpire, DataTypes
<1>4. DataInv'
  BY <1>2, <1>3, DataOf, ExpireKeeps
<1>5. QED
  BY <1>1, <1>2, <1>4, LeaveStep

\* A status noted on a signed attempt changes nothing a place speaks of.
LEMMA ProofNoted ==
    ASSUME DataInv, Signed, NEW status \in Proofs, SetProof(status),
           UNCHANGED <<laneFile, approval, chain>>
    PROVE  /\ DataInv' /\ Signed' /\ pendingId' = pendingId /\ included' = included
           /\ pending'.intent = pending.intent /\ pending'.receipt = pending.receipt
<1>1. pending \in PendingRecord /\ pending # NONE
  BY Parts, SignedFacts DEF HasIntent
<1>2. PICK r \in PendingRecord :
          /\ r = [pending EXCEPT !.proof = status]
          /\ r.id = pending.id /\ r.phase = pending.phase /\ r.intent = pending.intent
          /\ r.scope = pending.scope /\ r.limit = pending.limit
          /\ r.receipt = pending.receipt
  <2> DEFINE e == [pending EXCEPT !.proof = status]
  <2>1. /\ e \in PendingRecord
        /\ e.id = pending.id /\ e.phase = pending.phase /\ e.intent = pending.intent
        /\ e.scope = pending.scope /\ e.limit = pending.limit
        /\ e.receipt = pending.receipt
    BY <1>1 DEF PendingRecord
  <2> HIDE DEF e
  <2>2. \E r \in PendingRecord : r = e
    BY <2>1
  <2>3. QED
    BY <2>1, <2>2 DEF e
<1>3. /\ pending' = r
      /\ UNCHANGED <<pendingId, attemptIds, budgets, activeLane, highest, finalized,
                     expired, launch, continuous, laneFile, approval, chain>>
  BY <1>2 DEF SetProof
<1>4. /\ r.phase = "unsigned_reserved" => r.receipt = NONE
      /\ r.receipt # NONE =>
             \E i \in OnChain(pending.intent) : included[i].block = r.receipt
  BY <1>1, <1>2 DEF DataInv, JournalFits, PendingFits
<1>5. DataInv'
  BY <1>1, <1>2, <1>3, <1>4, NoteKeeps
<1>6. Signed' /\ included' = included
  BY <1>1, <1>2, <1>3 DEF Signed, chain
<1>7. QED
  BY <1>2, <1>3, <1>5, <1>6

\* The same of the block a receipt names, which is the block of the call.
LEMMA ReceiptNoted ==
    ASSUME DataInv, Signed, NEW block \in Nat, RecordReceipt(pendingId, block),
           \E i \in OnChain(pending.intent) : included[i].block = block,
           UNCHANGED <<laneFile, approval, chain>>
    PROVE  /\ DataInv' /\ Signed' /\ pendingId' = pendingId
           /\ pending'.receipt # NONE
<1>1. pending \in PendingRecord /\ pending # NONE /\ pending.phase = "signed_intent"
  BY Parts, SignedFacts DEF HasIntent
<1>2. PICK r \in PendingRecord :
          /\ r = [pending EXCEPT !.receipt = block, !.proof = "pending"]
          /\ r.id = pending.id /\ r.phase = pending.phase /\ r.intent = pending.intent
          /\ r.scope = pending.scope /\ r.limit = pending.limit
          /\ r.receipt = block
  <2> DEFINE e == [pending EXCEPT !.receipt = block, !.proof = "pending"]
  <2>1. /\ e \in PendingRecord
        /\ e.id = pending.id /\ e.phase = pending.phase /\ e.intent = pending.intent
        /\ e.scope = pending.scope /\ e.limit = pending.limit
        /\ e.receipt = block
    BY <1>1 DEF PendingRecord, Proofs
  <2> HIDE DEF e
  <2>2. \E r \in PendingRecord : r = e
    BY <2>1
  <2>3. QED
    BY <2>1, <2>2 DEF e
<1>3. /\ pending' = r
      /\ UNCHANGED <<pendingId, attemptIds, budgets, activeLane, highest, finalized,
                     expired, launch, continuous, laneFile, approval, chain>>
  BY <1>2 DEF RecordReceipt
<1>4. DataInv'
  BY <1>1, <1>2, <1>3, NoteKeeps
<1>5. Signed' /\ pending'.receipt # NONE
  BY <1>1, <1>2, <1>3, NoneFacts DEF Signed
<1>6. QED
  BY <1>3, <1>4, <1>5

LEMMA RecoverUnprovenKeeps ==
    ASSUME SubmissionInv, NEW p \in Procs, RecoverUnproven(p)
    PROVE  SubmissionInv'
<1>1. lock = p /\ Signed
  BY AtWork DEF RecoverUnproven, Searching, AtRest, Signed
<1>2. PICK status \in {Locate(pending.intent), "NOT_PROVEN"} \ {"PASS", "EXPIRED"} :
          /\ SetProof(status)
          /\ IF status = "FAIL" THEN ExitContradiction(p) ELSE ExitNotProven(p)
  BY DEF RecoverUnproven
<1>3. Locate(pending.intent) \in {"FAIL", "PASS", "EXPIRED", "NOT_PROVEN"}
  BY DEF Locate
<1>4. status \in Proofs
  BY <1>3 DEF Proofs
<1>5. UNCHANGED <<laneFile, approval, chain>>
  BY DEF RecoverUnproven
<1>6. DataInv'
  BY <1>1, <1>2, <1>4, <1>5, DataOf, ProofNoted
<1>7. QED
  BY <1>1, <1>2, <1>6, LeaveStep

LEMMA RecoverLocatedKeeps ==
    ASSUME SubmissionInv, NEW p \in Procs, RecoverLocated(p)
    PROVE  SubmissionInv'
<1>1. lock = p /\ Signed /\ mine[p].id = pendingId
  BY AtWork DEF RecoverLocated, Searching, AtRest, Signed, Place
<1>2. /\ SetProof("PASS") /\ "PASS" \in Proofs /\ UNCHANGED <<laneFile, approval, chain>>
      /\ Goto(p, "found") /\ "found" \in PCs
  BY DEF RecoverLocated, Proofs, PCs
<1>3. /\ DataInv' /\ Signed' /\ pendingId' = pendingId /\ included' = included
      /\ pending'.intent = pending.intent
  BY <1>1, <1>2, DataOf, ProofNoted
<1>4. OnChain(pending.intent) # {}
  BY DEF RecoverLocated, Locate, Found, OnChain
<1>5. pc'[p] = "found" /\ mine' = mine
  BY <1>2 DEF Goto, SubmissionInv, ProcInv, ProcTypes
<1>6. Place(p)'
  BY <1>1, <1>3, <1>4, <1>5 DEF Place, OnChain
<1>7. QED
  BY <1>1, <1>2, <1>3, <1>6, GoOnStep

LEMMA RecoverReceiptKeeps ==
    ASSUME SubmissionInv, NEW p \in Procs, RecoverReceipt(p)
    PROVE  SubmissionInv'
<1>1. lock = p /\ Signed /\ mine[p].id = pendingId /\ pending.receipt # NONE
  BY AtWork DEF RecoverReceipt, AtRest, Signed, Place
<1>2. Goto(p, "receipted") /\ "receipted" \in PCs /\ UNCHANGED dataVars
  BY DEF RecoverReceipt, PCs, dataVars
<1>3. pc'[p] = "receipted" /\ mine' = mine
  BY <1>2 DEF Goto, SubmissionInv, ProcInv, ProcTypes
<1>4. Place(p)'
  BY <1>1, <1>2, <1>3 DEF Place, Signed, dataVars, journal
<1>5. DataInv'
  BY <1>2, DataOf, DataStays
<1>6. QED
  BY <1>1, <1>2, <1>4, <1>5, GoOnStep

LEMMA RecoverRecordKeeps ==
    ASSUME SubmissionInv, NEW p \in Procs, RecoverRecord(p)
    PROVE  SubmissionInv'
<1>1. /\ lock = p /\ Signed /\ pendingId = mine[p].id /\ OnChain(pending.intent) # {}
  BY AtWork DEF RecoverRecord, AtRest, Place
<1>2. /\ RecordReceipt(pendingId, BlockOf(pending.intent))
      /\ UNCHANGED <<laneFile, approval, chain>>
      /\ Goto(p, "receipted") /\ "receipted" \in PCs
  BY <1>1 DEF RecoverRecord, PCs
<1>3. \E i \in OnChain(pending.intent) : included[i].block = BlockOf(pending.intent)
  <2> DEFINE c == CHOOSE i \in 1..Len(included) : included[i].tx = pending.intent
  <2>1. c \in 1..Len(included) /\ included[c].tx = pending.intent
    BY <1>1 DEF OnChain
  <2>2. QED
    BY <2>1 DEF OnChain, BlockOf
<1>4. BlockOf(pending.intent) \in Nat
  BY <1>3, DataOf, Parts DEF OnChain, Included
<1>5. PICK block \in Nat : block = BlockOf(pending.intent)
  BY <1>4
<1>6. DataInv' /\ Signed' /\ pendingId' = pendingId /\ pending'.receipt # NONE
  BY <1>1, <1>2, <1>3, <1>5, DataOf, ReceiptNoted
<1>7. pc'[p] = "receipted" /\ mine' = mine
  BY <1>2 DEF Goto, SubmissionInv, ProcInv, ProcTypes
<1>8. Place(p)'
  BY <1>1, <1>6, <1>7 DEF Place
<1>9. QED
  BY <1>1, <1>2, <1>6, <1>8, GoOnStep

LEMMA TickStartKeeps ==
    ASSUME SubmissionInv, NEW p \in Procs, TickStart(p)
    PROVE  SubmissionInv'
<1>1. PICK a \in Auths \cup {NONE} :
          /\ IF Recurring(p) THEN require_continuous_launch_transition(p, a) ELSE a = NONE
          /\ mine' = [mine EXCEPT ![p] = [NoMine EXCEPT !.block = head, !.auth = a]]
  BY DEF TickStart
<1> DEFINE m0 == [NoMine EXCEPT !.block = head, !.auth = a]
<1>2. m0 \in Mine
  BY DataOf, Parts DEF Mine, NoMine
<1>3. PICK m \in Mine : m = m0
  BY <1>2
<1>4. /\ Moved(p, "ticking", m) /\ lock = NONE /\ lock' = p /\ crashes' = crashes
      /\ UNCHANGED dataVars /\ "ticking" \in PCs
  BY <1>1, <1>3 DEF TickStart, Acquire, Moved, dataVars, PCs
<1>5. Mode[p] = "authority" => LaunchSucceeded
  <2>1. Mode[p] = "authority" => continuous
    BY <1>1 DEF Recurring, continuous_transition_required,
                require_continuous_launch_transition
  <2>2. continuous => LaunchSucceeded
    BY DEF SubmissionInv, DataInv, JournalFits, ContinuousAfterLaunch, LaunchSucceeded
  <2>3. QED
    BY <2>1, <2>2
<1>6. pc'[p] = "ticking"
  BY <1>4 DEF Moved, SubmissionInv, ProcInv, ProcTypes
<1>7. Place(p)'
  BY <1>4, <1>5, <1>6 DEF Place, LaunchSucceeded, Succeeded, dataVars, journal, chain
<1>8. DataInv'
  BY <1>4, DataOf, DataStays
<1>9. QED
  BY <1>4, <1>7, <1>8, WorkStep

LEMMA AuditKeeps ==
    ASSUME SubmissionInv, NEW p \in Procs, Audit(p)
    PROVE  SubmissionInv'
<1>1. lock = p /\ mine[p] \in Mine /\ (Mode[p] = "authority" => LaunchSucceeded)
  BY AtWork DEF Audit, AtRest, Place
<1> DEFINE m0 == [mine[p] EXCEPT !.block = head]
<1>2. m0 \in Mine
  BY <1>1, DataOf, Parts DEF Mine
<1>3. PICK m \in Mine : m = m0
  BY <1>2
<1>4. /\ Moved(p, "audited", m) /\ lock' = lock /\ crashes' = crashes
      /\ UNCHANGED <<journal, approval, chain>> /\ "audited" \in PCs
  BY <1>3 DEF Audit, Moved, PCs
<1>5. DataInv'
  <2>1. CASE laneFile' = laneFile
    BY <1>4, <2>1, DataOf, DataStays DEF dataVars
  <2>2. ASSUME NEW e \in Versions, laneFile' = [laneFile EXCEPT !.source = e]
        PROVE  DataInv'
    <3>1. laneFile \in LaneFile
      BY DataOf DEF DataTypes
    <3>2. PICK f \in LaneFile :
              f = [laneFile EXCEPT !.source = e] /\ f.ids = laneFile.ids
              /\ f.fence = laneFile.fence
      <4> DEFINE g == [laneFile EXCEPT !.source = e]
      <4>1. g \in LaneFile /\ g.ids = laneFile.ids /\ g.fence = laneFile.fence
        BY <3>1 DEF LaneFile
      <4> HIDE DEF g
      <4>2. \E f \in LaneFile : f = g
        BY <4>1
      <4>3. QED
        BY <4>1, <4>2 DEF g
    <3>3. /\ laneFile' = f /\ f.fence <= highest["thin"]
          /\ \A id \in f.ids : Succeeded(id)
      BY <2>2, <3>2, DataOf DEF FinalizedIsOnChain
    <3>4. QED
      BY <1>4, <3>3, DataOf, LaneKeeps
  <2>3. QED
    BY <2>1, <2>2 DEF Audit
<1>6. pc'[p] = "audited"
  BY <1>4 DEF Moved, SubmissionInv, ProcInv, ProcTypes
<1>7. Place(p)'
  BY <1>1, <1>4, <1>6 DEF Place, LaunchSucceeded, Succeeded, journal, chain
<1>8. QED
  BY <1>1, <1>4, <1>5, <1>7, WorkStep

\* What a tick derives is an attempt of its lane, and its budget is named.
LEMMA DerivedFacts ==
    ASSUME SubmissionInv, NEW p \in Procs, mine[p] \in Mine, NEW id \in Derivable(p)
    PROVE  /\ id \in AttemptId /\ id.lane = LaneOf(p) /\ id.launch = (Mode[p] = "launch")
           /\ BudgetScope(p, id) \in Scopes \cup {NONE} /\ BudgetLimit(p, id) \in Nat
           /\ LaneTransition(id) \in Lanes \cup {NONE}
           /\ id.auth # NONE => BudgetScope(p, id) = id.auth
                                /\ BudgetLimit(p, id) = AuthMax[id.auth]
<1>1. /\ id.lane = LaneOf(p) /\ id.launch = (Mode[p] = "launch") /\ id \in AttemptId
  <2>1. PICK w \in Windows : id.until = mine[p].block + w
    BY DEF Derivable
  <2>2. id.until \in Nat /\ mine[p].auth \in Auths \cup {NONE} /\ LaneOf(p) \in Lanes
    BY <2>1, ConstantsOK DEF Mine, LaneOf, Lanes
  <2>3. QED
    BY <2>2 DEF Derivable, AttemptId
<1>2. id.auth \in Auths \cup {NONE} /\ id.launch \in BOOLEAN
  BY <1>1 DEF AttemptId
<1>3. BudgetScope(p, id) \in Scopes \cup {NONE}
      /\ (id.auth # NONE => BudgetScope(p, id) = id.auth)
  <2>1. CASE id.auth # NONE
    BY <1>2, <2>1 DEF BudgetScope, Scopes
  <2>2. CASE id.auth = NONE /\ MaxSubmissions[p] = 0
    BY <2>2 DEF BudgetScope
  <2>3. CASE id.auth = NONE /\ MaxSubmissions[p] # 0
    <3>1. MaxSubmissions[p] > 0
      BY <2>3, ConstantsOK
    <3>2. BudgetScope(p, id) \in {"launch_full_gate", "thin_bounded", "authority_bounded"}
      BY <2>3, <3>1 DEF BudgetScope
    <3>3. QED
      BY <2>3, <3>2 DEF Scopes
  <2>4. QED
    BY <2>1, <2>2, <2>3
<1>4. BudgetLimit(p, id) \in Nat
  BY <1>2, ConstantsOK DEF BudgetLimit
<1>5. LaneTransition(id) \in Lanes \cup {NONE}
  BY DataOf DEF LaneTransition, DataTypes
<1>6. QED
  BY <1>1, <1>3, <1>4, <1>5 DEF BudgetLimit

LEMMA ReserveStepKeeps ==
    ASSUME SubmissionInv, NEW p \in Procs, Reserve(p)
    PROVE  SubmissionInv'
<1>1. /\ lock = p /\ mine[p] \in Mine /\ (Mode[p] = "authority" => LaunchSucceeded)
  BY AtWork DEF Reserve, AtRest, Place
<1>2. PICK id \in Derivable(p) :
          /\ ReservationAllowed(p, id)
          /\ pendingId' = id
          /\ pending' = [id |-> id, block |-> mine[p].block,
                         phase |-> "unsigned_reserved", intent |-> NONE,
                         receipt |-> NONE, proof |-> "none",
                         scope |-> BudgetScope(p, id),
                         limit |-> BudgetLimit(p, id),
                         from |-> LaneTransition(id)]
          /\ mine' = [mine EXCEPT ![p].id = id]
  BY DEF Reserve
<1>3. /\ id \in AttemptId /\ id.lane = LaneOf(p) /\ id.launch = (Mode[p] = "launch")
      /\ BudgetScope(p, id) \in Scopes \cup {NONE} /\ BudgetLimit(p, id) \in Nat
      /\ LaneTransition(id) \in Lanes \cup {NONE}
      /\ (id.auth # NONE => BudgetScope(p, id) = id.auth
                            /\ BudgetLimit(p, id) = AuthMax[id.auth])
  BY <1>1, DerivedFacts
<1> DEFINE r0 == [id |-> id, block |-> mine[p].block, phase |-> "unsigned_reserved",
                  intent |-> NONE, receipt |-> NONE, proof |-> "none",
                  scope |-> BudgetScope(p, id), limit |-> BudgetLimit(p, id),
                  from |-> LaneTransition(id)]
<1> DEFINE m0 == [mine[p] EXCEPT !.id = id]
<1>4. /\ r0 \in PendingRecord /\ r0.id = id /\ r0.phase = "unsigned_reserved"
      /\ r0.intent = NONE /\ r0.receipt = NONE /\ r0.block = mine[p].block
      /\ r0.scope = BudgetScope(p, id) /\ r0.limit = BudgetLimit(p, id)
  BY <1>1, <1>3 DEF PendingRecord, Mine, Phases, Proofs
<1>5. m0 \in Mine /\ m0.id = id /\ m0.block = mine[p].block
  BY <1>1, <1>3 DEF Mine
<1>6. pending' = r0 /\ mine' = [mine EXCEPT ![p] = m0]
  BY <1>2
<1> HIDE DEF r0, m0
<1>7. PICK r \in PendingRecord : r = r0
  BY <1>4
<1>8. PICK m \in Mine : m = m0
  BY <1>5
<1>9. /\ UNCHANGED <<attemptIds, budgets, activeLane, highest, finalized, expired,
                     launch, continuous, laneFile, approval, lock, crashes, chain>>
      /\ Moved(p, "reserved", m) /\ "reserved" \in PCs
  BY <1>6, <1>8 DEF Reserve, Moved, PCs
<1>10. /\ (id.launch => id.lane = "thin") /\ (id.lane = "authority" => LaunchSucceeded)
  BY <1>1, <1>3 DEF LaneOf
<1>11. pendingId = NONE /\ id \notin attemptIds
  BY <1>2 DEF ReservationAllowed
<1>12. DataInv'
  BY <1>2, <1>3, <1>4, <1>6, <1>7, <1>9, <1>10, <1>11, DataOf, ReserveKeeps
<1>13. pc'[p] = "reserved" /\ mine'[p] = m
  BY <1>9 DEF Moved, SubmissionInv, ProcInv, ProcTypes
<1>14. Unsigned(mine[p].id)' /\ mine'[p].id # NONE /\ pending'.block = mine'[p].block
  BY <1>2, <1>3, <1>4, <1>5, <1>6, <1>7, <1>8, <1>13, NoneFacts DEF Unsigned
<1>15. Place(p)'
  BY <1>13, <1>14 DEF Place
<1>16. QED
  BY <1>1, <1>9, <1>12, <1>15, WorkStep

LEMMA AuthorizeKeeps ==
    ASSUME SubmissionInv, NEW p \in Procs, Authorize(p)
    PROVE  SubmissionInv'
<1>1. /\ lock = p /\ mine[p].id # NONE /\ Unsigned(mine[p].id)
      /\ pending.block = mine[p].block
  BY AtWork DEF Authorize, AtRest, Place
<1>2. /\ Goto(p, "authorized") /\ "authorized" \in PCs /\ UNCHANGED dataVars
      /\ InclusionPolicyReady(pendingId, pending.block)
  BY DEF Authorize, PCs, dataVars
<1>3. pc'[p] = "authorized" /\ mine' = mine
  BY <1>2 DEF Goto, SubmissionInv, ProcInv, ProcTypes
<1>4. UNCHANGED <<pendingId, pending>>
  BY <1>2 DEF dataVars, journal
<1>5. Place(p)'
  BY <1>1, <1>2, <1>3, <1>4 DEF Place, Unsigned, InclusionPolicyReady
<1>6. DataInv'
  BY <1>2, DataOf, DataStays
<1>7. QED
  BY <1>1, <1>2, <1>5, <1>6, GoOnStep

\* The nonce it signs with is the account's next: nothing of ours is in flight.
LEMMA SignKeeps ==
    ASSUME SubmissionInv, NEW p \in Procs, Sign(p)
    PROVE  SubmissionInv'
<1>1. /\ lock = p /\ mine[p] \in Mine /\ mine[p].id # NONE /\ Unsigned(mine[p].id)
      /\ pending.block = mine[p].block
      /\ InclusionPolicyReady(pendingId, pending.block)
  BY AtWork DEF Sign, AtRest, Place
<1>2. PICK id \in AttemptId : id = mine[p].id /\ id = pendingId
  BY <1>1 DEF Mine, Unsigned
<1>3. mine[p].block \in Nat /\ id.until \in Nat /\ MortalPeriod \in Nat
  BY <1>1, <1>2, ConstantsOK DEF Mine, AttemptId
<1>4. mine[p].block + MortalPeriod <= id.until
  BY <1>1, <1>2, <1>3 DEF InclusionPolicyReady
<1>5. get_account_next_index = Len(included) /\ Len(included) \in Nat
  <2>1. Live = {}
    BY <1>1, DataOf, LiveIsPending DEF Unsigned, HasIntent
  <2>2. Cardinality(Live) = 0
    BY <2>1, FS_EmptySet
  <2>3. QED
    BY <2>2, DataOf, Parts DEF get_account_next_index
<1> DEFINE t0 == [id |-> mine[p].id, nonce |-> get_account_next_index,
                  era |-> mine[p].block]
<1>6. t0 \in Intent /\ t0.id = id /\ t0.nonce = Len(included) /\ t0.era = mine[p].block
  BY <1>2, <1>3, <1>5 DEF Intent
<1>7. commit_pending_signed_attempt(id, t0)
  BY <1>2 DEF Sign
<1> HIDE DEF t0
<1>8. PICK t \in Intent : t = t0
  BY <1>6
<1>9. /\ Goto(p, "signed") /\ "signed" \in PCs /\ UNCHANGED <<laneFile, approval, chain>>
  BY DEF Sign, PCs
<1>10. DataInv'
  BY <1>4, <1>6, <1>7, <1>8, <1>9, DataOf, CommitKeeps
<1>11. pc'[p] = "signed" /\ mine' = mine
  BY <1>9 DEF Goto, SubmissionInv, ProcInv, ProcTypes
<1>12. pending \in PendingRecord
  BY <1>1, DataOf, Parts DEF Unsigned
<1>13. Signed' /\ pendingId' = mine[p].id
  BY <1>1, <1>2, <1>7, <1>12 DEF commit_pending_signed_attempt, Signed, PendingRecord
<1>14. Place(p)'
  BY <1>11, <1>13 DEF Place
<1>15. QED
  BY <1>1, <1>9, <1>10, <1>14, GoOnStep

LEMMA BroadcastStepKeeps ==
    ASSUME SubmissionInv, NEW p \in Procs, Broadcast(p)
    PROVE  SubmissionInv'
<1>1. lock = p /\ Signed /\ pendingId = mine[p].id
  BY AtWork DEF Broadcast, AtRest, Place
<1>2. /\ pool' = pool \cup {pending.intent} /\ Goto(p, "submitted") /\ "submitted" \in PCs
      /\ UNCHANGED <<journal, laneFile, approval, head, included>>
  BY DEF Broadcast, PCs
<1>3. DataInv'
  BY <1>1, <1>2, DataOf, BroadcastKeeps
<1>4. pc'[p] = "submitted" /\ mine' = mine
  BY <1>2 DEF Goto, SubmissionInv, ProcInv, ProcTypes
<1>5. Place(p)'
  BY <1>1, <1>2, <1>4 DEF Place, Signed, journal
<1>6. QED
  BY <1>1, <1>2, <1>3, <1>5, GoOnStep

LEMMA SubmitReceiptKeeps ==
    ASSUME SubmissionInv, NEW p \in Procs, SubmitReceipt(p)
    PROVE  SubmissionInv'
<1>1. lock = p /\ Signed /\ pendingId = mine[p].id
  BY AtWork DEF SubmitReceipt, AtRest, Place
<1>2. UNCHANGED <<laneFile, approval, chain>>
  BY DEF SubmitReceipt
<1>3. PICK i \in OnChain(pending.intent) :
          \/ /\ RecordReceipt(mine[p].id, included[i].block)
             /\ Goto(p, "receipted")
          \/ ExitContradiction(p) /\ UNCHANGED journal
  BY DEF SubmitReceipt
<1>4. CASE ExitContradiction(p) /\ UNCHANGED journal
  <2>1. DataInv'
    BY <1>2, <1>4, DataOf, DataStays DEF dataVars
  <2>2. QED
    BY <1>1, <1>4, <2>1, LeaveStep
<1>5. CASE RecordReceipt(mine[p].id, included[i].block) /\ Goto(p, "receipted")
  <2>1. included[i].block \in Nat
    BY <1>3, DataOf, Parts DEF OnChain, Included
  <2>2. PICK block \in Nat : block = included[i].block
    BY <2>1
  <2>3. RecordReceipt(pendingId, block)
        /\ \E j \in OnChain(pending.intent) : included[j].block = block
    BY <1>1, <1>3, <1>5, <2>2
  <2>4. DataInv' /\ Signed' /\ pendingId' = pendingId /\ pending'.receipt # NONE
    BY <1>1, <1>2, <2>3, DataOf, ReceiptNoted
  <2>5. pc'[p] = "receipted" /\ mine' = mine /\ "receipted" \in PCs
    BY <1>5 DEF Goto, SubmissionInv, ProcInv, ProcTypes, PCs
  <2>6. Place(p)'
    BY <1>1, <2>4, <2>5 DEF Place
  <2>7. QED
    BY <1>1, <1>5, <2>4, <2>5, <2>6, GoOnStep
<1>6. QED
  BY <1>3, <1>4, <1>5

LEMMA ClassifyKeeps ==
    ASSUME SubmissionInv, NEW p \in Procs, Classify(p)
    PROVE  SubmissionInv'
<1>1. lock = p /\ Signed /\ pendingId = mine[p].id /\ pending.receipt # NONE
  BY AtWork DEF Classify, AtRest, Place
<1>2. UNCHANGED <<laneFile, approval, chain>>
  BY DEF Classify
<1>3. PICK status \in classify_finalized_receipt(pending.intent) :
          /\ SetProof(status)
          /\ CASE status = "PASS" -> Goto(p, "proved")
               [] status = "FAIL" -> ExitContradiction(p)
               [] OTHER -> ExitNotProven(p)
  BY DEF Classify
<1>4. /\ status \in {"PASS", "FAIL", "NOT_PROVEN"} /\ status \in Proofs
      /\ status = "PASS" => \E i \in OnChain(pending.intent) : included[i].ok
  BY DEF classify_finalized_receipt, Proofs
<1>5. /\ DataInv' /\ Signed' /\ pendingId' = pendingId /\ included' = included
      /\ pending'.intent = pending.intent /\ pending'.receipt = pending.receipt
  BY <1>1, <1>2, <1>3, <1>4, DataOf, ProofNoted
<1>6. CASE status = "PASS"
  <2>1. Goto(p, "proved") /\ "proved" \in PCs
    BY <1>3, <1>6 DEF PCs
  <2>2. pc'[p] = "proved" /\ mine' = mine
    BY <2>1 DEF Goto, SubmissionInv, ProcInv, ProcTypes
  <2>3. Place(p)'
    BY <1>1, <1>4, <1>5, <1>6, <2>2 DEF Place, OnChain
  <2>4. QED
    BY <1>1, <1>5, <2>1, <2>3, GoOnStep
<1>7. CASE status # "PASS"
  <2>1. ExitNotProven(p) \/ ExitContradiction(p)
    BY <1>3, <1>4, <1>7
  <2>2. QED
    BY <1>1, <1>5, <2>1, LeaveStep
<1>8. QED
  BY <1>6, <1>7

LEMMA FinalizeStepKeeps ==
    ASSUME SubmissionInv, NEW p \in Procs, Finalize(p)
    PROVE  SubmissionInv'
<1>1. /\ lock = p /\ Signed /\ pendingId = mine[p].id /\ pending.receipt # NONE
      /\ \E i \in OnChain(pending.intent) : included[i].ok
  BY AtWork DEF Finalize, AtRest, Place
<1>2. /\ finalize_common_submission(pendingId) /\ Goto(p, "finalized") /\ "finalized" \in PCs
      /\ UNCHANGED <<laneFile, approval, chain>>
  BY <1>1 DEF Finalize, PCs
<1>3. DataInv'
  BY <1>1, <1>2, DataOf, FinalizeKeeps
<1>4. pc'[p] = "finalized" /\ mine' = mine
  BY <1>2 DEF Goto, SubmissionInv, ProcInv, ProcTypes
<1>5. finalized' # NONE /\ finalized'.id = mine[p].id
  <2> DEFINE f == [id |-> pendingId, intent |-> pending.intent, block |-> pending.receipt]
  <2>1. f \in FinalRecord /\ f.id = pendingId
    <3>1. pendingId \in AttemptId /\ pending.intent \in Intent /\ pending \in PendingRecord
      BY <1>1, DataOf, Parts, SignedFacts DEF HasIntent, Signed
    <3>2. QED
      BY <1>1, <3>1 DEF FinalRecord, PendingRecord
  <2>2. finalized' = f
    BY <1>2 DEF finalize_common_submission
  <2> HIDE DEF f
  <2>3. QED
    BY <1>1, <2>1, <2>2, NoneFacts
<1>6. Place(p)'
  BY <1>4, <1>5 DEF Place
<1>7. QED
  BY <1>1, <1>2, <1>3, <1>6, GoOnStep

----------------------------------------------------------------------------
(* Steps of no process: the operators and the chain                         *)

LEMMA OperatorStepKeeps ==
    ASSUME SubmissionInv, LaunchPreflight \/ ReconcileLaunch
    PROVE  SubmissionInv'
<1>1. DataInv'
  BY DataOf, OperatorKeeps
<1>2. UNCHANGED <<pendingId, pending, attemptIds, finalized, launch, included, procs>>
  BY DEF LaunchPreflight, ReconcileLaunch, journal, chain
<1>3. ProcTypes' /\ LockHeld'
  BY <1>2 DEF SubmissionInv, ProcInv, ProcTypes, LockHeld, Busy, procs
<1>4. PlaceFits'
  BY <1>2 DEF SubmissionInv, ProcInv, PlaceFits, Place, LaunchSucceeded, Succeeded, Unsigned,
     Signed, OnChain, InclusionPolicyReady, procs
<1>5. QED
  BY <1>1, <1>3, <1>4 DEF SubmissionInv, ProcInv

LEMMA BlockStepKeeps ==
    ASSUME SubmissionInv, FinalizeBlock
    PROVE  SubmissionInv'
<1>1. DataInv'
  BY DataOf, BlockKeeps
<1>2. UNCHANGED <<pendingId, pending, attemptIds, finalized, launch>> /\ UNCHANGED procs
  BY DEF FinalizeBlock, journal
<1>3. /\ 1..Len(included) \subseteq 1..Len(included')
      /\ \A i \in 1..Len(included) : included'[i] = included[i]
  BY DataOf, ChainGrows
<1>4. ProcTypes' /\ LockHeld'
  BY <1>2 DEF SubmissionInv, ProcInv, ProcTypes, LockHeld, Busy, procs
<1>5. LaunchSucceeded => LaunchSucceeded'
  BY <1>2, <1>3 DEF LaunchSucceeded, Succeeded
<1>6. OnChain(pending.intent) \subseteq OnChain(pending.intent)'
  BY <1>2, <1>3 DEF OnChain
<1>7. \A i \in OnChain(pending.intent) : included'[i] = included[i]
  BY <1>3 DEF OnChain
<1>8. ASSUME NEW p \in Procs
      PROVE  Place(p)'
  <2>1. Place(p) /\ pc' = pc /\ mine' = mine
    BY <1>2 DEF SubmissionInv, ProcInv, PlaceFits, procs
  <2>2. Unsigned(mine[p].id)' = Unsigned(mine[p].id) /\ Signed' = Signed
    BY <1>2, <2>1 DEF Unsigned, Signed
  <2>3. QED
    BY <1>2, <1>5, <1>6, <1>7, <2>1, <2>2 DEF Place, InclusionPolicyReady
<1>9. QED
  BY <1>1, <1>4, <1>8 DEF SubmissionInv, ProcInv, PlaceFits

----------------------------------------------------------------------------
(* The specification                                                        *)

LEMMA InitFits ==
    ASSUME Init
    PROVE  SubmissionInv
<1>1. /\ pendingId = NONE /\ pending = NONE /\ attemptIds = {} /\ expired = {}
      /\ finalized = NONE /\ launch = [ids |-> {}, status |-> "none"]
      /\ laneFile = [fence |-> -1, source |-> -1, thin |-> NONE,
                     authority |-> NONE, recovered |-> NONE, ids |-> {}]
      /\ highest = [l \in Lanes |-> -1]
      /\ budgets = [s \in Scopes |-> {}] /\ pool = {} /\ included = <<>>
      /\ pc = [p \in Procs |-> "down"] /\ continuous = FALSE
  BY DEF Init
<1>2. DataTypes
  <2>1. laneFile \in LaneFile /\ launch.ids = {}
    BY <1>1 DEF LaneFile
  <2>2. highest \in [Lanes -> {-1} \cup Versions] /\ budgets \in [Scopes -> SUBSET AttemptId]
    BY <1>1
  <2>3. head \in 1..(IF MaxHead > 1 THEN MaxHead ELSE 1)
    BY ConstantsOK DEF Init
  <2>4. included \in Seq(Included) /\ pool \subseteq Intent
    BY <1>1
  <2>5. /\ launch \in [ids : SUBSET AttemptId,
                       status : {"none", "pending", "finalized", "expired"}]
        /\ continuous \in BOOLEAN
    BY <1>1
  <2>6. approval \in BOOLEAN /\ activeLane = NONE
    BY DEF Init
  <2>7. QED
    BY <1>1, <2>1, <2>2, <2>3, <2>4, <2>5, <2>6 DEF DataTypes
<1>3. PendingFits /\ HistoryFits
  BY <1>1 DEF PendingFits, HistoryFits, Signed
<1>4. BudgetsFit
  <2>1. IsFiniteSet({}) /\ Cardinality({}) = 0
    BY FS_EmptySet
  <2>2. \A a \in Auths : AttemptsUnder(a) = {} /\ AuthMax[a] \in Nat
    BY <1>1, ConstantsOK DEF AttemptsUnder
  <2>3. QED
    BY <1>1, <2>1, <2>2 DEF BudgetsFit, BudgetRespected, AttemptsUnder
<1>5. Len(included) = 0 /\ Live = {} /\ Calls = {} /\ ~Signed /\ Settled = 0
  BY <1>1 DEF Live, Calls, HasIntent, Signed, Settled
<1>6. ChainFits
  BY <1>5 DEF ChainFits, LiveIsFenced
<1>7. FinalizedIsOnChain /\ ExpiredNeverIncluded /\ ContinuousAfterLaunch
  BY <1>1, <1>5 DEF FinalizedIsOnChain, ExpiredNeverIncluded, ContinuousAfterLaunch, Lanes
<1>8. ProcTypes
  BY <1>1, ConstantsOK DEF Init, ProcTypes, PCs, NoMine, Mine
<1>9. LockHeld /\ PlaceFits
  BY <1>1 DEF LockHeld, Busy, PlaceFits, Place
<1>10. QED
  BY <1>2, <1>3, <1>4, <1>6, <1>7, <1>8, <1>9 DEF SubmissionInv, DataInv, JournalFits, ProcInv

LEMMA StepKeeps ==
    ASSUME SubmissionInv, [Next]_vars
    PROVE  SubmissionInv'
<1>1. CASE UNCHANGED vars
  <2>1. DataInv'
    BY <1>1, DataOf, DataStays DEF vars, dataVars
  <2>2. UNCHANGED <<pendingId, pending, attemptIds, finalized, launch, included>>
        /\ UNCHANGED procs
    BY <1>1 DEF vars, journal, chain
  <2>3. ProcTypes' /\ LockHeld' /\ PlaceFits'
    BY <2>2 DEF SubmissionInv, ProcInv, ProcTypes, LockHeld, Busy, PlaceFits, Place,
       LaunchSucceeded, Succeeded, Unsigned, Signed, OnChain, InclusionPolicyReady, procs
  <2>4. QED
    BY <2>1, <2>3 DEF SubmissionInv, ProcInv
<1>2. ASSUME NEW p \in Procs, Start(p) \/ Stop(p) \/ Crash(p)
      PROVE  SubmissionInv'
  BY <1>2, StartKeeps, CrashKeeps
<1>3. ASSUME NEW p \in Procs, Recovery(p)
      PROVE  SubmissionInv'
  BY <1>3, StartKeeps, RecoverEnterKeeps, QuietExitsKeep, RecoverMirrorKeeps, AbortStepKeeps,
     ExpireStepKeeps, RecoverLocatedKeeps, RecoverUnprovenKeeps, RecoverReceiptKeeps,
     RecoverRecordKeeps DEF Recovery
<1>4. ASSUME NEW p \in Procs, Tick(p)
      PROVE  SubmissionInv'
  BY <1>4, TickStartKeeps, QuietExitsKeep, AuditKeeps, ReserveStepKeeps, AuthorizeKeeps,
     AbortStepKeeps, SignKeeps, BroadcastStepKeeps, SubmitReceiptKeeps DEF Tick
<1>5. ASSUME NEW p \in Procs, Settle(p)
      PROVE  SubmissionInv'
  BY <1>5, ClassifyKeeps, FinalizeStepKeeps, WriteLaneKeeps, QuietExitsKeep DEF Settle
<1>6. CASE LaunchPreflight \/ ReconcileLaunch
  BY <1>6, OperatorStepKeeps
<1>7. CASE FinalizeBlock
  BY <1>7, BlockStepKeeps
<1>8. QED
  BY <1>1, <1>2, <1>3, <1>4, <1>5, <1>6, <1>7 DEF Next

\* Journal, lane files, processes and chain stay in step through every tick, death,
\* recovery and launch (_thin_tick_locked, reconcile_launch_transition, run).
THEOREM Submissions == Spec => []SubmissionInv
<1>1. Init => SubmissionInv
  BY InitFits
<1>2. SubmissionInv /\ [Next]_vars => SubmissionInv'
  BY StepKeeps
<1>3. QED
  BY <1>1, <1>2, PTL DEF Spec

\* What a relay may rely on across its restarts: no attempt retired as expired is
\* ever on chain, and every call on chain is pending or finalized in the journal,
\* whichever process died after the broadcast.
THEOREM Recovered == Spec => []RecoveryInv
<1>1. ASSUME SubmissionInv
      PROVE  RecoveryInv
  <2>1. TypeOK
    BY <1>1, TypesSplit DEF SubmissionInv, DataInv, ProcInv
  <2>2. EveryWriteAccounted
    <3>1. /\ Settled \in Nat /\ Len(included) \in Nat
          /\ \/ Len(included) = Settled
             \/ Signed /\ Len(included) = Settled + 1
      BY <1>1, DataOf, Parts DEF DataInv, JournalFits, ChainFits
    <3>2. EveryWriteAccounted <=> Len(included) <= Settled + (IF Signed THEN 1 ELSE 0)
      BY DEF EveryWriteAccounted, Settled, Signed
    <3>3. QED
      BY <3>1, <3>2
  <2>3. ExpiredNeverIncluded
    BY <1>1 DEF SubmissionInv, DataInv, JournalFits
  <2>4. QED
    BY <2>1, <2>2, <2>3 DEF RecoveryInv
<1>2. QED
  BY <1>1, Submissions, PTL

\* What the launch host's processes rely on from one another: one live call, which
\* the journal names; what it calls finalized executed; budgets; and continuous
\* operation only after a launch that executed.
THEOREM HostFenced == Spec => []LaunchFenced
<1>1. ASSUME SubmissionInv
      PROVE  LaunchFenced
  BY <1>1 DEF SubmissionInv, DataInv, JournalFits, BudgetsFit, ChainFits, LaunchFenced
<1>2. QED
  BY <1>1, Submissions, PTL

----------------------------------------------------------------------------
(* Seen from the chain, the host is one submitter                           *)

\* The write a call on chain makes.
WriteOf(e) == [lane |-> e.tx.id.lane, ver |-> e.tx.id.ver, launch |-> e.tx.id.launch,
               ok |-> e.ok]

LEMMA WriteFacts ==
    ASSUME NEW e \in Included
    PROVE  /\ WriteOf(e) \in Abstract!Write
           /\ WriteOf(e).lane = e.tx.id.lane /\ WriteOf(e).ver = e.tx.id.ver
           /\ WriteOf(e).launch = e.tx.id.launch /\ WriteOf(e).ok = e.ok
<1>1. e.tx \in Intent /\ e.ok \in BOOLEAN
  BY DEF Included
<1>2. e.tx.id \in AttemptId
  BY <1>1 DEF Intent
<1>3. e.tx.id.lane \in Lanes /\ e.tx.id.ver \in Versions /\ e.tx.id.launch \in BOOLEAN
  BY <1>2 DEF AttemptId
<1>4. QED
  BY <1>1, <1>3 DEF WriteOf, Abstract!Write, Lanes

\* The writes on chain, one by one.
LEMMA WritesFacts ==
    ASSUME included \in Seq(Included)
    PROVE  /\ WritesOnChain \in Seq(Abstract!Write)
           /\ Len(WritesOnChain) = Len(included) /\ Len(included) \in Nat
           /\ \A i \in 1..Len(included) : WritesOnChain[i] = WriteOf(included[i])
<1>1. \A i \in 1..Len(included) : WriteOf(included[i]) \in Abstract!Write
  BY WriteFacts
<1>2. WritesOnChain = [i \in 1..Len(included) |-> WriteOf(included[i])]
  BY DEF WritesOnChain, WriteOf
<1>3. QED
  BY <1>1, <1>2

\* The call a block includes is newer than what its lane wrote, no relay write after
\* an authority write, no second launch, and no authority write before a launch.
LEMMA NextWriteAllowed ==
    ASSUME DataInv, NEW tx \in Live, NEW w, w.lane = tx.id.lane, w.ver = tx.id.ver,
           w.launch = tx.id.launch
    PROVE  Abstract!Newest(w) /\ Abstract!OneWay(w) /\ Abstract!LaunchOnce(w)
           /\ Abstract!Handoff(w)
<1> USE DEF DataInv, JournalFits
<1>1. /\ Signed /\ HasIntent /\ pendingId = tx.id /\ pending.intent = tx
      /\ OnChain(tx) = {} /\ pending.id = pendingId /\ pendingId \in attemptIds
      /\ \A ty \in Calls : ty.id = pendingId => ty = tx
  BY LiveIsPending, SignedFacts
<1>2. /\ Len(WritesOnChain) = Len(included)
      /\ \A i \in 1..Len(included) :
            /\ WritesOnChain[i].lane = included[i].tx.id.lane
            /\ WritesOnChain[i].ver = included[i].tx.id.ver
            /\ WritesOnChain[i].launch = included[i].tx.id.launch
            /\ WritesOnChain[i].ok = included[i].ok
  BY WritesFacts, WriteFacts, Parts DEF DataTypes
<1>3. \A i \in 1..Len(included) :
          included[i].tx.id \in attemptIds /\ included[i].tx.id # pendingId
  <2> SUFFICES ASSUME NEW i \in 1..Len(included)
               PROVE  included[i].tx.id \in attemptIds /\ included[i].tx.id # pendingId
    OBVIOUS
  <2>1. included[i].tx \in Calls /\ included[i].tx # tx
    BY <1>1 DEF ChainFits, Calls, OnChain
  <2>2. QED
    BY <1>1, <2>1 DEF ChainFits
<1>4. Abstract!Newest(w)
  BY <1>1, <1>2, <1>3 DEF Abstract!Newest, HistoryFits
<1>5. Abstract!OneWay(w)
  BY <1>1, <1>2, <1>3 DEF Abstract!OneWay, HistoryFits
<1>6. Abstract!LaunchOnce(w)
  BY <1>1, <1>2, <1>3 DEF Abstract!LaunchOnce, HistoryFits
<1>7. Abstract!Handoff(w)
  <2>1. w.lane = "authority" => LaunchSucceeded
    BY <1>1 DEF PendingFits, HasIntent
  <2>2. QED
    BY <1>2, <2>1 DEF Abstract!Handoff, HistoryFits, LaunchSucceeded, Succeeded
<1>8. QED
  BY <1>4, <1>5, <1>6, <1>7

LEMMA BlockWrites ==
    ASSUME DataInv, FinalizeBlock
    PROVE  [Abstract!Next]_WritesOnChain
<1>1. CASE included' = included
  BY <1>1 DEF WritesOnChain
<1>2. ASSUME NEW tx \in Live, NEW ok \in BOOLEAN,
             included' = Append(included, [tx |-> tx, block |-> head + 1, ok |-> ok])
      PROVE  Abstract!Next
  <2> DEFINE e == [tx |-> tx, block |-> head + 1, ok |-> ok]
  <2>1. e \in Included /\ e.tx = tx
    BY LiveIsPending, Parts DEF Included
  <2>2. included' = Append(included, e) /\ included \in Seq(Included)
    BY <1>2 DEF DataInv, DataTypes
  <2> HIDE DEF e
  <2>3. /\ included' \in Seq(Included) /\ Len(included') = Len(included) + 1
        /\ \A i \in 1..Len(included) : included'[i] = included[i]
        /\ included'[Len(included) + 1] = e /\ Len(included) \in Nat
    BY <2>1, <2>2, AppendFacts
  <2>4. PICK w \in Abstract!Write : w = WriteOf(e)
    BY <2>1, WriteFacts
  <2>5. w.lane = tx.id.lane /\ w.ver = tx.id.ver /\ w.launch = tx.id.launch
    BY <2>1, <2>4, WriteFacts
  <2>6. Abstract!Newest(w) /\ Abstract!OneWay(w) /\ Abstract!LaunchOnce(w)
        /\ Abstract!Handoff(w)
    BY <2>5, NextWriteAllowed
  <2>7. WritesOnChain' = Append(WritesOnChain, w)
    <3>1. /\ WritesOnChain \in Seq(Abstract!Write) /\ Len(WritesOnChain) = Len(included)
          /\ \A i \in 1..Len(included) : WritesOnChain[i] = WriteOf(included[i])
      BY <2>2, WritesFacts
    <3>2. /\ WritesOnChain' \in Seq(Abstract!Write) /\ Len(WritesOnChain') = Len(included')
          /\ \A i \in 1..Len(included') : WritesOnChain'[i] = WriteOf(included'[i])
      <4>1. \A i \in 1..Len(included') : WriteOf(included'[i]) \in Abstract!Write
        BY <2>3, WriteFacts
      <4>2. WritesOnChain' = [i \in 1..Len(included') |-> WriteOf(included'[i])]
        BY DEF WritesOnChain, WriteOf
      <4>3. QED
        BY <2>3, <4>1, <4>2
    <3>3. /\ Append(WritesOnChain, w) \in Seq(Abstract!Write)
          /\ Len(Append(WritesOnChain, w)) = Len(WritesOnChain) + 1
          /\ \A i \in 1..Len(WritesOnChain) : Append(WritesOnChain, w)[i] = WritesOnChain[i]
          /\ Append(WritesOnChain, w)[Len(WritesOnChain) + 1] = w
      BY <2>4, <3>1, AppendFacts
    <3>4. \A i \in 1..Len(included') : WritesOnChain'[i] = Append(WritesOnChain, w)[i]
      BY <2>3, <2>4, <3>1, <3>2, <3>3
    <3>5. QED
      BY <2>3, <3>1, <3>2, <3>3, <3>4, SeqEqual
  <2>8. QED
    BY <2>6, <2>7 DEF Abstract!Next, Abstract!Append1
<1>3. QED
  BY <1>1, <1>2, BlockAdds

LEMMA OthersWriteNothing ==
    ASSUME [Next]_vars, ~FinalizeBlock
    PROVE  included' = included
<1>1. ASSUME NEW p \in Procs, Start(p) \/ Stop(p) \/ Crash(p) \/ Recovery(p)
      PROVE  included' = included
  BY <1>1 DEF Start, Stop, Crash, Recovery, RecoverUnavailable, RecoverEnter, RecoverNothing,
     RecoverMirror, RecoverMismatch, RecoverUnsigned, RecoverRefused, RecoverExpire,
     RecoverLocated, RecoverUnproven, RecoverReceipt, RecoverRecord, chain
<1>2. ASSUME NEW p \in Procs, Tick(p) \/ Settle(p)
      PROVE  included' = included
  BY <1>2 DEF Tick, TickStart, TickEnds, Audit, Reserve, Authorize, AuthorizeFails,
     SubmitAborts, Sign, Broadcast, SubmitUnknown, SubmitReceipt, Settle, Classify, Finalize,
     WriteLane, WriteLaneFails, chain
<1>3. QED
  BY <1>1, <1>2 DEF Next, LaunchPreflight, ReconcileLaunch, chain, vars

\* Whatever the processes do and wherever they die, the chain sees one submitter:
\* newest first in each lane, no way back to the relay lane, one launch, and no
\* authority write before a launch that executed.
THEOREM HostImplementsChain == Spec => ImplementsWeightChain
<1>1. Init => Abstract!Init
  BY DEF Init, Abstract!Init, WritesOnChain
<1>2. SubmissionInv /\ [Next]_vars => [Abstract!Next]_WritesOnChain
  <2> SUFFICES ASSUME SubmissionInv, [Next]_vars
               PROVE  [Abstract!Next]_WritesOnChain
    OBVIOUS
  <2>1. CASE FinalizeBlock
    BY <2>1, DataOf, BlockWrites
  <2>2. CASE ~FinalizeBlock
    BY <2>2, OthersWriteNothing DEF WritesOnChain
  <2>3. QED
    BY <2>1, <2>2
<1>3. QED
  BY <1>1, <1>2, Submissions, PTL DEF Spec, ImplementsWeightChain, Abstract!Spec
=============================================================================
