-------------------------- MODULE SubmitQueueProofs --------------------------
(* Proofs about SubmitQueue, for every set of miners, challenges, receipts,  *)
(* handlers and workers and every value of the bounds.                       *)
EXTENDS SubmitQueue, FiniteSetTheorems, TLAPS

-----------------------------------------------------------------------------
(* Type correctness.                                                         *)

\* The rank a claim gives is a number because the ledger stays finite.
LedgerFinite == IsFiniteSet(solves)

TypeInv == TypeOK /\ LedgerFinite

\* The accept transaction keeps the types of the tables it writes.
LEMMA AcceptTxnType ==
    ASSUME TypeInv, NEW q \in Requests, NEW id \in Receipts, AcceptTxn(q, id)
    PROVE  /\ burned' \subseteq Requests
           /\ chal' \in [Challenges -> {"active", "locked", "retired"}]
           /\ solves' \subseteq [ch : Challenges, hk : Hotkeys, age : 0..RetainAge]
           /\ feed' \subseteq [id : Receipts, req : Requests, rank : Nat]
           /\ LedgerFinite'
<1>1. q.ch \in Challenges /\ q.hk \in Hotkeys
  BY RequestsAssumption DEF RequestShape
<1>2. SolveCount(q.ch) \in Nat
  <2>1. IsFiniteSet({s \in solves : s.ch = q.ch})
    BY FS_Subset DEF TypeInv, LedgerFinite
  <2>2. QED BY <2>1, FS_CardinalityType DEF SolveCount
<1>3. claim_solve(q) \in Nat
  BY <1>2 DEF claim_solve
<1>4. WithSolve(q) \subseteq [ch : Challenges, hk : Hotkeys, age : 0..RetainAge]
  BY <1>1, BoundsAssumption DEF WithSolve, TypeInv, TypeOK
<1>5. IsFiniteSet(WithSolve(q))
  BY FS_AddElement DEF WithSolve, TypeInv, LedgerFinite
<1>6. burned' \subseteq Requests
  BY DEF AcceptTxn, TypeInv, TypeOK
<1>7. CASE AcceptVerdict(q) = "ok"
  <2>1. solves' = WithSolve(q)
    BY <1>7 DEF AcceptTxn
  <2>2. chal' \in [Challenges -> {"active", "locked", "retired"}]
    BY <1>7 DEF AcceptTxn, TypeInv, TypeOK
  <2>3. feed' \subseteq [id : Receipts, req : Requests, rank : Nat]
    BY <1>7, <1>3 DEF AcceptTxn, TypeInv, TypeOK
  <2>4. QED BY <2>1, <2>2, <2>3, <1>4, <1>5, <1>6 DEF LedgerFinite
<1>8. CASE AcceptVerdict(q) # "ok"
  BY <1>8, <1>6 DEF AcceptTxn, TypeInv, TypeOK, LedgerFinite
<1>9. QED BY <1>7, <1>8

\* Init and every step keep the type invariant.
LEMMA TypeInit == Init => TypeInv
  BY BoundsAssumption, FS_EmptySet
  DEF Init, TypeInv, TypeOK, LedgerFinite, HandlerStates, WorkerStates,
      IdleWorker, IdleHandler, NoRow

\* A worker past its verification step has a copy to work on.
LEMMA CurIsCopy ==
    ASSUME TypeOK, NEW w \in Workers,
           workers[w].pc \in {"precheck", "accept", "reject", "shadow"}
    PROVE  /\ workers[w].cur \in Copies
           /\ workers[w].batch \subseteq Copies
           /\ workers[w].ok \in BOOLEAN
  BY DEF TypeOK, WorkerStates

\* A handler that is serving a request has it, and its place in the arrivals.
LEMMA ServingHasRequest ==
    ASSUME TypeOK, NEW h \in Handlers, handlers[h].pc # "idle"
    PROVE  /\ handlers[h] \in [pc : {"admit", "twin", "inline", "note"},
                               req : Requests, seq : 1..MaxRequests]
           /\ handlers[h].req \in Requests
           /\ handlers[h].seq \in 0..MaxRequests
  BY BoundsAssumption DEF TypeOK, HandlerStates, IdleHandler

\* Filing a new row keeps the table well typed.
LEMMA NewRowType ==
    ASSUME NEW kind \in Kinds, NEW q \in Requests,
           NEW status \in OpenStates \cup TerminalStates,
           NEW body \in BOOLEAN, NEW seq \in 0..MaxRequests
    PROVE  NewRow(kind, q, status, body, seq) \in Rows
  BY BoundsAssumption DEF NewRow, Rows

\* The row updates of the worker: claim, reject, finalize, and time passing.
LEMMA RowUpdates ==
    ASSUME NEW row \in Rows, NEW status \in OpenStates \cup TerminalStates,
           NEW body \in BOOLEAN, NEW by \in Workers \cup {NONE},
           NEW lease \in 0..LockSecs, NEW age \in 0..RetainAge
    PROVE  /\ [row EXCEPT !.status = status, !.by = by,
                          !.lease = lease, !.age = age] \in Rows
           /\ [row EXCEPT !.status = status, !.body = body, !.by = by,
                          !.lease = lease, !.age = age] \in Rows
           /\ [row EXCEPT !.lease = lease, !.age = age] \in Rows
  BY DEF Rows

\* The values those updates use.
LEMMA RowValues ==
    /\ 0 \in 0..LockSecs /\ LockSecs \in 0..LockSecs
    /\ 0 \in 0..RetainAge /\ 0 \in 0..MaxRequests
    /\ NONE \in Workers \cup {NONE}
    /\ {"pending", "verifying", "ranked", "rejected"} \subseteq OpenStates \cup TerminalStates
    /\ {"inline", "per_miner_shadow", "public", "per_miner"} \subseteq Kinds
  BY BoundsAssumption DEF OpenStates, TerminalStates, Kinds, LiveKinds

\* The states a worker moves between.
LEMMA WorkerUpdates ==
    ASSUME NEW pc \in {"precheck", "accept", "reject", "shadow"},
           NEW batch \in SUBSET Copies, NEW cur \in Copies, NEW ok \in BOOLEAN
    PROVE  /\ IdleWorker \in WorkerStates
           /\ [IdleWorker EXCEPT !.pc = "next", !.batch = batch] \in WorkerStates
           /\ [pc |-> pc, batch |-> batch, cur |-> cur, ok |-> ok] \in WorkerStates
  BY DEF IdleWorker, WorkerStates

\* A busy worker that only moves its pc stays well typed.
LEMMA WorkerPc ==
    ASSUME TypeOK, NEW w \in Workers,
           workers[w].pc \in {"precheck", "accept", "reject", "shadow"},
           NEW pc \in {"precheck", "accept", "reject", "shadow"}
    PROVE  [workers EXCEPT ![w].pc = pc] \in [Workers -> WorkerStates]
<1>1. workers[w] \in [pc : {"precheck", "accept", "reject", "shadow"},
                      batch : SUBSET Copies, cur : Copies, ok : BOOLEAN]
  BY DEF TypeOK, WorkerStates
<1>2. [workers[w] EXCEPT !.pc = pc] \in WorkerStates
  BY <1>1 DEF WorkerStates
<1>3. QED BY <1>2 DEF TypeOK

\* An existing row is a full record.
LEMMA ExistingRow ==
    ASSUME TypeOK, NEW r \in Receipts, Exists(r)
    PROVE  attempts[r] \in Rows
  BY DEF TypeOK, Exists, NoRow, Deleted, Kinds, LiveKinds

\* Going on to the next row keeps the worker well typed.
LEMMA RowDoneType ==
    ASSUME TypeOK, NEW w \in Workers, RowDone(w), workers[w].batch \subseteq Copies
    PROVE  workers' \in [Workers -> WorkerStates]
<1>1. IdleWorker \in WorkerStates
  BY DEF IdleWorker, WorkerStates
<1>2. [IdleWorker EXCEPT !.pc = "next", !.batch = workers[w].batch] \in WorkerStates
  BY DEF IdleWorker, WorkerStates
<1>3. QED BY <1>1, <1>2 DEF RowDone, TypeOK

\* Every step keeps the types.
LEMMA TypeStep == TypeInv /\ [Next]_vars => TypeInv'
<1> SUFFICES ASSUME TypeInv, [Next]_vars PROVE TypeInv'
  OBVIOUS
<1> TypeOK /\ LedgerFinite
  BY DEF TypeInv
<1>1. ASSUME NEW h \in Handlers, HandlerStep(h) PROVE TypeInv'
  <2>1. ASSUME NEW q \in Requests, NEW sync \in BOOLEAN, agents_submit(h, q, sync)
        PROVE  TypeInv'
    BY <2>1, BoundsAssumption
    DEF agents_submit, TypeInv, TypeOK, LedgerFinite, HandlerStates
  <2>2. CASE admit_pending(h)
    <3>1. handlers[h].pc # "idle"
      BY <2>2 DEF admit_pending
    <3>2. handlers' \in [Handlers -> HandlerStates]
      BY <2>2 DEF admit_pending, Reply, TypeOK, HandlerStates
    <3>3. challenge_kind(handlers[h].req.ch) \in Kinds
      BY DEF challenge_kind, Kinds, LiveKinds
    <3>4. NewRow(challenge_kind(handlers[h].req.ch), handlers[h].req, "pending", TRUE,
                 handlers[h].seq) \in Rows
      BY <3>1, <3>3, ServingHasRequest, NewRowType DEF OpenStates
    <3>5. attempts' \in [Receipts -> Rows \cup {NoRow, Deleted}]
      BY <2>2, <3>4 DEF admit_pending, TypeOK
    <3>6. QED BY <2>2, <3>2, <3>5 DEF admit_pending, TypeInv, TypeOK, LedgerFinite
  <2>3. CASE admit_pm_shadow(h)
    <3>1. handlers[h].pc # "idle"
      BY <2>3 DEF admit_pm_shadow
    <3>2. handlers' \in [Handlers -> HandlerStates]
      BY <2>3, <3>1, ServingHasRequest DEF admit_pm_shadow, TypeOK, HandlerStates
    <3>3. NewRow("per_miner_shadow", handlers[h].req, "pending", TRUE, handlers[h].seq) \in Rows
      BY <3>1, ServingHasRequest, NewRowType DEF OpenStates, Kinds
    <3>4. attempts' \in [Receipts -> Rows \cup {NoRow, Deleted}]
      BY <2>3, <3>3 DEF admit_pm_shadow, TypeOK
    <3>5. QED BY <2>3, <3>2, <3>4 DEF admit_pm_shadow, TypeInv, TypeOK, LedgerFinite
  <2>4. CASE inline_reject(h)
    <3>1. handlers[h].pc # "idle"
      BY <2>4 DEF inline_reject
    <3>2. handlers' \in [Handlers -> HandlerStates]
      BY <2>4 DEF inline_reject, Reply, TypeOK, HandlerStates
    <3>3. NewRow("inline", handlers[h].req, "rejected", FALSE, 0) \in Rows
      BY <3>1, ServingHasRequest, NewRowType, RowValues
    <3>4. attempts' \in [Receipts -> Rows \cup {NoRow, Deleted}]
      BY <2>4, <3>3 DEF inline_reject, TypeOK
    <3>5. burned' \subseteq Requests
      BY <2>4, <3>1, ServingHasRequest DEF inline_reject, TypeOK
    <3>6. QED BY <2>4, <3>2, <3>4, <3>5 DEF inline_reject, TypeInv, TypeOK, LedgerFinite
  <2>5. CASE inline_accept(h)
    <3>1. handlers[h].pc # "idle" /\ handlers[h].req \in Requests
      BY <2>5, ServingHasRequest DEF inline_accept
    <3> DEFINE q == handlers[h].req
    <3>2. PICK r \in Receipts :
            /\ AcceptTxn(q, r)
            /\ attempts' = IF q.ch \in PmChallenges /\ AcceptVerdict(q) = "ok"
                           THEN [attempts EXCEPT ![r] =
                                   NewRow("inline", q, "ranked", FALSE, 0)]
                           ELSE attempts
            /\ IF q.ch \in PmChallenges /\ AcceptVerdict(q) = "already_solved"
               THEN handlers' = [handlers EXCEPT ![h].pc = "note"]
               ELSE Reply(h)
      BY <2>5 DEF inline_accept
    <3>3. handlers' \in [Handlers -> HandlerStates]
      BY <3>1, <3>2, ServingHasRequest DEF Reply, TypeOK, HandlerStates
    <3>4. NewRow("inline", handlers[h].req, "ranked", FALSE, 0) \in Rows
      BY <3>1, NewRowType, RowValues
    <3>5. attempts' \in [Receipts -> Rows \cup {NoRow, Deleted}]
      BY <3>2, <3>4 DEF TypeOK
    <3>6. AcceptTxn(handlers[h].req, r)
      BY <3>2
    <3>7. QED
      BY <2>5, <3>1, <3>3, <3>5, <3>6, AcceptTxnType
      DEF inline_accept, TypeInv, TypeOK
  <2>6. CASE record_pm_attempt(h)
    <3>1. handlers[h].pc # "idle"
      BY <2>6 DEF record_pm_attempt
    <3>2. handlers' \in [Handlers -> HandlerStates]
      BY <2>6 DEF record_pm_attempt, Reply, TypeOK, HandlerStates
    <3>3. NewRow("inline", handlers[h].req, "rejected", FALSE, 0) \in Rows
      BY <3>1, ServingHasRequest, NewRowType, RowValues
    <3>4. attempts' \in [Receipts -> Rows \cup {NoRow, Deleted}]
      BY <2>6, <3>3 DEF record_pm_attempt, TypeOK
    <3>5. QED BY <2>6, <3>2, <3>4 DEF record_pm_attempt, TypeInv, TypeOK, LedgerFinite
  <2>7. QED BY <1>1, <2>1, <2>2, <2>3, <2>4, <2>5, <2>6 DEF HandlerStep
<1>2. ASSUME NEW w \in Workers, WorkerStep(w) PROVE TypeInv'
  <2>1. CASE claim_pending(w)
    <3>1. PICK B \in SUBSET Claimable : claim_pending(w)!3!(B)
      BY <2>1 DEF claim_pending
    <3>2. \A r \in B : r \in Receipts /\ attempts[r] \in Rows
      BY ExistingRow DEF Claimable, Open
    <3>3. \A r \in B : CopyOf(r) \in Copies
      BY <3>2 DEF CopyOf, Copies, Rows
    <3>4. workers' \in [Workers -> WorkerStates]
      <4>1. {CopyOf(r) : r \in B} \in SUBSET Copies
        BY <3>3
      <4>2. [IdleWorker EXCEPT !.pc = "next", !.batch = {CopyOf(r) : r \in B}]
              \in WorkerStates
        BY <4>1 DEF IdleWorker, WorkerStates
      <4>3. QED BY <3>1, <4>2 DEF TypeOK
    <3>5. \A r \in B : [attempts[r] EXCEPT !.status = "verifying", !.by = w,
                               !.lease = LockSecs, !.age = 0] \in Rows
      BY <3>2, RowUpdates, RowValues
    <3>6. attempts' \in [Receipts -> Rows \cup {NoRow, Deleted}]
      BY <3>1, <3>5 DEF TypeOK
    <3>7. QED BY <2>1, <3>4, <3>6 DEF claim_pending, TypeInv, TypeOK, LedgerFinite
  <2>2. CASE finalize_verify(w)
    <3>1. PICK c \in workers[w].batch : finalize_verify(w)!2!(c)
      BY <2>2 DEF finalize_verify
    <3>2. c \in Copies /\ workers[w].batch \subseteq Copies
      BY <3>1 DEF TypeOK, WorkerStates
    <3>3. \A ok \in IF c.body THEN VerifyResult(c.req) ELSE {FALSE} : ok \in BOOLEAN
      BY DEF VerifyResult
    <3>4. workers' \in [Workers -> WorkerStates]
      <4>1. PICK ok \in BOOLEAN, pc \in {"precheck", "accept", "reject", "shadow"} :
              workers' = [workers EXCEPT ![w] =
                 [pc |-> pc, batch |-> workers[w].batch \ {c}, cur |-> c, ok |-> ok]]
        BY <3>1, <3>3
      <4>2. workers[w].batch \ {c} \in SUBSET Copies
        BY <3>2
      <4>3. QED BY <3>2, <4>1, <4>2, WorkerUpdates DEF TypeOK
    <3>5. QED BY <2>2, <3>4 DEF finalize_verify, TypeInv, TypeOK, LedgerFinite
  <2>3. CASE accept_precheck(w)
    <3>1. workers' \in [Workers -> WorkerStates]
      BY <2>3, WorkerPc DEF accept_precheck
    <3>2. QED BY <2>3, <3>1 DEF accept_precheck, TypeInv, TypeOK, LedgerFinite
  <2>4. CASE accept_async(w)
    <3>1. workers[w].pc = "accept" /\ workers[w].cur \in Copies
            /\ workers[w].batch \subseteq Copies
      BY <2>4, CurIsCopy DEF accept_async
    <3> DEFINE c == workers[w].cur
    <3>2. c.req \in Requests /\ c.id \in Receipts
      BY <3>1 DEF Copies
    <3>3. AcceptTxn(c.req, c.id)
      BY <2>4 DEF accept_async
    <3>4. CASE AcceptVerdict(c.req) = "ok"
      <4>1. RowDone(w) /\ SetRow(c.id, [attempts[c.id] EXCEPT
                          !.status = "ranked", !.body = FALSE,
                          !.by = NONE, !.lease = 0, !.age = 0])
        BY <2>4, <3>4 DEF accept_async
      <4>2. workers' \in [Workers -> WorkerStates]
        BY <4>1, <3>1, RowDoneType
      <4>3. attempts' \in [Receipts -> Rows \cup {NoRow, Deleted}]
        <5>1. CASE Exists(c.id)
          <6>1. [attempts[c.id] EXCEPT !.status = "ranked", !.body = FALSE,
                    !.by = NONE, !.lease = 0, !.age = 0] \in Rows
            BY <5>1, <3>2, ExistingRow, RowUpdates, RowValues
          <6>2. QED BY <4>1, <5>1, <6>1 DEF SetRow, TypeOK
        <5>2. CASE ~Exists(c.id)
          BY <4>1, <5>2 DEF SetRow, TypeOK
        <5>3. QED BY <5>1, <5>2
      <4>4. QED BY <2>4, <3>2, <3>3, <4>2, <4>3, AcceptTxnType
                DEF accept_async, TypeInv, TypeOK
    <3>5. CASE AcceptVerdict(c.req) # "ok"
      <4>1. workers' \in [Workers -> WorkerStates]
        BY <2>4, <3>1, <3>5, WorkerPc DEF accept_async
      <4>2. attempts' = attempts
        BY <2>4, <3>5 DEF accept_async
      <4>3. QED BY <2>4, <3>2, <3>3, <4>1, <4>2, AcceptTxnType
                DEF accept_async, TypeInv, TypeOK
    <3>6. QED BY <3>4, <3>5
  <2>5. CASE mark_rejected(w)
    <3>1. workers[w].cur \in Copies /\ workers[w].batch \subseteq Copies
      BY <2>5, CurIsCopy DEF mark_rejected
    <3>2. workers' \in [Workers -> WorkerStates]
      BY <2>5, <3>1, RowDoneType DEF mark_rejected
    <3> DEFINE r == workers[w].cur.id
    <3>3. r \in Receipts
      BY <3>1 DEF Copies
    <3>4. attempts' \in [Receipts -> Rows \cup {NoRow, Deleted}]
      <4>1. CASE Exists(r)
        <5>1. [attempts[r] EXCEPT !.status = "rejected",
                  !.by = NONE, !.lease = 0, !.age = 0] \in Rows
          BY <4>1, <3>3, ExistingRow, RowUpdates, RowValues
        <5>2. QED BY <2>5, <4>1, <5>1 DEF mark_rejected, SetRow, TypeOK
      <4>2. CASE ~Exists(r)
        BY <2>5, <4>2 DEF mark_rejected, SetRow, TypeOK
      <4>3. QED BY <4>1, <4>2
    <3>5. QED BY <2>5, <3>2, <3>4 DEF mark_rejected, TypeInv, TypeOK, LedgerFinite
  <2>6. CASE finalize_pm_shadow(w)
    <3>1. workers[w].cur \in Copies /\ workers[w].batch \subseteq Copies
      BY <2>6, CurIsCopy DEF finalize_pm_shadow
    <3>2. workers' \in [Workers -> WorkerStates]
      BY <2>6, <3>1, RowDoneType DEF finalize_pm_shadow
    <3> DEFINE r == workers[w].cur.id
    <3>3. r \in Receipts
      BY <3>1 DEF Copies
    <3>4. attempts' \in [Receipts -> Rows \cup {NoRow, Deleted}]
      <4>1. CASE Exists(r)
        <5>1. [attempts[r] EXCEPT
                  !.status = IF workers[w].ok THEN "ranked" ELSE "rejected",
                  !.body = FALSE, !.by = NONE, !.lease = 0, !.age = 0] \in Rows
          BY <4>1, <3>3, ExistingRow, RowUpdates, RowValues
        <5>2. QED BY <2>6, <4>1, <5>1 DEF finalize_pm_shadow, SetRow, TypeOK
      <4>2. CASE ~Exists(r)
        BY <2>6, <4>2 DEF finalize_pm_shadow, SetRow, TypeOK
      <4>3. QED BY <4>1, <4>2
    <3>5. QED BY <2>6, <3>2, <3>4 DEF finalize_pm_shadow, TypeInv, TypeOK, LedgerFinite
  <2>7. QED BY <1>2, <2>1, <2>2, <2>3, <2>4, <2>5, <2>6 DEF WorkerStep
<1>3. ASSUME Environment PROVE TypeInv'
  <2>1. ASSUME NEW h \in Handlers, DropRequest(h) PROVE TypeInv'
    BY <2>1, BoundsAssumption
    DEF DropRequest, Reply, TypeInv, TypeOK, LedgerFinite, HandlerStates
  <2>2. ASSUME NEW w \in Workers, AbandonTick(w) PROVE TypeInv'
    <3>1. IdleWorker \in WorkerStates
      BY DEF IdleWorker, WorkerStates
    <3>2. QED BY <2>2, <3>1, BoundsAssumption
              DEF AbandonTick, TypeInv, TypeOK, LedgerFinite
  <2>3. ASSUME NEW w \in Workers, poll_empty(w) PROVE TypeInv'
    BY <2>3 DEF poll_empty, vars, TypeInv, TypeOK, LedgerFinite
  <2>4. ASSUME NEW ch \in Challenges, retire(ch) PROVE TypeInv'
    BY <2>4 DEF retire, TypeInv, TypeOK, LedgerFinite
  <2>5. ASSUME NEW r \in Receipts, delete_attempt(r) PROVE TypeInv'
    BY <2>5 DEF delete_attempt, TypeInv, TypeOK, LedgerFinite
  <2>6. ASSUME NEW s \in solves, delete_solve(s) PROVE TypeInv'
    <3>1. IsFiniteSet(solves \ {s})
      BY FS_RemoveElement DEF LedgerFinite
    <3>2. QED BY <2>6, <3>1 DEF delete_solve, TypeInv, TypeOK, LedgerFinite
  <2>7. ASSUME NEW m \in PmModes, Redeploy(m) PROVE TypeInv'
    BY <2>7 DEF Redeploy, TypeInv, TypeOK, LedgerFinite
  <2>8. CASE Tick
    <3>1. \A n \in 0..RetainAge : Age(n) \in 0..RetainAge
      BY BoundsAssumption DEF Age
    <3>2. \A row \in Rows : Older(row) \in Rows
      <4> SUFFICES ASSUME NEW row \in Rows PROVE Older(row) \in Rows
        OBVIOUS
      <4> DEFINE lease == IF row.lease > 0 THEN row.lease - 1 ELSE 0
      <4>1. row.lease \in 0..LockSecs /\ row.age \in 0..RetainAge
        BY DEF Rows
      <4>2. lease \in 0..LockSecs /\ Age(row.age) \in 0..RetainAge
        BY <3>1, <4>1, BoundsAssumption
      <4>3. [row EXCEPT !.lease = lease, !.age = Age(row.age)] \in Rows
        BY <4>2 DEF Rows
      <4>4. QED BY <4>3 DEF Older
    <3>3. Older(NoRow) = NoRow /\ Older(Deleted) = Deleted
      BY DEF Older, NoRow, Deleted, Kinds, LiveKinds
    <3>4. attempts' \in [Receipts -> Rows \cup {NoRow, Deleted}]
      BY <2>8, <3>2, <3>3 DEF Tick, TypeOK
    <3>5. solves' \subseteq [ch : Challenges, hk : Hotkeys, age : 0..RetainAge]
      BY <2>8, <3>1 DEF Tick, TypeOK
    <3>6. IsFiniteSet(solves')
      <4>1. solves' = {[s EXCEPT !.age = Age(@)] : s \in solves}
        BY <2>8 DEF Tick
      <4> DEFINE f == [s \in solves |-> [s EXCEPT !.age = Age(@)]]
      <4>2. f \in Surjection(solves, solves')
        BY <4>1 DEF Surjection
      <4>3. QED BY <4>2, FS_Surjection DEF LedgerFinite
    <3>7. QED BY <2>8, <3>4, <3>5, <3>6 DEF Tick, TypeInv, TypeOK, LedgerFinite
  <2>9. QED
    BY <1>3, <2>1, <2>2, <2>3, <2>4, <2>5, <2>6, <2>7, <2>8 DEF Environment
<1>4. CASE UNCHANGED vars
  BY <1>4 DEF vars, TypeInv, TypeOK, LedgerFinite
<1>5. QED BY <1>1, <1>2, <1>3, <1>4 DEF Next

\* The tables and process states keep their types through every interleaving
\* of handlers, workers, retention and failures.
THEOREM TypeCorrect == Spec => []TypeOK
<1>1. TypeInv => TypeOK
  BY DEF TypeInv
<1>2. QED BY TypeInit, TypeStep, <1>1, PTL DEF Spec

-----------------------------------------------------------------------------
(* The ledger: every step is one of four kinds as far as the signatures, the *)
(* solves, the feed and the challenges go.                                   *)

SolvesKept ==
    ~RetentionOn => \A ch, hk : Solved(ch, hk) => \E s \in solves' : s.ch = ch /\ s.hk = hk

LedgerSame == UNCHANGED <<burned, feed, chal>> /\ SolvesKept

Burns(q) == burned' = burned \cup {q} /\ UNCHANGED <<feed, chal>> /\ SolvesKept

Closes(ch) ==
    /\ chal[ch] = "active" /\ chal' = [chal EXCEPT ![ch] = "retired"]
    /\ UNCHANGED <<burned, feed, solves>>

LedgerStep ==
    \/ LedgerSame
    \/ \E q \in Requests : Burns(q)
    \/ \E ch \in Challenges : Closes(ch)
    \/ \E q \in Requests, id \in Receipts : AcceptTxn(q, id)

\* The only thing that ever pays is the accept transaction, a burned signature
\* stays burned, and only retention forgets a solve.
LEMMA EveryStepIsALedgerStep ==
    ASSUME TypeOK, [Next]_vars
    PROVE  LedgerStep
<1>1. ASSUME NEW h \in Handlers, HandlerStep(h) PROVE LedgerStep
  <2>1. ASSUME NEW q \in Requests, NEW sync \in BOOLEAN, agents_submit(h, q, sync)
        PROVE  LedgerStep
    BY <2>1 DEF agents_submit, LedgerStep, LedgerSame, SolvesKept, Solved
  <2>2. CASE admit_pending(h)
    BY <2>2 DEF admit_pending, LedgerStep, LedgerSame, SolvesKept, Solved
  <2>3. CASE admit_pm_shadow(h)
    BY <2>3 DEF admit_pm_shadow, LedgerStep, LedgerSame, SolvesKept, Solved
  <2>4. CASE inline_reject(h)
    <3>1. handlers[h].req \in Requests
      BY <2>4, ServingHasRequest DEF inline_reject
    <3>2. Burns(handlers[h].req)
      BY <2>4 DEF inline_reject, Burns, SolvesKept, Solved
    <3>3. QED BY <3>1, <3>2 DEF LedgerStep
  <2>5. CASE inline_accept(h)
    <3>1. handlers[h].req \in Requests
      BY <2>5, ServingHasRequest DEF inline_accept
    <3>2. \E r \in Receipts : AcceptTxn(handlers[h].req, r)
      BY <2>5 DEF inline_accept
    <3>3. QED BY <3>1, <3>2 DEF LedgerStep
  <2>6. CASE record_pm_attempt(h)
    BY <2>6 DEF record_pm_attempt, LedgerStep, LedgerSame, SolvesKept, Solved
  <2>7. QED BY <1>1, <2>1, <2>2, <2>3, <2>4, <2>5, <2>6 DEF HandlerStep
<1>2. ASSUME NEW w \in Workers, WorkerStep(w) PROVE LedgerStep
  <2>1. CASE claim_pending(w)
    BY <2>1 DEF claim_pending, LedgerStep, LedgerSame, SolvesKept, Solved
  <2>2. CASE finalize_verify(w)
    BY <2>2 DEF finalize_verify, LedgerStep, LedgerSame, SolvesKept, Solved
  <2>3. CASE accept_precheck(w)
    BY <2>3 DEF accept_precheck, LedgerStep, LedgerSame, SolvesKept, Solved
  <2>4. CASE accept_async(w)
    <3>1. workers[w].cur \in Copies
      BY <2>4, CurIsCopy DEF accept_async
    <3>2. workers[w].cur.req \in Requests /\ workers[w].cur.id \in Receipts
      BY <3>1 DEF Copies
    <3>3. QED BY <2>4, <3>2 DEF accept_async, LedgerStep
  <2>5. CASE mark_rejected(w)
    BY <2>5 DEF mark_rejected, LedgerStep, LedgerSame, SolvesKept, Solved
  <2>6. CASE finalize_pm_shadow(w)
    BY <2>6 DEF finalize_pm_shadow, LedgerStep, LedgerSame, SolvesKept, Solved
  <2>7. QED BY <1>2, <2>1, <2>2, <2>3, <2>4, <2>5, <2>6 DEF WorkerStep
<1>3. ASSUME Environment PROVE LedgerStep
  <2>1. ASSUME NEW h \in Handlers, DropRequest(h) PROVE LedgerStep
    BY <2>1 DEF DropRequest, LedgerStep, LedgerSame, SolvesKept, Solved
  <2>2. ASSUME NEW w \in Workers, AbandonTick(w) \/ poll_empty(w) PROVE LedgerStep
    BY <2>2 DEF AbandonTick, poll_empty, vars, LedgerStep, LedgerSame, SolvesKept, Solved
  <2>3. ASSUME NEW ch \in Challenges, retire(ch) PROVE LedgerStep
    BY <2>3 DEF retire, LedgerStep, Closes
  <2>4. ASSUME NEW r \in Receipts, delete_attempt(r) PROVE LedgerStep
    BY <2>4 DEF delete_attempt, LedgerStep, LedgerSame, SolvesKept
  <2>5. ASSUME NEW s \in solves, delete_solve(s) PROVE LedgerStep
    BY <2>5 DEF delete_solve, LedgerStep, LedgerSame, SolvesKept
  <2>6. ASSUME NEW m \in PmModes, Redeploy(m) PROVE LedgerStep
    BY <2>6 DEF Redeploy, LedgerStep, LedgerSame, SolvesKept, Solved
  <2>7. CASE Tick
    <3>1. SUFFICES ASSUME NEW s \in solves
                   PROVE  \E t \in solves' : t.ch = s.ch /\ t.hk = s.hk
      BY <2>7 DEF Tick, LedgerStep, LedgerSame, SolvesKept, Solved
    <3>2. [s EXCEPT !.age = Age(@)] \in solves'
      BY <2>7 DEF Tick
    <3>3. [s EXCEPT !.age = Age(@)].ch = s.ch /\ [s EXCEPT !.age = Age(@)].hk = s.hk
      BY DEF TypeOK
    <3>4. QED BY <3>2, <3>3
  <2>8. QED BY <1>3, <2>1, <2>2, <2>3, <2>4, <2>5, <2>6, <2>7 DEF Environment
<1>4. CASE UNCHANGED vars
  BY <1>4 DEF vars, LedgerStep, LedgerSame, SolvesKept, Solved
<1>5. QED BY <1>1, <1>2, <1>3, <1>4 DEF Next

\* What every paid row leaves behind, and the next accept finds: a solve and,
\* in winner-take-all mode, a challenge that is no longer active.
PaidLeavesTrace ==
    \A p \in feed :
        /\ Solved(p.req.ch, p.req.hk)
        /\ LockWins /\ p.req.ch \in PublicChallenges => chal[p.req.ch] # "active"

\* An accept that pays found none of these traces.
LEMMA PayingVerdict ==
    ASSUME NEW q \in Requests, AcceptVerdict(q) = "ok"
    PROVE  /\ q \notin burned
           /\ (LockWins /\ q.ch \in PublicChallenges) \/ ~Solved(q.ch, q.hk)
           /\ q.ch \in PublicChallenges => chal[q.ch] = "active"
  BY RequestsAssumption DEF AcceptVerdict, PublicVerdict, PmVerdict, RequestShape, Challenges

LEMMA AcceptSolves ==
    ASSUME NEW q \in Requests, NEW id \in Receipts, AcceptTxn(q, id)
    PROVE  /\ SolvesKept
           /\ AcceptVerdict(q) = "ok" => \E s \in solves' : s.ch = q.ch /\ s.hk = q.hk
<1>1. CASE AcceptVerdict(q) # "ok"
  BY <1>1 DEF AcceptTxn, SolvesKept, Solved
<1>2. CASE AcceptVerdict(q) = "ok" /\ Solved(q.ch, q.hk)
  BY <1>2 DEF AcceptTxn, SolvesKept, Solved, WithSolve
<1>3. CASE AcceptVerdict(q) = "ok" /\ ~Solved(q.ch, q.hk)
  <2> DEFINE new == [ch |-> q.ch, hk |-> q.hk, age |-> 0]
  <2>1. solves' = solves \cup {new}
    BY <1>3 DEF AcceptTxn, WithSolve
  <2>2. new.ch = q.ch /\ new.hk = q.hk
    OBVIOUS
  <2> HIDE DEF new
  <2>3. QED BY <2>1, <2>2 DEF SolvesKept, Solved
<1>4. QED BY <1>1, <1>2, <1>3

LedgerInv == TypeOK /\ PaidLeavesTrace /\ NoDoublePay

LEMMA LedgerInductive ==
    ASSUME ~RetentionOn, LedgerInv, TypeOK', LedgerStep
    PROVE  LedgerInv'
<1> USE DEF LedgerInv
<1>1. CASE LedgerSame
  <2>1. feed' = feed /\ chal' = chal /\ SolvesKept
    BY <1>1 DEF LedgerSame
  <2>2. NoDoublePay'
    BY <2>1 DEF NoDoublePay
  <2>3. PaidLeavesTrace'
    BY <2>1 DEF SolvesKept, PaidLeavesTrace, Solved
  <2>4. QED BY <2>2, <2>3
<1>2. ASSUME NEW q \in Requests, Burns(q) PROVE LedgerInv'
  BY <1>2 DEF Burns, SolvesKept, PaidLeavesTrace, NoDoublePay, Solved
<1>3. ASSUME NEW ch \in Challenges, Closes(ch) PROVE LedgerInv'
  BY <1>3 DEF Closes, PaidLeavesTrace, NoDoublePay, Solved, TypeOK
<1>4. ASSUME NEW q \in Requests, NEW id \in Receipts, AcceptTxn(q, id) PROVE LedgerInv'
  <2>1. CASE AcceptVerdict(q) # "ok"
    BY <1>4, <2>1 DEF AcceptTxn, PaidLeavesTrace, NoDoublePay, Solved
  <2>2. CASE AcceptVerdict(q) = "ok"
    <3> DEFINE new == [id |-> id, req |-> q, rank |->
                          IF q.ch \in PmChallenges THEN 1 ELSE claim_solve(q)]
    <3>1. feed' = feed \cup {new} /\ new.req = q
      BY <1>4, <2>2 DEF AcceptTxn
    <3> HIDE DEF new
    <3>2. \A p \in feed : ~(p.req.ch = q.ch /\ p.req.hk = q.hk)
      BY <2>2, PayingVerdict DEF PaidLeavesTrace
    <3>3. NoDoublePay'
      BY <3>1, <3>2 DEF NoDoublePay
    <3>5. \A ch \in Challenges : chal[ch] # "active" => chal'[ch] # "active"
      BY <1>4, <2>2 DEF AcceptTxn, TypeOK
    <3>6. LockWins /\ q.ch \in PublicChallenges => chal'[q.ch] # "active"
      BY <1>4, <2>2 DEF AcceptTxn, TypeOK, Challenges
    <3>7. \A p \in feed : p.req.ch \in Challenges
      BY RequestsAssumption DEF TypeOK, RequestShape
    <3>8. PaidLeavesTrace'
      <4> SUFFICES ASSUME NEW p \in feed'
                   PROVE  /\ \E s \in solves' : s.ch = p.req.ch /\ s.hk = p.req.hk
                          /\ LockWins /\ p.req.ch \in PublicChallenges
                                => chal'[p.req.ch] # "active"
        BY DEF PaidLeavesTrace, Solved
      <4>1. CASE p \in feed
        BY <1>4, <3>5, <3>7, <4>1, AcceptSolves DEF PaidLeavesTrace, SolvesKept
      <4>2. CASE p.req = q
        BY <1>4, <2>2, <3>6, <4>2, AcceptSolves
      <4>3. QED BY <3>1, <4>1, <4>2
    <3>9. QED BY <3>3, <3>8
  <2>3. QED BY <2>1, <2>2
<1>5. QED BY <1>1, <1>2, <1>3, <1>4 DEF LedgerStep

\* With retention off, no interleaving of inline submits, queued receipts,
\* reclaimed leases and crashes pays a (challenge, hotkey) pair twice.
THEOREM PayOnce ==
    ASSUME ~RetentionOn
    PROVE  Spec => []NoDoublePay
<1>1. Init => TypeInv /\ LedgerInv
  BY TypeInit DEF Init, LedgerInv, TypeInv, PaidLeavesTrace, NoDoublePay
<1>2. TypeInv /\ LedgerInv /\ [Next]_vars => TypeInv' /\ LedgerInv'
  <2> SUFFICES ASSUME TypeInv, LedgerInv, [Next]_vars PROVE TypeInv' /\ LedgerInv'
    OBVIOUS
  <2>1. TypeInv'
    BY TypeStep
  <2>2. LedgerStep
    BY EveryStepIsALedgerStep DEF LedgerInv
  <2>3. QED BY <2>1, <2>2, LedgerInductive DEF TypeInv
<1>3. LedgerInv => NoDoublePay
  BY DEF LedgerInv
<1>4. QED BY <1>1, <1>2, <1>3, PTL DEF Spec

\* Whatever retention deletes, a signature pays at most once: it is burned in
\* the transaction that pays it, and nothing unburns it.
THEOREM SignatureOnce == Spec => []SignaturePaysOnce
<1>1. Init => TypeInv /\ SignaturePaysOnce
  BY TypeInit DEF Init, SignaturePaysOnce
<1>2. TypeInv /\ SignaturePaysOnce /\ [Next]_vars => TypeInv' /\ SignaturePaysOnce'
  <2> SUFFICES ASSUME TypeInv, SignaturePaysOnce, [Next]_vars
               PROVE  TypeInv' /\ SignaturePaysOnce'
    OBVIOUS
  <2>1. TypeInv'
    BY TypeStep
  <2>2. LedgerStep
    BY EveryStepIsALedgerStep DEF TypeInv
  <2>3. CASE LedgerSame
    <3>1. feed' = feed /\ burned' = burned
      BY <2>3 DEF LedgerSame
    <3>2. SignaturePaysOnce'
      BY <3>1 DEF SignaturePaysOnce
    <3>3. QED BY <2>1, <3>2
  <2>4. ASSUME NEW q \in Requests, Burns(q) PROVE SignaturePaysOnce'
    BY <2>4 DEF Burns, SignaturePaysOnce
  <2>5. ASSUME NEW ch \in Challenges, Closes(ch) PROVE SignaturePaysOnce'
    BY <2>5 DEF Closes, SignaturePaysOnce
  <2>6. ASSUME NEW q \in Requests, NEW id \in Receipts, AcceptTxn(q, id)
        PROVE  SignaturePaysOnce'
    <3>1. CASE AcceptVerdict(q) # "ok"
      BY <2>6, <3>1 DEF AcceptTxn, SignaturePaysOnce
    <3>2. CASE AcceptVerdict(q) = "ok"
      <4> DEFINE new == [id |-> id, req |-> q, rank |->
                            IF q.ch \in PmChallenges THEN 1 ELSE claim_solve(q)]
      <4>1. feed' = feed \cup {new} /\ new.req = q /\ burned' = burned \cup {q}
        BY <2>6, <3>2 DEF AcceptTxn
      <4> HIDE DEF new
      <4>2. q \notin burned
        BY <3>2, PayingVerdict
      <4>3. QED BY <4>1, <4>2 DEF SignaturePaysOnce
    <3>3. QED BY <3>1, <3>2
  <2>7. QED BY <2>1, <2>2, <2>3, <2>4, <2>5, <2>6 DEF LedgerStep
<1>3. QED BY <1>1, <1>2, PTL DEF Spec

-----------------------------------------------------------------------------
(* The refinement: with retention off, the submit path is a PayoutLedger.    *)

Paid == {<<p.req.ch, p.req.hk>> : p \in feed}
Active == {ch \in Challenges : chal[ch] = "active"}

\* Each ledger step is a step of the abstract ledger or changes nothing in it.
LEMMA LedgerStepSimulates ==
    ASSUME ~RetentionOn, LedgerInv, LedgerStep
    PROVE  [Ledger!Next]_<<burned, Paid, Active>>
<1> USE DEF LedgerInv
<1>1. CASE LedgerSame
  BY <1>1 DEF LedgerSame, Paid, Active
<1>2. ASSUME NEW q \in Requests, Burns(q) PROVE [Ledger!Next]_<<burned, Paid, Active>>
  <2>1. Paid' = Paid /\ Active' = Active /\ burned' = burned \cup {q}
    BY <1>2 DEF Burns, Paid, Active
  <2>2. CASE q \in burned
    BY <2>1, <2>2
  <2>3. CASE q \notin burned
    <3>1. Ledger!Spend(q)
      BY <2>1, <2>3 DEF Ledger!Spend, Paid, Active
    <3>2. QED BY <3>1 DEF Ledger!Next
  <2>4. QED BY <2>2, <2>3
<1>3. ASSUME NEW ch \in Challenges, Closes(ch) PROVE [Ledger!Next]_<<burned, Paid, Active>>
  <2>1. Paid' = Paid /\ burned' = burned /\ ch \in Active
    BY <1>3 DEF Closes, Paid, Active
  <2>2. Active' = Active \ {ch}
    BY <1>3 DEF Closes, Active, TypeOK
  <2>3. Ledger!Close(ch)
    BY <2>1, <2>2 DEF Ledger!Close, Paid, Active
  <2>4. QED BY <2>1, <2>3 DEF Ledger!Next, Active
<1>4. ASSUME NEW q \in Requests, NEW id \in Receipts, AcceptTxn(q, id)
      PROVE  [Ledger!Next]_<<burned, Paid, Active>>
  <2>1. CASE AcceptVerdict(q) # "ok"
    <3>1. Paid' = Paid /\ Active' = Active /\ burned' = burned \cup {q}
      BY <1>4, <2>1 DEF AcceptTxn, Paid, Active
    <3>2. CASE q \in burned
      BY <3>1, <3>2
    <3>3. CASE q \notin burned
      <4>1. Ledger!Spend(q)
        BY <3>1, <3>3 DEF Ledger!Spend, Paid, Active
      <4>2. QED BY <4>1 DEF Ledger!Next
    <3>4. QED BY <3>2, <3>3
  <2>2. CASE AcceptVerdict(q) = "ok"
    <3> DEFINE new == [id |-> id, req |-> q, rank |->
                          IF q.ch \in PmChallenges THEN 1 ELSE claim_solve(q)]
    <3>1. feed' = feed \cup {new} /\ new.req = q
      BY <1>4, <2>2 DEF AcceptTxn
    <3> HIDE DEF new
    <3>2. burned' = burned \cup {q} /\ q \notin burned
      BY <1>4, <2>2, PayingVerdict DEF AcceptTxn
    <3>3. <<q.ch, q.hk>> \notin Paid
      BY <2>2, PayingVerdict DEF PaidLeavesTrace, Paid
    <3>4. Paid' = Paid \cup {<<q.ch, q.hk>>}
      BY <3>1 DEF Paid
    <3>5. q.ch \in PublicChallenges => q.ch \in Active
      BY <2>2, PayingVerdict DEF Active, Challenges
    <3>6. Active' = Active \/ Active' = Active \ {q.ch}
      BY <1>4, <2>2 DEF AcceptTxn, Active, TypeOK, Challenges
    <3>7. Ledger!Pay(q)
      BY <3>2, <3>3, <3>4, <3>5, <3>6 DEF Ledger!Pay, Ledger!Pair, Paid, Active
    <3>8. QED BY <3>7 DEF Ledger!Next
  <2>3. QED BY <2>1, <2>2
<1>5. QED BY <1>1, <1>2, <1>3, <1>4 DEF LedgerStep

\* With retention off, the publisher's submit path implements the ledger that
\* spends each signature once and pays each pair once.
THEOREM SubmitImplementsLedger ==
    ASSUME ~RetentionOn
    PROVE  Spec => ImplementsLedger
<1>1. Init => TypeInv /\ LedgerInv
  BY TypeInit DEF Init, LedgerInv, TypeInv, PaidLeavesTrace, NoDoublePay
<1>2. TypeInv /\ LedgerInv /\ [Next]_vars => TypeInv' /\ LedgerInv'
  <2> SUFFICES ASSUME TypeInv, LedgerInv, [Next]_vars PROVE TypeInv' /\ LedgerInv'
    OBVIOUS
  <2>1. TypeInv'
    BY TypeStep
  <2>2. LedgerStep
    BY EveryStepIsALedgerStep DEF LedgerInv
  <2>3. QED BY <2>1, <2>2, LedgerInductive DEF TypeInv
<1>3. Init => Ledger!Init
  BY DEF Init, Ledger!Init
<1>4. LedgerInv /\ [Next]_vars => [Ledger!Next]_<<burned, Paid, Active>>
  BY EveryStepIsALedgerStep, LedgerStepSimulates DEF LedgerInv
<1>5. QED
  BY <1>1, <1>2, <1>3, <1>4, PTL DEF Spec, ImplementsLedger, Ledger!Spec, Paid, Active
-----------------------------------------------------------------------------
(* The queue: what a worker's copy, a row and the feed say of one another.   *)

\* A verified request, or one whose challenge was retired under its worker: the
\* accept turns the latter down.
Sound(q) == q \in Good \/ (q.ch \in PublicChallenges /\ chal[q.ch] = "retired")

\* A request that no accept will pay any more.
Doomed(q) ==
    \/ q \notin Good
    \/ q \in burned
    \/ q.ch \in PublicChallenges /\ chal[q.ch] = "retired"

\* A public receipt is for a public challenge, and a shadow twin never is.
KindFits(kind, q) ==
    /\ kind = "public" => q.ch \in PublicChallenges
    /\ kind = "per_miner_shadow" => q.ch \notin PublicChallenges

\* A copy keeps to its row, whatever was written to the row since: the row's
\* kind and request never change, and a used uuid is never filed again.
CopyHolds(c) ==
    /\ c.body
    /\ c.kind # "inline"
    /\ KindFits(c.kind, c.req)
    /\ attempts[c.id] # NoRow
    /\ Exists(c.id) => attempts[c.id].kind = c.kind /\ attempts[c.id].req = c.req

Busy == {"precheck", "accept", "reject", "shadow"}

\* A worker has come to its step with the verdict the step relies on.
WorkerHolds(w) ==
    /\ \A c \in workers[w].batch : CopyHolds(c)
    /\ workers[w].pc \in Busy => CopyHolds(workers[w].cur)
    /\ workers[w].pc = "precheck" => workers[w].cur.kind = "public"
    /\ workers[w].pc \in {"precheck", "accept"} =>
          workers[w].cur.kind \in LiveKinds /\ Sound(workers[w].cur.req)
    /\ workers[w].pc = "reject" =>
          workers[w].cur.kind \in LiveKinds /\ Doomed(workers[w].cur.req)
    /\ workers[w].pc = "shadow" =>
          /\ workers[w].cur.kind = "per_miner_shadow"
          /\ workers[w].ok <=> workers[w].cur.req \in Good

\* An open row is the queue's and has its body; only a doomed request has a
\* rejected receipt.
RowHolds(r) ==
    Exists(r) =>
        /\ Open(r) => attempts[r].body /\ attempts[r].kind # "inline"
        /\ KindFits(attempts[r].kind, attempts[r].req)
        /\ attempts[r].status = "rejected" =>
              /\ attempts[r].kind = "per_miner_shadow" => attempts[r].req \notin Good
              /\ Live(r) => Doomed(attempts[r].req)

TwinsArePm ==
    \A h \in Handlers : handlers[h].pc = "twin" => handlers[h].req.ch \notin PublicChallenges

QueueHolds ==
    /\ TwinsArePm
    /\ \A r \in Receipts : RowHolds(r)
    /\ \A w \in Workers : WorkerHolds(w)
    /\ OnlyVerifiedPaid /\ ReceiptMatchesLedger /\ ShadowNeverPays

\* What one step may do to a row.
Fate(r) ==
    \/ attempts'[r] = attempts[r]
    \/ attempts'[r] = Deleted
    \/ /\ Fresh(r) /\ Exists(r)'
       /\ KindFits(attempts'[r].kind, attempts'[r].req)
       /\ \/ /\ attempts'[r].kind # "inline"
             /\ attempts'[r].status = "pending" /\ attempts'[r].body
          \/ /\ attempts'[r].kind = "inline"
             /\ attempts'[r].status \in TerminalStates
             /\ attempts'[r].status = "ranked" => \E p \in feed' : p.id = r
    \/ /\ Exists(r) /\ Exists(r)'
       /\ attempts'[r].kind = attempts[r].kind /\ attempts'[r].req = attempts[r].req
       /\ \/ /\ attempts'[r].status = attempts[r].status
             /\ attempts'[r].body = attempts[r].body
          \/ /\ Open(r) /\ attempts'[r].status = "verifying"
             /\ attempts'[r].body = attempts[r].body
          \/ Live(r) /\ attempts'[r].status = "rejected" /\ Doomed(attempts[r].req)'
          \/ /\ Live(r) /\ attempts'[r].status = "ranked"
             /\ attempts[r].status # "rejected"
             /\ \E p \in feed' : p.id = r
          \/ /\ attempts[r].kind = "per_miner_shadow"
             /\ attempts'[r].status =
                   IF attempts[r].req \in Good THEN "ranked" ELSE "rejected"

\* What one step may add to the feed.
FeedFate ==
    \/ feed' = feed
    \/ \E p : /\ feed' = feed \cup {p}
              /\ p.req \in Good /\ p.id \in Receipts
              /\ ~Open(p.id)'
              /\ Exists(p.id)' => attempts'[p.id].kind # "per_miner_shadow"

\* The verdicts a worker or a row has drawn stand: a retired challenge stays
\* retired and a burned signature burned.
LEMMA VerdictsStand ==
    ASSUME TypeOK, LedgerStep, NEW q \in Requests
    PROVE  /\ Sound(q) => Sound(q)'
           /\ Doomed(q) => Doomed(q)'
<1>1. q.ch \in Challenges
  BY RequestsAssumption DEF RequestShape
<1>2. chal[q.ch] = "retired" => chal'[q.ch] = "retired"
  <2>1. CASE LedgerSame
    BY <2>1 DEF LedgerSame
  <2>2. ASSUME NEW p \in Requests, Burns(p) PROVE chal' = chal
    BY <2>2 DEF Burns
  <2>3. ASSUME NEW ch \in Challenges, Closes(ch), chal[q.ch] = "retired"
        PROVE  chal'[q.ch] = "retired"
    BY <1>1, <2>3 DEF Closes, TypeOK
  <2>4. ASSUME NEW p \in Requests, NEW id \in Receipts, AcceptTxn(p, id),
               chal[q.ch] = "retired"
        PROVE  chal'[q.ch] = "retired"
    <3>1. AcceptVerdict(p) = "ok" => (p.ch \in PublicChallenges => chal[p.ch] = "active")
      BY PayingVerdict
    <3>2. QED BY <1>1, <2>4, <3>1 DEF AcceptTxn, TypeOK
  <2>5. QED BY <2>1, <2>2, <2>3, <2>4 DEF LedgerStep
<1>3. burned \subseteq burned'
  BY DEF LedgerStep, LedgerSame, Burns, Closes, AcceptTxn
<1>4. QED BY <1>2, <1>3 DEF Sound, Doomed

\* What an accept pays was verified, and has no rejected receipt.
LEMMA PaysGood ==
    ASSUME NEW q \in Requests, Sound(q), AcceptVerdict(q) = "ok"
    PROVE  q \in Good /\ ~Doomed(q)
  BY PayingVerdict DEF Sound, Doomed

\* A transaction that only files row r leaves every row with a fate.
LEMMA FiledFates ==
    ASSUME NEW r \in Receipts, Fresh(r), NEW row,
           attempts' = [attempts EXCEPT ![r] = row],
           attempts \in [Receipts -> Rows \cup {NoRow, Deleted}],
           row.kind \in Kinds, KindFits(row.kind, row.req),
           \/ row.kind # "inline" /\ row.status = "pending" /\ row.body
           \/ /\ row.kind = "inline" /\ row.status \in TerminalStates
              /\ row.status = "ranked" => \E p \in feed' : p.id = r
    PROVE  \A s \in Receipts : Fate(s)
<1> SUFFICES ASSUME NEW s \in Receipts PROVE Fate(s)
  OBVIOUS
<1>1. CASE s # r
  BY <1>1 DEF Fate
<1>2. CASE s = r
  <2>1. attempts'[s] = row
    BY <1>2
  <2>2. Exists(s)'
    BY <2>1 DEF Exists
  <2>3. QED BY <1>2, <2>1, <2>2 DEF Fate
<1>3. QED BY <1>1, <1>2

\* A transaction that updates an existing row r and keeps what it was filed for.
LEMMA UpdatedFates ==
    ASSUME TypeOK, NEW r \in Receipts, NEW row, SetRow(r, row),
           Exists(r) =>
             /\ row.kind = attempts[r].kind /\ row.req = attempts[r].req
             /\ \/ Live(r) /\ row.status = "rejected" /\ Doomed(attempts[r].req)'
                \/ /\ Live(r) /\ row.status = "ranked" /\ attempts[r].status # "rejected"
                   /\ \E p \in feed' : p.id = r
                \/ /\ attempts[r].kind = "per_miner_shadow"
                   /\ row.status = IF attempts[r].req \in Good THEN "ranked" ELSE "rejected"
    PROVE  \A s \in Receipts : Fate(s)
<1> SUFFICES ASSUME NEW s \in Receipts PROVE Fate(s)
  OBVIOUS
<1>1. CASE s # r \/ ~Exists(r)
  BY <1>1 DEF SetRow, Fate, TypeOK
<1>2. CASE s = r /\ Exists(r)
  <2>1. attempts'[s] = row
    BY <1>2 DEF SetRow, TypeOK
  <2>2. Exists(s)'
    BY <1>2, <2>1 DEF Exists
  <2>3. attempts'[s].kind = row.kind /\ attempts'[s].req = row.req
        /\ attempts'[s].status = row.status
    BY <2>1
  <2>4. attempts'[s].kind = attempts[s].kind /\ attempts'[s].req = attempts[s].req
    BY <1>2, <2>3
  <2>5. QED BY <1>2, <2>2, <2>3, <2>4 DEF Fate
<1>3. QED BY <1>1, <1>2

\* Every step gives every row one of these fates.
LEMMA EveryStepHasFates ==
    ASSUME TypeOK, QueueHolds, LedgerStep, [Next]_vars
    PROVE  (\A r \in Receipts : Fate(r)) /\ FeedFate
<1> DEFINE Goal == (\A r \in Receipts : Fate(r)) /\ FeedFate
<1>0. attempts' = attempts /\ feed' = feed => Goal
  BY DEF Fate, FeedFate
<1>1. ASSUME NEW h \in Handlers, HandlerStep(h) PROVE Goal
  <2>0. ASSUME handlers[h].pc # "idle"
        PROVE  handlers[h].req \in Requests /\ handlers[h].req.ch \in Challenges
    BY <2>0, ServingHasRequest, RequestsAssumption DEF RequestShape
  <2>1. ASSUME NEW q \in Requests, NEW sync \in BOOLEAN, agents_submit(h, q, sync)
        PROVE  Goal
    BY <1>0, <2>1 DEF agents_submit
  <2>2. CASE admit_pending(h)
    <3> DEFINE q == handlers[h].req
               row == NewRow(challenge_kind(q.ch), q, "pending", TRUE, handlers[h].seq)
    <3>1. q.ch \in Challenges /\ feed' = feed
      BY <2>0, <2>2 DEF admit_pending
    <3>2. CASE attempts' = attempts
      BY <1>0, <3>1, <3>2
    <3>3. ASSUME NEW r \in Receipts, Fresh(r), attempts' = [attempts EXCEPT ![r] = row]
          PROVE  Goal
      <4>1. row.kind \in LiveKinds /\ row.status = "pending" /\ row.body /\ row.req = q
            /\ row.kind = challenge_kind(q.ch)
        BY DEF NewRow, challenge_kind, LiveKinds
      <4>2. row.kind \in Kinds /\ row.kind # "inline" /\ KindFits(row.kind, row.req)
        BY <3>1, <4>1 DEF KindFits, challenge_kind, Challenges, Kinds, LiveKinds
      <4> HIDE DEF row
      <4>3. \A s \in Receipts : Fate(s)
        BY <3>3, <4>1, <4>2, FiledFates DEF TypeOK
      <4>4. QED BY <3>1, <4>3 DEF FeedFate
    <3>4. QED BY <2>2, <3>2, <3>3 DEF admit_pending
  <2>3. CASE admit_pm_shadow(h)
    <3> DEFINE q == handlers[h].req
               row == NewRow("per_miner_shadow", q, "pending", TRUE, handlers[h].seq)
    <3>1. q.ch \notin PublicChallenges /\ feed' = feed
      BY <2>3 DEF admit_pm_shadow, QueueHolds, TwinsArePm
    <3>2. CASE attempts' = attempts
      BY <1>0, <3>1, <3>2
    <3>3. ASSUME NEW r \in Receipts, Fresh(r), attempts' = [attempts EXCEPT ![r] = row]
          PROVE  Goal
      <4>1. row.kind = "per_miner_shadow" /\ row.status = "pending" /\ row.body /\ row.req = q
        BY DEF NewRow
      <4>2. row.kind \in Kinds /\ KindFits(row.kind, row.req)
        BY <3>1, <4>1 DEF KindFits, Kinds
      <4> HIDE DEF row
      <4>3. \A s \in Receipts : Fate(s)
        BY <3>3, <4>1, <4>2, FiledFates DEF TypeOK
      <4>4. QED BY <3>1, <4>3 DEF FeedFate
    <3>4. QED BY <2>3, <3>2, <3>3 DEF admit_pm_shadow
  <2>4. ASSUME NEW r \in Receipts, Fresh(r), feed' = feed,
               attempts' = [attempts EXCEPT ![r] =
                              NewRow("inline", handlers[h].req, "rejected", FALSE, 0)]
        PROVE  Goal
    <3> DEFINE row == NewRow("inline", handlers[h].req, "rejected", FALSE, 0)
    <3>1. row.kind = "inline" /\ row.status = "rejected"
      BY DEF NewRow
    <3>2. row.kind \in Kinds /\ row.status \in TerminalStates /\ KindFits(row.kind, row.req)
      BY <3>1 DEF KindFits, Kinds, TerminalStates
    <3> HIDE DEF row
    <3>3. attempts' = [attempts EXCEPT ![r] = row]
      BY <2>4 DEF row
    <3>4. \A s \in Receipts : Fate(s)
      BY <2>4, <3>1, <3>2, <3>3, FiledFates DEF TypeOK
    <3>5. QED BY <2>4, <3>4 DEF FeedFate
  <2>5. CASE inline_reject(h)
    BY <1>0, <2>4, <2>5 DEF inline_reject
  <2>6. CASE inline_accept(h)
    <3> DEFINE q == handlers[h].req
               row == NewRow("inline", q, "ranked", FALSE, 0)
               new(r) == [id |-> r, req |-> q, rank |->
                             IF q.ch \in PmChallenges THEN 1 ELSE claim_solve(q)]
    <3>1. PICK r \in Receipts :
            /\ Fresh(r) /\ AcceptTxn(q, r)
            /\ attempts' = IF q.ch \in PmChallenges /\ AcceptVerdict(q) = "ok"
                           THEN [attempts EXCEPT ![r] = row] ELSE attempts
      BY <2>6 DEF inline_accept
    <3>2. CASE AcceptVerdict(q) # "ok"
      BY <1>0, <3>1, <3>2 DEF AcceptTxn
    <3>3. CASE AcceptVerdict(q) = "ok"
      <4>1. feed' = feed \cup {new(r)} /\ q \in Good
        BY <2>6, <3>1, <3>3 DEF AcceptTxn, inline_accept
      <4>2. row.kind = "inline" /\ row.status = "ranked"
        BY DEF NewRow
      <4>3. new(r).id = r /\ new(r).req = q
        OBVIOUS
      <4>4. \E p \in feed' : p.id = r
        BY <4>1, <4>3
      <4>5. row.kind \in Kinds /\ row.status \in TerminalStates /\ KindFits(row.kind, row.req)
        BY <4>2 DEF KindFits, Kinds, TerminalStates
      <4>6. attempts'[r] \in {NoRow, row}
        BY <3>1 DEF Fresh, TypeOK
      <4>7. ~Open(r)' /\ (Exists(r)' => attempts'[r].kind # "per_miner_shadow")
        <5> HIDE DEF row
        <5>1. CASE attempts'[r] = row
          BY <4>2, <5>1 DEF Open, OpenStates
        <5>2. CASE attempts'[r] = NoRow
          BY <5>2 DEF Open, Exists, NoRow, Kinds, LiveKinds
        <5>3. QED BY <4>6, <5>1, <5>2
      <4>8. FeedFate
        BY <4>1, <4>3, <4>7 DEF FeedFate
      <4> HIDE DEF row, new
      <4>9. CASE attempts' = attempts
        BY <4>8, <4>9 DEF Fate
      <4>10. CASE attempts' = [attempts EXCEPT ![r] = row]
        <5>1. \A s \in Receipts : Fate(s)
          BY <3>1, <4>2, <4>4, <4>5, <4>10, FiledFates DEF TypeOK
        <5>2. QED BY <4>8, <5>1
      <4>11. QED BY <3>1, <4>9, <4>10
    <3>4. QED BY <3>2, <3>3
  <2>7. CASE record_pm_attempt(h)
    BY <2>4, <2>7 DEF record_pm_attempt
  <2>8. QED BY <1>1, <2>1, <2>2, <2>3, <2>5, <2>6, <2>7 DEF HandlerStep
<1>2. ASSUME NEW w \in Workers, WorkerStep(w) PROVE Goal
  <2> DEFINE c == workers[w].cur
  <2>1. CASE claim_pending(w)
    <3>1. PICK B \in SUBSET Claimable : claim_pending(w)!3!(B)
      BY <2>1 DEF claim_pending
    <3>2. feed' = feed
      BY <2>1 DEF claim_pending
    <3>3. ASSUME NEW r \in Receipts PROVE Fate(r)
      <4>1. CASE r \notin B
        BY <3>1, <4>1 DEF Fate
      <4>2. CASE r \in B
        <5>1. Open(r) /\ attempts[r] \in Rows
          BY <4>2, ExistingRow DEF Claimable, Open
        <5>2. attempts'[r] = [attempts[r] EXCEPT !.status = "verifying", !.by = w,
                                                 !.lease = LockSecs, !.age = 0]
          BY <3>1, <4>2
        <5>3. /\ attempts'[r].kind = attempts[r].kind /\ attempts'[r].req = attempts[r].req
              /\ attempts'[r].status = "verifying" /\ attempts'[r].body = attempts[r].body
          BY <5>1, <5>2 DEF Rows
        <5>4. Exists(r) /\ Exists(r)'
          BY <5>1, <5>3 DEF Open, Exists
        <5>5. QED BY <5>1, <5>3, <5>4 DEF Fate
      <4>3. QED BY <4>1, <4>2
    <3>4. QED BY <3>2, <3>3 DEF FeedFate
  <2>2. CASE finalize_verify(w)
    BY <1>0, <2>2 DEF finalize_verify
  <2>3. CASE accept_precheck(w)
    BY <1>0, <2>3 DEF accept_precheck
  <2>0. ASSUME workers[w].pc \in Busy
        PROVE  /\ c.id \in Receipts /\ c.req \in Requests /\ CopyHolds(c)
               /\ workers[w].ok \in BOOLEAN
    <3>1. c \in Copies /\ workers[w].ok \in BOOLEAN
      BY <2>0, CurIsCopy DEF Busy
    <3>2. QED BY <2>0, <3>1 DEF Copies, QueueHolds, WorkerHolds
  <2>4. CASE accept_async(w)
    <3>0. PICK id \in Receipts, q \in Requests : id = c.id /\ q = c.req
      BY <2>0, <2>4 DEF accept_async, Busy
    <3> DEFINE row == [attempts[id] EXCEPT !.status = "ranked", !.body = FALSE,
                                             !.by = NONE, !.lease = 0, !.age = 0]
               new == [id |-> id, req |-> q, rank |->
                          IF q.ch \in PmChallenges THEN 1 ELSE claim_solve(q)]
    <3>1. /\ CopyHolds(c)
          /\ c.kind \in LiveKinds /\ Sound(q)
      BY <2>0, <2>4, <3>0 DEF accept_async, Busy, QueueHolds, WorkerHolds
    <3>2. AcceptTxn(q, id)
      BY <2>4, <3>0 DEF accept_async
    <3>3. CASE AcceptVerdict(q) # "ok"
      BY <1>0, <2>4, <3>0, <3>2, <3>3 DEF accept_async, AcceptTxn
    <3>4. CASE AcceptVerdict(q) = "ok"
      <4>1. q \in Good /\ ~Doomed(q)
        BY <3>1, <3>4, PaysGood
      <4>2. feed' = feed \cup {new} /\ new.id = id /\ new.req = q
        BY <3>2, <3>4 DEF AcceptTxn
      <4>3. SetRow(id, row)
        BY <2>4, <3>0, <3>4 DEF accept_async
      <4> HIDE DEF new
      <4>4. \E p \in feed' : p.id = id
        BY <4>2
      <4>5. ASSUME Exists(id)
            PROVE  /\ row.kind = attempts[id].kind /\ row.req = attempts[id].req
                   /\ row.status = "ranked" /\ Live(id)
                   /\ attempts[id].status # "rejected"
        <5>1. attempts[id] \in Rows /\ attempts[id].kind = c.kind
              /\ attempts[id].req = q
          BY <3>0, <3>1, <4>5, ExistingRow DEF CopyHolds
        <5>2. row.kind = attempts[id].kind /\ row.req = attempts[id].req
              /\ row.status = "ranked"
          BY <5>1 DEF Rows
        <5>3. Live(id)
          BY <3>1, <5>1 DEF Live
        <5>4. attempts[id].status # "rejected"
          BY <3>1, <4>1, <4>5, <5>1, <5>3 DEF QueueHolds, RowHolds
        <5>5. QED BY <5>2, <5>3, <5>4
      <4>6. ~Open(id)' /\ (Exists(id)' => attempts'[id].kind # "per_miner_shadow")
        <5>1. CASE Exists(id)
          <6>1. attempts'[id] = row
            BY <3>1, <4>3, <5>1 DEF SetRow, TypeOK
          <6>2. QED BY <4>5, <5>1, <6>1 DEF Open, OpenStates, Live, LiveKinds
        <5>2. CASE ~Exists(id)
          BY <4>3, <5>2 DEF SetRow, Open, Exists
        <5>3. QED BY <5>1, <5>2
      <4>7. FeedFate
        BY <3>1, <4>1, <4>2, <4>6 DEF FeedFate
      <4> HIDE DEF row
      <4>8. \A s \in Receipts : Fate(s)
        BY <3>1, <4>3, <4>4, <4>5, UpdatedFates
      <4>9. QED BY <4>7, <4>8
    <3>5. QED BY <3>3, <3>4
  <2>5. CASE mark_rejected(w)
    <3>0. PICK id \in Receipts, q \in Requests : id = c.id /\ q = c.req
      BY <2>0, <2>5 DEF mark_rejected, Busy
    <3> DEFINE row == [attempts[id] EXCEPT !.status = "rejected",
                                             !.by = NONE, !.lease = 0, !.age = 0]
    <3>1. /\ CopyHolds(c)
          /\ c.kind \in LiveKinds /\ Doomed(q)
      BY <2>0, <2>5, <3>0 DEF mark_rejected, Busy, QueueHolds, WorkerHolds
    <3>2. SetRow(id, row) /\ feed' = feed
      BY <2>5, <3>0 DEF mark_rejected
    <3>3. ASSUME Exists(id)
          PROVE  /\ row.kind = attempts[id].kind /\ row.req = attempts[id].req
                 /\ row.status = "rejected" /\ Live(id)
      <4>1. attempts[id] \in Rows /\ attempts[id].kind = c.kind
        BY <3>1, <3>3, <3>0, ExistingRow DEF CopyHolds
      <4>2. QED BY <3>1, <4>1 DEF Rows, Live
    <3> HIDE DEF row
    <3>4. Exists(id) => Doomed(attempts[id].req)'
      <4>1. SUFFICES ASSUME Exists(id) PROVE Doomed(attempts[id].req)'
        OBVIOUS
      <4>2. attempts[id].req = q
        BY <3>0, <3>1, <4>1 DEF CopyHolds
      <4>3. attempts'[id].req = q
        BY <3>1, <3>2, <3>3, <4>1, <4>2 DEF SetRow, TypeOK
      <4>4. burned' = burned /\ chal' = chal
        BY <2>5 DEF mark_rejected
      <4>5. QED BY <3>1, <4>3, <4>4 DEF Doomed
    <3>5. \A s \in Receipts : Fate(s)
      BY <3>1, <3>2, <3>3, <3>4, UpdatedFates
    <3>6. QED BY <3>2, <3>5 DEF FeedFate
  <2>6. CASE finalize_pm_shadow(w)
    <3> DEFINE row == [attempts[c.id] EXCEPT
                         !.status = IF workers[w].ok THEN "ranked" ELSE "rejected",
                         !.body = FALSE, !.by = NONE, !.lease = 0, !.age = 0]
    <3>1. /\ c.id \in Receipts /\ CopyHolds(c) /\ c.kind = "per_miner_shadow"
          /\ workers[w].ok <=> c.req \in Good
      BY <2>0, <2>6 DEF finalize_pm_shadow, Busy, QueueHolds, WorkerHolds
    <3>2. SetRow(c.id, row) /\ feed' = feed
      BY <2>6 DEF finalize_pm_shadow
    <3>3. ASSUME Exists(c.id)
          PROVE  /\ row.kind = attempts[c.id].kind /\ row.req = attempts[c.id].req
                 /\ attempts[c.id].kind = "per_miner_shadow"
                 /\ row.status = IF attempts[c.id].req \in Good THEN "ranked" ELSE "rejected"
      <4>1. attempts[c.id] \in Rows /\ attempts[c.id].kind = c.kind
            /\ attempts[c.id].req = c.req
        BY <3>1, <3>3, ExistingRow DEF CopyHolds
      <4>2. row.kind = attempts[c.id].kind /\ row.req = attempts[c.id].req
        BY <4>1 DEF Rows
      <4>3. row.status = IF workers[w].ok THEN "ranked" ELSE "rejected"
        BY <4>1 DEF Rows
      <4>4. QED BY <3>1, <4>1, <4>2, <4>3
    <3> HIDE DEF row
    <3>4. \A s \in Receipts : Fate(s)
      BY <3>1, <3>2, <3>3, UpdatedFates
    <3>5. QED BY <3>2, <3>4 DEF FeedFate
  <2>7. QED BY <1>2, <2>1, <2>2, <2>3, <2>4, <2>5, <2>6 DEF WorkerStep
<1>3. ASSUME Environment PROVE Goal
  <2>1. ASSUME NEW h \in Handlers, DropRequest(h) PROVE Goal
    BY <1>0, <2>1 DEF DropRequest
  <2>2. ASSUME NEW w \in Workers, AbandonTick(w) \/ poll_empty(w) PROVE Goal
    BY <1>0, <2>2 DEF AbandonTick, poll_empty, vars
  <2>3. ASSUME NEW ch \in Challenges, retire(ch) PROVE Goal
    BY <1>0, <2>3 DEF retire
  <2>4. ASSUME NEW r \in Receipts, delete_attempt(r) PROVE Goal
    BY <2>4 DEF delete_attempt, Fate, FeedFate, TypeOK
  <2>5. ASSUME NEW s \in solves, delete_solve(s) PROVE Goal
    BY <1>0, <2>5 DEF delete_solve
  <2>6. ASSUME NEW m \in PmModes, Redeploy(m) PROVE Goal
    BY <1>0, <2>6 DEF Redeploy
  <2>7. CASE Tick
    <3>1. feed' = feed
      BY <2>7 DEF Tick
    <3>2. ASSUME NEW r \in Receipts PROVE Fate(r)
      <4>1. attempts'[r] = Older(attempts[r])
        BY <2>7 DEF Tick
      <4>2. CASE ~Exists(r)
        BY <4>1, <4>2 DEF Older, Exists, Fate
      <4>3. CASE Exists(r)
        <5>1. attempts[r] \in Rows
          BY <4>3, ExistingRow
        <5>2. /\ attempts'[r].kind = attempts[r].kind /\ attempts'[r].req = attempts[r].req
              /\ attempts'[r].status = attempts[r].status /\ attempts'[r].body = attempts[r].body
          BY <4>1, <4>3, <5>1 DEF Older, Exists, Rows
        <5>3. Exists(r)'
          BY <4>3, <5>2 DEF Exists
        <5>4. QED BY <4>3, <5>2, <5>3 DEF Fate
      <4>4. QED BY <4>2, <4>3
    <3>3. QED BY <3>1, <3>2 DEF FeedFate
  <2>8. QED BY <1>3, <2>1, <2>2, <2>3, <2>4, <2>5, <2>6, <2>7 DEF Environment
<1>4. CASE UNCHANGED vars
  BY <1>0, <1>4 DEF vars
<1>5. QED BY <1>1, <1>2, <1>3, <1>4 DEF Next

\* A copy outlives whatever happens to its row.
LEMMA CopyKept ==
    ASSUME NEW c \in Copies, CopyHolds(c), Fate(c.id)
    PROVE  CopyHolds(c)'
<1>1. attempts'[c.id] # NoRow
  BY DEF CopyHolds, Fate, Fresh, Exists, NoRow, Deleted, Kinds, LiveKinds
<1>2. ASSUME Exists(c.id)' PROVE attempts'[c.id].kind = c.kind /\ attempts'[c.id].req = c.req
  BY <1>2 DEF CopyHolds, Fate, Fresh, Exists, Deleted, Kinds, LiveKinds
<1>3. QED BY <1>1, <1>2 DEF CopyHolds

\* A worker that does not move keeps what it relies on.
LEMMA RestingWorker ==
    ASSUME TypeOK, NEW w \in Workers, WorkerHolds(w), LedgerStep,
           \A r \in Receipts : Fate(r), workers'[w] = workers[w]
    PROVE  WorkerHolds(w)'
<1>1. workers[w].batch \subseteq Copies
  BY DEF TypeOK, WorkerStates
<1>2. \A c \in workers[w].batch : CopyHolds(c)'
  BY <1>1, CopyKept DEF WorkerHolds, Copies
<1>3. ASSUME workers[w].pc \in Busy
      PROVE  \E c \in Copies : /\ c = workers[w].cur /\ CopyHolds(c)'
                               /\ Sound(c.req) => Sound(c.req)'
                               /\ Doomed(c.req) => Doomed(c.req)'
  <2>1. PICK c \in Copies : c = workers[w].cur
    BY <1>3, CurIsCopy DEF Busy
  <2>2. c.req \in Requests /\ c.id \in Receipts /\ CopyHolds(c)
    BY <1>3, <2>1 DEF Copies, WorkerHolds
  <2>3. QED BY <2>1, <2>2, CopyKept, VerdictsStand
<1>4. QED BY <1>2, <1>3 DEF WorkerHolds, Busy

\* A worker that goes on to its next row or ends its tick.
LEMMA DoneWorker ==
    ASSUME TypeOK, NEW w \in Workers, WorkerHolds(w),
           \A r \in Receipts : Fate(r),
           \/ RowDone(w)
           \/ workers' = [workers EXCEPT ![w] = IdleWorker]
    PROVE  WorkerHolds(w)' /\ \A v \in Workers \ {w} : workers'[v] = workers[v]
<1>1. workers[w].batch \subseteq Copies
  BY DEF TypeOK, WorkerStates
<1>2. \A c \in workers[w].batch : CopyHolds(c)'
  BY <1>1, CopyKept DEF WorkerHolds, Copies
<1>3. /\ workers'[w].batch \subseteq workers[w].batch
      /\ workers'[w].pc \in {"idle", "next"}
  <2>1. workers'[w] = IdleWorker
          \/ workers'[w] = [IdleWorker EXCEPT !.pc = "next", !.batch = workers[w].batch]
    BY DEF RowDone, TypeOK
  <2>2. IdleWorker.batch = {} /\ IdleWorker.pc = "idle"
    BY DEF IdleWorker
  <2>3. /\ [IdleWorker EXCEPT !.pc = "next", !.batch = workers[w].batch].batch
              = workers[w].batch
        /\ [IdleWorker EXCEPT !.pc = "next", !.batch = workers[w].batch].pc = "next"
    BY DEF IdleWorker
  <2>4. CASE workers'[w] = IdleWorker
    BY <2>2, <2>4
  <2>5. CASE workers'[w] = [IdleWorker EXCEPT !.pc = "next", !.batch = workers[w].batch]
    BY <2>3, <2>5
  <2>6. QED BY <2>1, <2>4, <2>5
<1>4. WorkerHolds(w)'
  BY <1>2, <1>3 DEF WorkerHolds, Busy
<1>5. QED BY <1>4 DEF RowDone, TypeOK

\* Each step of a worker draws the verdict its next step relies on.
LEMMA WorkersStep ==
    ASSUME TypeOK, QueueHolds, LedgerStep, \A r \in Receipts : Fate(r), [Next]_vars
    PROVE  \A w \in Workers : WorkerHolds(w)'
<1> DEFINE Goal == \A w \in Workers : WorkerHolds(w)'
<1>0. ASSUME NEW w \in Workers, WorkerHolds(w)',
             \A v \in Workers \ {w} : workers'[v] = workers[v]
      PROVE  Goal
  BY <1>0, RestingWorker DEF QueueHolds
<1>1. workers' = workers => Goal
  BY RestingWorker DEF QueueHolds
<1>2. ASSUME NEW h \in Handlers, HandlerStep(h) PROVE Goal
  BY <1>1, <1>2 DEF HandlerStep, agents_submit, admit_pending, admit_pm_shadow,
                    inline_reject, inline_accept, record_pm_attempt
<1>3. ASSUME NEW w \in Workers, WorkerStep(w) PROVE Goal
  <2>0. WorkerHolds(w)
    BY DEF QueueHolds
  <2>1. CASE claim_pending(w)
    <3>1. PICK B \in SUBSET Claimable : claim_pending(w)!3!(B)
      BY <2>1 DEF claim_pending
    <3>2. /\ workers'[w].batch = {CopyOf(r) : r \in B} /\ workers'[w].pc = "next"
          /\ \A v \in Workers \ {w} : workers'[v] = workers[v]
      BY <3>1 DEF IdleWorker, TypeOK
    <3>3. ASSUME NEW r \in B PROVE CopyOf(r) \in Copies /\ CopyHolds(CopyOf(r))
      <4>1. r \in Receipts /\ Open(r) /\ attempts[r] \in Rows
        BY ExistingRow DEF Claimable, Open
      <4>2. RowHolds(r) /\ Exists(r)
        BY <4>1 DEF QueueHolds, Open
      <4>3. attempts[r] # NoRow
        BY <4>2 DEF Exists, NoRow, Kinds, LiveKinds
      <4>4. QED BY <4>1, <4>2, <4>3 DEF CopyOf, Copies, Rows, RowHolds, CopyHolds
    <3>4. \A c \in {CopyOf(r) : r \in B} : CopyHolds(c)'
      <4> SUFFICES ASSUME NEW c \in {CopyOf(r) : r \in B} PROVE CopyHolds(c)'
        OBVIOUS
      <4>1. c \in Copies /\ CopyHolds(c)
        BY <3>3
      <4>2. QED BY <4>1, CopyKept DEF Copies
    <3>5. WorkerHolds(w)'
      BY <3>2, <3>4 DEF WorkerHolds, Busy
    <3>6. QED BY <1>0, <3>2, <3>5
  <2>2. CASE finalize_verify(w)
    <3>1. PICK c \in workers[w].batch : finalize_verify(w)!2!(c)
      BY <2>2 DEF finalize_verify
    <3>2. c \in Copies /\ workers[w].batch \subseteq Copies /\ c.req \in Requests
          /\ c.id \in Receipts
      <4>1. c \in Copies /\ workers[w].batch \subseteq Copies
        BY <3>1 DEF TypeOK, WorkerStates
      <4>2. QED BY <4>1 DEF Copies
    <3>3. CopyHolds(c)
      BY <2>0, <3>1 DEF WorkerHolds
    <3>4. PICK ok \in VerifyResult(c.req) :
            workers' = [workers EXCEPT ![w] =
               [pc |-> CASE c.kind = "per_miner_shadow" -> "shadow"
                         [] c.kind = "public" /\ ok     -> "precheck"
                         [] c.kind = "per_miner" /\ ok  -> "accept"
                         [] OTHER                       -> "reject",
                batch |-> workers[w].batch \ {c}, cur |-> c, ok |-> ok]]
      BY <3>1, <3>3 DEF CopyHolds
    <3>5. /\ workers'[w].pc = CASE c.kind = "per_miner_shadow" -> "shadow"
                                [] c.kind = "public" /\ ok     -> "precheck"
                                [] c.kind = "per_miner" /\ ok  -> "accept"
                                [] OTHER                       -> "reject"
          /\ workers'[w].batch = workers[w].batch \ {c}
          /\ workers'[w].cur = c /\ workers'[w].ok = ok
          /\ \A v \in Workers \ {w} : workers'[v] = workers[v]
      BY <3>4 DEF TypeOK
    <3>6. ok \in BOOLEAN /\ (ok => Sound(c.req)) /\ (~ok => Doomed(c.req))
      BY DEF VerifyResult, Sound, Doomed
    <3>7. c.req.ch \notin PublicChallenges => (ok <=> c.req \in Good)
      BY DEF VerifyResult
    <3>8. Sound(c.req)' <=> Sound(c.req)
      BY <2>2 DEF finalize_verify, Sound
    <3>9. Doomed(c.req)' <=> Doomed(c.req)
      BY <2>2 DEF finalize_verify, Doomed
    <3>10. c.kind \in {"public", "per_miner", "per_miner_shadow"}
      BY <3>2, <3>3 DEF Copies, CopyHolds, Kinds, LiveKinds
    <3>11. CopyHolds(c)' /\ \A d \in workers[w].batch : CopyHolds(d)'
      BY <2>0, <3>2, <3>3, CopyKept DEF WorkerHolds, Copies
    <3>12. CASE c.kind = "per_miner_shadow"
      <4>1. ok <=> c.req \in Good
        BY <3>3, <3>7, <3>12 DEF CopyHolds, KindFits
      <4>2. WorkerHolds(w)'
        BY <3>5, <3>11, <3>12, <4>1 DEF WorkerHolds, Busy
      <4>3. QED BY <1>0, <3>5, <4>2
    <3>13. CASE c.kind # "per_miner_shadow" /\ ok
      <4>1. workers'[w].pc = IF c.kind = "public" THEN "precheck" ELSE "accept"
        BY <3>5, <3>10, <3>13
      <4>2. c.kind \in LiveKinds
        BY <3>10, <3>13 DEF LiveKinds
      <4>3. Sound(c.req)'
        BY <3>6, <3>8, <3>13
      <4>4. WorkerHolds(w)'
        BY <3>5, <3>11, <4>1, <4>2, <4>3 DEF WorkerHolds, Busy
      <4>5. QED BY <1>0, <3>5, <4>4
    <3>14. CASE c.kind # "per_miner_shadow" /\ ~ok
      <4>1. workers'[w].pc = "reject"
        BY <3>5, <3>14
      <4>2. c.kind \in LiveKinds
        BY <3>10, <3>14 DEF LiveKinds
      <4>3. Doomed(c.req)'
        BY <3>6, <3>9, <3>14
      <4>4. WorkerHolds(w)'
        BY <3>5, <3>11, <4>1, <4>2, <4>3 DEF WorkerHolds, Busy
      <4>5. QED BY <1>0, <3>5, <4>4
    <3>15. QED BY <3>6, <3>12, <3>13, <3>14
  <2>3. ASSUME NEW pc \in {"accept", "reject"}, workers[w].pc \in {"precheck", "accept"},
               workers' = [workers EXCEPT ![w].pc = pc],
               pc = "reject" => \A q \in Requests : q = workers[w].cur.req => Doomed(q)'
        PROVE  Goal
    <3>1. PICK c \in Copies : c = workers[w].cur
      BY <2>3, CurIsCopy
    <3>2. c.req \in Requests /\ c.id \in Receipts
      BY <3>1 DEF Copies
    <3>3. CopyHolds(c) /\ c.kind \in LiveKinds /\ Sound(c.req)
      BY <2>0, <2>3, <3>1 DEF WorkerHolds, Busy
    <3>4. CopyHolds(c)' /\ Sound(c.req)'
      BY <3>2, <3>3, CopyKept, VerdictsStand
    <3>5. \A d \in workers[w].batch : CopyHolds(d)'
      <4>1. workers[w].batch \subseteq Copies
        BY DEF TypeOK, WorkerStates
      <4>2. QED BY <2>0, <4>1, CopyKept DEF WorkerHolds, Copies
    <3>6. /\ workers'[w].pc = pc /\ workers'[w].batch = workers[w].batch
          /\ workers'[w].cur = c
          /\ \A v \in Workers \ {w} : workers'[v] = workers[v]
      <4>1. workers[w] \in [pc : Busy, batch : SUBSET Copies, cur : Copies, ok : BOOLEAN]
        BY <2>3 DEF TypeOK, WorkerStates, Busy
      <4>2. QED BY <2>3, <3>1, <4>1 DEF TypeOK
    <3>7. pc = "reject" => Doomed(c.req)'
      BY <2>3, <3>1, <3>2
    <3>8. WorkerHolds(w)'
      BY <3>3, <3>4, <3>5, <3>6, <3>7 DEF WorkerHolds, Busy
    <3>9. QED BY <1>0, <3>6, <3>8
  <2>4. CASE accept_precheck(w)
    <3>1. PICK c \in Copies : c = workers[w].cur
      BY <2>4, CurIsCopy DEF accept_precheck
    <3>2. c.req \in Requests /\ c.req.ch \in PublicChallenges /\ c.req.ch \in Challenges
      BY <2>0, <2>4, <3>1 DEF accept_precheck, WorkerHolds, Busy, CopyHolds, KindFits,
                              Copies, Challenges
    <3>3. chal[c.req.ch] \notin {"active", "locked"} => Doomed(c.req)'
      BY <2>4, <3>2 DEF accept_precheck, Doomed, TypeOK
    <3>4. QED BY <2>3, <2>4, <3>1, <3>3 DEF accept_precheck
  <2>5. CASE accept_async(w)
    <3>1. PICK c \in Copies : c = workers[w].cur
      BY <2>5, CurIsCopy DEF accept_async
    <3>2. CASE AcceptVerdict(c.req) = "ok"
      <4>1. RowDone(w)
        BY <2>5, <3>1, <3>2 DEF accept_async
      <4>2. QED BY <1>0, <2>0, <4>1, DoneWorker
    <3>3. CASE AcceptVerdict(c.req) # "ok"
      <4>1. workers' = [workers EXCEPT ![w].pc = "reject"] /\ workers[w].pc = "accept"
        BY <2>5, <3>1, <3>3 DEF accept_async
      <4>2. Doomed(c.req)'
        BY <2>5, <3>1 DEF accept_async, AcceptTxn, Doomed
      <4>3. QED BY <2>3, <3>1, <4>1, <4>2
    <3>4. QED BY <3>2, <3>3
  <2>6. CASE mark_rejected(w) \/ finalize_pm_shadow(w)
    <3>1. RowDone(w)
      BY <2>6 DEF mark_rejected, finalize_pm_shadow
    <3>2. QED BY <1>0, <2>0, <3>1, DoneWorker
  <2>7. QED BY <1>3, <2>1, <2>2, <2>4, <2>5, <2>6 DEF WorkerStep
<1>4. ASSUME NEW w \in Workers, AbandonTick(w) PROVE Goal
  BY <1>0, <1>4, DoneWorker DEF AbandonTick, QueueHolds
<1>5. CASE Environment
  BY <1>1, <1>4, <1>5 DEF Environment, DropRequest, poll_empty, vars, retire,
                          delete_attempt, delete_solve, Redeploy, Tick
<1>6. CASE UNCHANGED vars
  BY <1>1, <1>6 DEF vars
<1>7. QED BY <1>2, <1>3, <1>5, <1>6 DEF Next

\* A row keeps its promises through every fate.
LEMMA RowKept ==
    ASSUME TypeOK, NEW r \in Receipts, RowHolds(r), Fate(r), LedgerStep
    PROVE  RowHolds(r)'
<1> SUFFICES ASSUME Exists(r)' PROVE RowHolds(r)'
  BY DEF RowHolds
<1>1. CASE attempts'[r] = attempts[r]
  <2>1. Exists(r) /\ attempts[r] \in Rows
    BY <1>1, ExistingRow DEF Exists
  <2>2. attempts[r].req \in Requests
    BY <2>1 DEF Rows
  <2>3. Doomed(attempts[r].req) => Doomed(attempts[r].req)'
    <3>1. \A q \in Requests : Doomed(q) => Doomed(q)'
      BY VerdictsStand
    <3>2. PICK q \in Requests : q = attempts[r].req
      BY <2>2
    <3>3. QED BY <1>1, <3>1, <3>2
  <2>4. QED BY <1>1, <2>1, <2>3 DEF RowHolds, Exists, Open, Live
<1>2. CASE attempts'[r] = Deleted
  BY <1>2 DEF Exists, Deleted, Kinds, LiveKinds
<1>3. CASE Fresh(r) /\ attempts'[r] # attempts[r] /\ attempts'[r] # Deleted
  <2>1. ~Exists(r)
    BY <1>3 DEF Fresh, Exists, NoRow, Kinds, LiveKinds
  <2>2. QED BY <1>3, <2>1 DEF Fate, RowHolds, Open, OpenStates, Live, LiveKinds, TerminalStates
<1>4. CASE /\ Exists(r)
           /\ attempts'[r].kind = attempts[r].kind /\ attempts'[r].req = attempts[r].req
           /\ ~Fresh(r) /\ attempts'[r] # attempts[r] /\ attempts'[r] # Deleted
  <2>1. PICK q \in Requests : q = attempts[r].req
    BY <1>4, ExistingRow DEF Rows
  <2>2. attempts'[r].req = q /\ (Doomed(q) => Doomed(q)')
    BY <1>4, <2>1, VerdictsStand
  <2>3. KindFits(attempts'[r].kind, attempts'[r].req)
    BY <1>4 DEF RowHolds
  <2>4. CASE attempts'[r].status = attempts[r].status /\ attempts'[r].body = attempts[r].body
    BY <1>4, <2>1, <2>2, <2>3, <2>4 DEF RowHolds, Open, Exists, Live
  <2>5. CASE /\ Open(r) /\ attempts'[r].status = "verifying"
             /\ attempts'[r].body = attempts[r].body
    BY <1>4, <2>3, <2>5 DEF RowHolds, Open, Exists, Live
  <2>6. CASE Live(r) /\ attempts'[r].status = "rejected" /\ Doomed(attempts[r].req)'
    <3>1. Doomed(q)'
      BY <2>2, <2>6
    <3>2. QED BY <1>4, <2>2, <2>3, <2>6, <3>1 DEF RowHolds, Open, OpenStates, Live, LiveKinds
  <2>7. CASE attempts'[r].status = "ranked"
    BY <2>3, <2>7 DEF RowHolds, Open, OpenStates
  <2>8. CASE /\ attempts[r].kind = "per_miner_shadow" /\ attempts'[r].status = "rejected"
             /\ attempts[r].req \notin Good
    BY <1>4, <2>3, <2>8 DEF RowHolds, Open, OpenStates, Live, LiveKinds
  <2>9. QED BY <1>4, <2>4, <2>5, <2>6, <2>7, <2>8 DEF Fate
<1>5. QED BY <1>1, <1>2, <1>3, <1>4 DEF Fate

\* The feed and the receipts keep agreeing.
LEMMA FeedKept ==
    ASSUME TypeOK, TypeOK', QueueHolds, \A r \in Receipts : Fate(r), FeedFate
    PROVE  (OnlyVerifiedPaid /\ ReceiptMatchesLedger /\ ShadowNeverPays)'
<1>1. OnlyVerifiedPaid'
  BY DEF FeedFate, QueueHolds, OnlyVerifiedPaid
<1>2. feed \subseteq feed'
  BY DEF FeedFate
<1>3. ASSUME NEW p \in feed
      PROVE  ~Open(p.id)' /\ (Exists(p.id)' => attempts'[p.id].kind # "per_miner_shadow")
  <2>1. p.id \in Receipts
    BY DEF TypeOK
  <2>2. ~Open(p.id) /\ (Exists(p.id) => attempts[p.id].kind # "per_miner_shadow")
    BY DEF QueueHolds, ReceiptMatchesLedger, ShadowNeverPays
  <2>3. ~Fresh(p.id) /\ Fate(p.id)
    BY <2>1 DEF Fresh
  <2>4. CASE attempts'[p.id] = attempts[p.id]
    BY <2>2, <2>4 DEF Open, Exists
  <2>5. CASE attempts'[p.id] = Deleted
    BY <2>5 DEF Open, Exists, Deleted, Kinds, LiveKinds
  <2>6. CASE Exists(p.id) /\ attempts'[p.id] # attempts[p.id] /\ attempts'[p.id] # Deleted
    BY <2>2, <2>3, <2>6 DEF Fate, Open, OpenStates
  <2>7. QED BY <2>3, <2>4, <2>5, <2>6 DEF Fate
<1>4. ShadowNeverPays' /\ \A p \in feed' : ~Open(p.id)'
  BY <1>3 DEF FeedFate, ShadowNeverPays
<1>5. ASSUME NEW r \in Receipts, Exists(r)', attempts'[r].kind # "per_miner_shadow",
             attempts'[r].status = "ranked"
      PROVE  \E p \in feed' : p.id = r
  <2>1. Exists(r) /\ attempts[r].kind # "per_miner_shadow" /\ attempts[r].status = "ranked"
          => \E p \in feed' : p.id = r
    BY <1>2 DEF QueueHolds, ReceiptMatchesLedger
  <2>2. attempts'[r] # Deleted
    BY <1>5 DEF Exists, Deleted, Kinds, LiveKinds
  <2>3. QED BY <1>5, <2>1, <2>2 DEF Fate, Exists
<1>6. ASSUME NEW r \in Receipts, Open(r)' PROVE attempts'[r].body
  <2>1. Open(r) => attempts[r].body
    BY DEF QueueHolds, ReceiptMatchesLedger
  <2>2. attempts'[r] # Deleted /\ attempts'[r].status \in OpenStates
    BY <1>6 DEF Open, Exists, Deleted, Kinds, LiveKinds
  <2>3. CASE attempts'[r] = attempts[r]
    BY <1>6, <2>1, <2>3 DEF Open, Exists
  <2>4. CASE attempts'[r] # attempts[r]
    BY <1>6, <2>1, <2>2, <2>4 DEF Fate, OpenStates, TerminalStates, Open
  <2>5. QED BY <2>3, <2>4
<1>7. QED BY <1>1, <1>4, <1>5, <1>6 DEF ReceiptMatchesLedger

\* A twin is only ever made for a pm challenge.
LEMMA TwinsStep ==
    ASSUME TypeOK, TwinsArePm, [Next]_vars
    PROVE  TwinsArePm'
<1>1. handlers' = handlers => TwinsArePm'
  BY DEF TwinsArePm
<1>2. ASSUME NEW h \in Handlers, handlers'[h].pc # "twin",
             \A g \in Handlers \ {h} : handlers'[g] = handlers[g]
      PROVE  TwinsArePm'
  BY <1>2 DEF TwinsArePm
<1>3. ASSUME NEW h \in Handlers, HandlerStep(h) PROVE TwinsArePm'
  <2>1. ASSUME NEW q \in Requests, NEW sync \in BOOLEAN, agents_submit(h, q, sync)
        PROVE  TwinsArePm'
    <3>1. /\ handlers'[h].pc = "twin" => q.ch \in PmChallenges
          /\ handlers'[h].req = q
          /\ \A g \in Handlers \ {h} : handlers'[g] = handlers[g]
      BY <2>1 DEF agents_submit, TypeOK
    <3>2. QED BY <3>1, RequestsAssumption DEF TwinsArePm
  <2>2. CASE Reply(h)
    BY <1>2, <2>2 DEF Reply, IdleHandler, TypeOK
  <2>3. ASSUME NEW pc \in {"inline", "note"}, handlers[h].pc # "idle",
               handlers' = [handlers EXCEPT ![h].pc = pc]
        PROVE  TwinsArePm'
    BY <1>2, <2>3, ServingHasRequest DEF TypeOK
  <2>4. CASE admit_pm_shadow(h)
    BY <2>3, <2>4 DEF admit_pm_shadow
  <2>5. CASE inline_accept(h)
    BY <2>2, <2>3, <2>5 DEF inline_accept
  <2>6. QED BY <1>3, <2>1, <2>2, <2>4, <2>5
            DEF HandlerStep, admit_pending, inline_reject, record_pm_attempt
<1>4. ASSUME NEW w \in Workers, WorkerStep(w) PROVE handlers' = handlers
  BY <1>4 DEF WorkerStep, claim_pending, finalize_verify, accept_precheck, accept_async,
              mark_rejected, finalize_pm_shadow
<1>5. ASSUME NEW h \in Handlers, DropRequest(h) PROVE TwinsArePm'
  BY <1>2, <1>5 DEF DropRequest, Reply, IdleHandler, TypeOK
<1>6. CASE Environment
  BY <1>1, <1>5, <1>6 DEF Environment, AbandonTick, poll_empty, vars, retire,
                          delete_attempt, delete_solve, Redeploy, Tick
<1>7. CASE UNCHANGED vars
  BY <1>1, <1>7 DEF vars
<1>8. QED BY <1>1, <1>3, <1>4, <1>6, <1>7 DEF Next

LEMMA QueueInit == Init => QueueHolds
  BY DEF Init, QueueHolds, TwinsArePm, RowHolds, WorkerHolds, OnlyVerifiedPaid,
         ReceiptMatchesLedger, ShadowNeverPays, Exists, Open, NoRow, IdleHandler,
         IdleWorker, Kinds, LiveKinds, Busy

LEMMA QueueStep == TypeInv /\ QueueHolds /\ [Next]_vars => QueueHolds'
<1> SUFFICES ASSUME TypeInv, QueueHolds, [Next]_vars PROVE QueueHolds'
  OBVIOUS
<1>1. TypeOK /\ TypeOK'
  BY TypeStep DEF TypeInv
<1>2. LedgerStep
  BY <1>1, EveryStepIsALedgerStep
<1>3. (\A r \in Receipts : Fate(r)) /\ FeedFate
  BY <1>1, <1>2, EveryStepHasFates
<1>4. TwinsArePm'
  BY <1>1, TwinsStep DEF QueueHolds
<1>5. \A r \in Receipts : RowHolds(r)'
  BY <1>1, <1>2, <1>3, RowKept DEF QueueHolds
<1>6. \A w \in Workers : WorkerHolds(w)'
  BY <1>1, <1>2, <1>3, WorkersStep
<1>7. (OnlyVerifiedPaid /\ ReceiptMatchesLedger /\ ShadowNeverPays)'
  BY <1>1, <1>3, FeedKept
<1>8. QED BY <1>4, <1>5, <1>6, <1>7 DEF QueueHolds

\* Whatever crashes, is reclaimed or is deleted by retention: only a request
\* that satisfied its CNF is ever paid.
THEOREM VerifiedPaid == Spec => []OnlyVerifiedPaid
<1>1. QueueHolds => OnlyVerifiedPaid
  BY DEF QueueHolds
<1>2. QED BY TypeInit, TypeStep, QueueInit, QueueStep, <1>1, PTL DEF Spec

\* Under retention too, a 'ranked' live receipt has its feed rows, a paid receipt
\* is closed, and an open one has the body its next worker needs.
THEOREM ReceiptsAgree == Spec => []ReceiptMatchesLedger
<1>1. QueueHolds => ReceiptMatchesLedger
  BY DEF QueueHolds
<1>2. QED BY TypeInit, TypeStep, QueueInit, QueueStep, <1>1, PTL DEF Spec

\* In winner-take-all mode a paid public challenge is no longer active.
WinnerLocks ==
    LockWins => \A p \in feed : p.req.ch \in PublicChallenges => chal[p.req.ch] # "active"

LEMMA WinnerStep ==
    ASSUME TypeOK, LedgerStep, WinnerLocks, SingleWinner
    PROVE  WinnerLocks' /\ SingleWinner'
<1>1. CASE LedgerSame
  BY <1>1 DEF LedgerSame, WinnerLocks, SingleWinner
<1>2. ASSUME NEW q \in Requests, Burns(q) PROVE WinnerLocks' /\ SingleWinner'
  BY <1>2 DEF Burns, WinnerLocks, SingleWinner
<1>3. ASSUME NEW ch \in Challenges, Closes(ch) PROVE WinnerLocks' /\ SingleWinner'
  BY <1>3 DEF Closes, WinnerLocks, SingleWinner, TypeOK
<1>4. ASSUME NEW q \in Requests, NEW id \in Receipts, AcceptTxn(q, id)
      PROVE  WinnerLocks' /\ SingleWinner'
  <2>1. CASE AcceptVerdict(q) # "ok"
    BY <1>4, <2>1 DEF AcceptTxn, WinnerLocks, SingleWinner
  <2>2. CASE AcceptVerdict(q) = "ok" /\ LockWins
    <3> DEFINE new == [id |-> id, req |-> q, rank |->
                          IF q.ch \in PmChallenges THEN 1 ELSE claim_solve(q)]
    <3>1. feed' = feed \cup {new} /\ new.req = q
      BY <1>4, <2>2 DEF AcceptTxn
    <3> HIDE DEF new
    <3>2. q.ch \in PublicChallenges => chal[q.ch] = "active" /\ chal'[q.ch] = "locked"
      BY <1>4, <2>2, PayingVerdict DEF AcceptTxn, TypeOK, Challenges
    <3>3. \A ch \in Challenges : chal[ch] # "active" => chal'[ch] # "active"
      BY <1>4, <2>2 DEF AcceptTxn, TypeOK
    <3>4. WinnerLocks'
      BY <3>1, <3>2, <3>3 DEF WinnerLocks, Challenges
    <3>5. SingleWinner'
      BY <2>2, <3>1, <3>2 DEF WinnerLocks, SingleWinner
    <3>6. QED BY <3>4, <3>5
  <2>3. CASE ~LockWins
    BY <2>3 DEF WinnerLocks, SingleWinner
  <2>4. QED BY <2>1, <2>2, <2>3
<1>5. QED BY <1>1, <1>2, <1>3, <1>4 DEF LedgerStep

\* Whichever way the deploy flags move while receipts are in flight, a shadow twin
\* never pays, and a winner-take-all challenge has one winner.
THEOREM LanesRight == Spec => []LanesPayRight
<1>1. Init => WinnerLocks /\ SingleWinner
  BY DEF Init, WinnerLocks, SingleWinner
<1>2. TypeInv /\ WinnerLocks /\ SingleWinner /\ [Next]_vars => WinnerLocks' /\ SingleWinner'
  BY EveryStepIsALedgerStep, WinnerStep DEF TypeInv
<1>3. QueueHolds /\ SingleWinner => LanesPayRight
  BY DEF QueueHolds, LanesPayRight
<1>4. QED BY TypeInit, TypeStep, QueueInit, QueueStep, <1>1, <1>2, <1>3, PTL DEF Spec

\* A rejected receipt stays rejected and a terminal one never reopens, although
\* workers whose lease ran out still write to it by id alone.
THEOREM TerminalReceipts == Spec => RejectedIsFinal
<1>1. TypeInv /\ QueueHolds /\ [Next]_vars =>
        [\A r \in Receipts :
          Exists(r) /\ Exists(r)' =>
            /\ attempts[r].status = "rejected" => attempts'[r].status = "rejected"
            /\ attempts[r].status \in TerminalStates =>
                  attempts'[r].status \in TerminalStates]_vars
  <2> SUFFICES ASSUME TypeInv, QueueHolds, [Next]_vars,
                      NEW r \in Receipts, Exists(r), Exists(r)'
               PROVE  /\ attempts[r].status = "rejected" => attempts'[r].status = "rejected"
                      /\ attempts[r].status \in TerminalStates =>
                            attempts'[r].status \in TerminalStates
    OBVIOUS
  <2>1. TypeOK /\ LedgerStep
    BY EveryStepIsALedgerStep DEF TypeInv
  <2>2. Fate(r)
    BY <2>1, EveryStepHasFates
  <2>3. attempts'[r] # Deleted /\ ~Fresh(r)
    BY DEF Exists, Fresh, NoRow, Deleted, Kinds, LiveKinds
  <2>4. attempts[r].kind = "per_miner_shadow" /\ attempts[r].status = "rejected"
          => attempts[r].req \notin Good
    BY DEF QueueHolds, RowHolds
  <2>5. QED BY <2>2, <2>3, <2>4 DEF Fate, Open, OpenStates, TerminalStates
<1>2. QED BY TypeInit, TypeStep, QueueInit, QueueStep, <1>1, PTL DEF Spec, RejectedIsFinal

\* Only the admission itself takes a queued submit out of its handler, short of a
\* failure.
LEMMA OnlyAdmissionEndsAdmit ==
    ASSUME TypeOK, [Next]_vars, NEW h \in Handlers, handlers[h].pc = "admit",
           handlers'[h] = IdleHandler, fails' = fails
    PROVE  admit_pending(h)
<1>1. handlers[h] # IdleHandler
  BY DEF IdleHandler
<1>2. ASSUME NEW g \in Handlers, HandlerStep(g) PROVE admit_pending(h)
  <2>1. ASSUME NEW q \in Requests, NEW sync \in BOOLEAN, agents_submit(g, q, sync)
        PROVE  FALSE
    BY <1>1, <2>1 DEF agents_submit, TypeOK
  <2>2. CASE g # h
    BY <1>1, <1>2, <2>1, <2>2
    DEF HandlerStep, admit_pending, admit_pm_shadow, inline_reject, inline_accept,
        record_pm_attempt, Reply, TypeOK
  <2>3. CASE g = h
    BY <1>2, <2>1, <2>3
    DEF HandlerStep, admit_pm_shadow, inline_reject, inline_accept, record_pm_attempt
  <2>4. QED BY <2>2, <2>3
<1>3. ASSUME NEW w \in Workers, WorkerStep(w) PROVE FALSE
  BY <1>1, <1>3 DEF WorkerStep, claim_pending, finalize_verify, accept_precheck,
                    accept_async, mark_rejected, finalize_pm_shadow
<1>4. ASSUME NEW g \in Handlers, DropRequest(g) PROVE FALSE
  BY <1>4, BoundsAssumption DEF DropRequest, TypeOK
<1>5. CASE Environment
  BY <1>1, <1>4, <1>5 DEF Environment, AbandonTick, poll_empty, vars, retire,
                          delete_attempt, delete_solve, Redeploy, Tick
<1>6. CASE UNCHANGED vars
  BY <1>1, <1>6 DEF vars
<1>7. QED BY <1>2, <1>3, <1>5, <1>6 DEF Next

\* A queued submit that is answered leaves a live receipt for its body: the shadow
\* twin of an earlier deployment never stands in for it.
THEOREM AdmitLeavesReceipt == Spec => AdmitLeavesLiveReceipt
<1>1. TypeInv /\ [Next]_vars =>
        [\A h \in Handlers :
          handlers[h].pc = "admit" /\ handlers'[h] = IdleHandler /\ fails' = fails
            => \E r \in Receipts :
                  /\ attempts'[r].kind \in LiveKinds
                  /\ idempotency_key(attempts'[r].req)
                        = idempotency_key(handlers[h].req)]_vars
  <2> SUFFICES ASSUME TypeInv, [Next]_vars, NEW h \in Handlers, handlers[h].pc = "admit",
                      handlers'[h] = IdleHandler, fails' = fails
               PROVE  \E r \in Receipts :
                         /\ attempts'[r].kind \in LiveKinds
                         /\ idempotency_key(attempts'[r].req)
                               = idempotency_key(handlers[h].req)
    OBVIOUS
  <2>1. TypeOK /\ admit_pending(h)
    BY OnlyAdmissionEndsAdmit DEF TypeInv
  <2> DEFINE q == handlers[h].req
  <2>2. CASE fetch_by_idem(q) # {} /\ attempts' = attempts
    BY <2>2 DEF fetch_by_idem, Live
  <2>3. ASSUME NEW r \in Receipts,
               attempts' = [attempts EXCEPT ![r] =
                   NewRow(challenge_kind(q.ch), q, "pending", TRUE, handlers[h].seq)]
        PROVE  attempts'[r].kind \in LiveKinds /\ attempts'[r].req = q
    <3>1. attempts'[r] = NewRow(challenge_kind(q.ch), q, "pending", TRUE, handlers[h].seq)
      BY <2>1, <2>3 DEF TypeOK
    <3>2. QED BY <3>1 DEF NewRow, challenge_kind, LiveKinds
  <2>4. QED BY <2>1, <2>2, <2>3 DEF admit_pending
<1>2. QED BY TypeInit, TypeStep, <1>1, PTL DEF Spec, AdmitLeavesLiveReceipt

-----------------------------------------------------------------------------
(* The ranks: with retention off, the solves are the paid pairs, each once,  *)
(* so a claim's rank counts the payments before it.                          *)

Payees(ch) == {p \in feed : p.req.ch = ch}
Solvers(ch) == {s \in solves : s.ch = ch}

SolvesUnique == \A s, t \in solves : s.ch = t.ch /\ s.hk = t.hk => s = t

SolvesArePaid == \A s \in solves : \E p \in feed : p.req.ch = s.ch /\ p.req.hk = s.hk

RankCount ==
    \A ch \in Challenges :
        IsFiniteSet(Payees(ch)) /\ Cardinality(Payees(ch)) = Cardinality(Solvers(ch))

RankInv == SolvesUnique /\ SolvesArePaid /\ RankCount /\ RanksDistinct

aged(s) == [s EXCEPT !.age = Age(@)]

\* What a step may do to the solves and the feed while retention is off.
SolvesFate ==
    \/ solves' = solves /\ feed' = feed
    \/ solves' = {aged(s) : s \in solves} /\ feed' = feed
    \/ \E q \in Requests, id \in Receipts : AcceptTxn(q, id)

LEMMA EveryStepHasSolvesFate ==
    ASSUME TypeOK, ~RetentionOn, [Next]_vars
    PROVE  SolvesFate
<1>1. ASSUME NEW h \in Handlers, HandlerStep(h) PROVE SolvesFate
  <2>1. CASE inline_accept(h)
    <3>1. handlers[h].req \in Requests
      BY <2>1, ServingHasRequest DEF inline_accept
    <3>2. \E r \in Receipts : AcceptTxn(handlers[h].req, r)
      BY <2>1 DEF inline_accept
    <3>3. QED BY <3>1, <3>2 DEF SolvesFate
  <2>2. QED BY <1>1, <2>1 DEF HandlerStep, agents_submit, admit_pending, admit_pm_shadow,
                              inline_reject, record_pm_attempt, SolvesFate
<1>2. ASSUME NEW w \in Workers, WorkerStep(w) PROVE SolvesFate
  <2>1. CASE accept_async(w)
    <3>1. workers[w].cur \in Copies
      BY <2>1, CurIsCopy DEF accept_async
    <3>2. workers[w].cur.req \in Requests /\ workers[w].cur.id \in Receipts
      BY <3>1 DEF Copies
    <3>3. QED BY <2>1, <3>2 DEF accept_async, SolvesFate
  <2>2. QED BY <1>2, <2>1 DEF WorkerStep, claim_pending, finalize_verify, accept_precheck,
                              mark_rejected, finalize_pm_shadow, SolvesFate
<1>3. CASE Tick
  BY <1>3 DEF Tick, SolvesFate, aged
<1>4. CASE Environment
  BY <1>3, <1>4 DEF Environment, DropRequest, AbandonTick, poll_empty, vars, retire,
                    delete_attempt, delete_solve, Redeploy, SolvesFate
<1>5. CASE UNCHANGED vars
  BY <1>5 DEF vars, SolvesFate
<1>6. QED BY <1>1, <1>2, <1>4, <1>5 DEF Next

\* Growing older moves no solve to another challenge and merges no two of them.
LEMMA AgingKeepsSolvers ==
    ASSUME TypeInv, SolvesUnique, solves' = {aged(s) : s \in solves}
    PROVE  /\ SolvesUnique'
           /\ \A s \in solves' : \E t \in solves : t.ch = s.ch /\ t.hk = s.hk
           /\ \A ch : Cardinality(Solvers(ch)') = Cardinality(Solvers(ch))
<1>1. \A s \in solves : aged(s).ch = s.ch /\ aged(s).hk = s.hk
  BY DEF aged, TypeInv, TypeOK
<1>2. \A s, t \in solves : aged(s).ch = aged(t).ch /\ aged(s).hk = aged(t).hk => s = t
  BY <1>1 DEF SolvesUnique
<1>3. SolvesUnique'
  BY <1>2 DEF SolvesUnique
<1>4. \A s \in solves' : \E t \in solves : t.ch = s.ch /\ t.hk = s.hk
  BY <1>1
<1>5. ASSUME NEW ch PROVE Cardinality(Solvers(ch)') = Cardinality(Solvers(ch))
  <2> DEFINE f == [s \in Solvers(ch) |-> aged(s)]
  <2>1. IsFiniteSet(Solvers(ch))
    BY FS_Subset DEF TypeInv, LedgerFinite, Solvers
  <2>2. \A s \in Solvers(ch) : aged(s) \in Solvers(ch)'
    BY <1>1 DEF Solvers
  <2>3. \A u \in Solvers(ch)' : \E s \in Solvers(ch) : aged(s) = u
    BY <1>1 DEF Solvers
  <2>4. \A s, t \in Solvers(ch) : aged(s) = aged(t) => s = t
    BY <1>2 DEF Solvers
  <2>5. f \in Bijection(Solvers(ch), Solvers(ch)')
    <3> DEFINE S == Solvers(ch)
               T == Solvers(ch)'
    <3>1. \A s \in S : aged(s) \in T
      BY <2>2
    <3>2. \A u \in T : \E s \in S : aged(s) = u
      BY <2>3
    <3>3. \A s, t \in S : aged(s) = aged(t) => s = t
      BY <2>4
    <3> HIDE DEF S, T
    <3>4. f \in [S -> T]
      BY <3>1 DEF S
    <3>5. f \in Injection(S, T)
      BY <3>3, <3>4 DEF Injection, IsInjective, S
    <3>6. f \in Surjection(S, T)
      BY <3>2, <3>4 DEF Surjection, S
    <3>7. QED BY <3>5, <3>6 DEF Bijection, S, T
  <2>6. ExistsBijection(Solvers(ch), Solvers(ch)')
    BY <2>5 DEF ExistsBijection
  <2>7. QED BY <2>1, <2>6, FS_Bijection
<1>6. QED BY <1>3, <1>4, <1>5

\* A paying accept adds one payee and one solver to its challenge, with the next
\* rank.
LEMMA PayingAccept ==
    ASSUME TypeInv, LedgerInv, RankInv, NEW q \in Requests, NEW id \in Receipts,
           AcceptTxn(q, id), AcceptVerdict(q) = "ok"
    PROVE  RankInv'
<1> DEFINE new == [id |-> id, req |-> q, rank |->
                      IF q.ch \in PmChallenges THEN 1 ELSE claim_solve(q)]
           solve == [ch |-> q.ch, hk |-> q.hk, age |-> 0]
<1>1. q.ch \in Challenges /\ q.hk \in Hotkeys
  BY RequestsAssumption DEF RequestShape
<1>2. ~Solved(q.ch, q.hk)
  <2>1. Solved(q.ch, q.hk) => \E p \in feed : p.req.ch = q.ch /\ p.req.hk = q.hk
    BY DEF Solved, RankInv, SolvesArePaid
  <2>2. CASE LockWins /\ q.ch \in PublicChallenges
    <3>1. chal[q.ch] = "active"
      BY <2>2, PayingVerdict
    <3>2. \A p \in feed : p.req.ch # q.ch
      BY <2>2, <3>1 DEF LedgerInv, PaidLeavesTrace
    <3>3. QED BY <2>1, <3>2
  <2>3. QED BY <2>2, PayingVerdict
<1>3. feed' = feed \cup {new} /\ new.req = q
  BY DEF AcceptTxn
<1>4. solves' = solves \cup {solve} /\ solve.ch = q.ch /\ solve.hk = q.hk
  BY <1>2 DEF AcceptTxn, WithSolve
<1>5. q.ch \in PublicChallenges => new.rank = Cardinality(Solvers(q.ch)) + 1
  BY <1>2, RequestsAssumption DEF claim_solve, SolveCount, Solvers
<1> HIDE DEF new, solve
<1>6. new \notin feed /\ solve \notin solves
  <2>1. new \notin feed
    BY <1>2, <1>3 DEF LedgerInv, PaidLeavesTrace
  <2>2. QED BY <1>2, <1>4, <2>1 DEF Solved
<1>7. SolvesUnique'
  BY <1>2, <1>4 DEF RankInv, SolvesUnique, Solved
<1>8. SolvesArePaid'
  BY <1>3, <1>4 DEF RankInv, SolvesArePaid
<1>9. ASSUME NEW ch \in Challenges, ch # q.ch
      PROVE  Payees(ch)' = Payees(ch) /\ Solvers(ch)' = Solvers(ch)
  BY <1>3, <1>4, <1>9 DEF Payees, Solvers
<1>10. /\ Payees(q.ch)' = Payees(q.ch) \cup {new}
       /\ Solvers(q.ch)' = Solvers(q.ch) \cup {solve}
       /\ new \notin Payees(q.ch) /\ solve \notin Solvers(q.ch)
  BY <1>3, <1>4, <1>6 DEF Payees, Solvers
<1>11. IsFiniteSet(Payees(q.ch)) /\ IsFiniteSet(Solvers(q.ch))
       /\ Cardinality(Payees(q.ch)) = Cardinality(Solvers(q.ch))
  <2>1. IsFiniteSet(Solvers(q.ch))
    BY FS_Subset DEF TypeInv, LedgerFinite, Solvers
  <2>2. QED BY <1>1, <2>1 DEF RankInv, RankCount
<1>12. /\ IsFiniteSet(Payees(q.ch)')
       /\ Cardinality(Payees(q.ch)') = Cardinality(Payees(q.ch)) + 1
       /\ Cardinality(Solvers(q.ch)') = Cardinality(Payees(q.ch)) + 1
  BY <1>10, <1>11, FS_AddElement, ZenonT(30)
<1>13. RankCount'
  BY <1>9, <1>12 DEF RankInv, RankCount
<1>14. RanksDistinct'
  <2> SUFFICES ASSUME NEW ch \in PublicChallenges
               PROVE  {p.rank : p \in Payees(ch)'} = 1..Cardinality(Payees(ch)')
    BY DEF RanksDistinct, Payees
  <2>1. {p.rank : p \in Payees(ch)} = 1..Cardinality(Payees(ch))
    BY DEF RankInv, RanksDistinct, Payees
  <2>2. CASE ch # q.ch
    BY <1>9, <2>1, <2>2 DEF Challenges
  <2>3. CASE ch = q.ch
    <3> DEFINE n == Cardinality(Payees(ch))
    <3>1. n \in Nat /\ Cardinality(Payees(ch)') = n + 1
      BY <1>11, <1>12, <2>3, FS_CardinalityType
    <3>2. new.rank = n + 1
      BY <1>5, <1>11, <2>3
    <3>3. {p.rank : p \in Payees(ch)'} = {p.rank : p \in Payees(ch)} \cup {new.rank}
      BY <1>10, <2>3
    <3> HIDE DEF n
    <3>4. 1..(n + 1) = (1..n) \cup {n + 1}
      BY <3>1
    <3>5. QED BY <2>1, <3>1, <3>2, <3>3, <3>4 DEF n
  <2>4. QED BY <2>2, <2>3
<1>15. QED BY <1>7, <1>8, <1>13, <1>14 DEF RankInv

LEMMA RankStep ==
    ASSUME TypeInv, LedgerInv, RankInv, SolvesFate
    PROVE  RankInv'
<1>1. CASE solves' = solves /\ feed' = feed
  BY <1>1 DEF RankInv, SolvesUnique, SolvesArePaid, RankCount, RanksDistinct, Payees, Solvers
<1>2. CASE solves' = {aged(s) : s \in solves} /\ feed' = feed
  <2>1. /\ SolvesUnique'
        /\ \A s \in solves' : \E t \in solves : t.ch = s.ch /\ t.hk = s.hk
        /\ \A ch : Cardinality(Solvers(ch)') = Cardinality(Solvers(ch))
    BY <1>2, AgingKeepsSolvers DEF RankInv
  <2>2. SolvesArePaid'
    BY <1>2, <2>1 DEF RankInv, SolvesArePaid
  <2>3. RankCount'
    BY <1>2, <2>1 DEF RankInv, RankCount, Payees
  <2>4. RanksDistinct'
    BY <1>2 DEF RankInv, RanksDistinct
  <2>5. QED BY <2>1, <2>2, <2>3, <2>4 DEF RankInv
<1>3. ASSUME NEW q \in Requests, NEW id \in Receipts, AcceptTxn(q, id) PROVE RankInv'
  <2>1. CASE AcceptVerdict(q) = "ok"
    BY <1>3, <2>1, PayingAccept
  <2>2. CASE AcceptVerdict(q) # "ok"
    BY <1>1, <1>3, <2>2 DEF AcceptTxn
  <2>3. QED BY <2>1, <2>2
<1>4. QED BY <1>1, <1>2, <1>3 DEF SolvesFate

\* With retention off: ranks without gaps, nothing unverified paid, and receipts
\* that agree with the ledger, through every interleaving and crash.
THEOREM LedgerAgreement ==
    ASSUME ~RetentionOn
    PROVE  Spec => []LedgerAgrees
<1>1. Init => LedgerInv /\ RankInv
  <2> SUFFICES ASSUME Init PROVE LedgerInv /\ RankInv
    OBVIOUS
  <2>1. LedgerInv
    BY TypeInit DEF Init, LedgerInv, TypeInv, PaidLeavesTrace, NoDoublePay
  <2>2. \A ch : Payees(ch) = {} /\ Solvers(ch) = {}
    BY DEF Init, Payees, Solvers
  <2>3. RankCount
    BY <2>2, FS_EmptySet DEF RankCount
  <2>4. RanksDistinct
    <3>1. \A ch \in PublicChallenges : Payees(ch) = {} /\ {p.rank : p \in Payees(ch)} = {}
      BY <2>2
    <3>2. Cardinality({}) = 0 /\ 1..0 = {}
      BY FS_EmptySet
    <3>3. QED BY <3>1, <3>2 DEF RanksDistinct, Payees
  <2>5. QED BY <2>1, <2>3, <2>4 DEF Init, RankInv, SolvesUnique, SolvesArePaid
<1>2. TypeInv /\ LedgerInv /\ RankInv /\ [Next]_vars => LedgerInv' /\ RankInv'
  <2> SUFFICES ASSUME TypeInv, LedgerInv, RankInv, [Next]_vars PROVE LedgerInv' /\ RankInv'
    OBVIOUS
  <2>1. TypeInv'
    BY TypeStep
  <2>2. LedgerStep /\ SolvesFate
    BY EveryStepIsALedgerStep, EveryStepHasSolvesFate DEF LedgerInv
  <2>3. LedgerInv'
    BY <2>1, <2>2, LedgerInductive DEF TypeInv
  <2>4. QED BY <2>2, <2>3, RankStep
<1>3. QueueHolds /\ RankInv => LedgerAgrees
  BY DEF QueueHolds, RankInv, LedgerAgrees
<1>4. QED
  BY TypeInit, TypeStep, QueueInit, QueueStep, <1>1, <1>2, <1>3, PTL DEF Spec
=============================================================================
