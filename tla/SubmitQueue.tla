----------------------------- MODULE SubmitQueue -----------------------------
(***************************************************************************)
(* The submit path of the publisher: POST /v1/agents/submit (app.py), the  *)
(* durable receipt queue (submit_admission.py) and the verification        *)
(* workers that drain it (verify_worker.py, _async_verify_tick).           *)
(*                                                                         *)
(* A store.write(fn) is one transaction and is one step here; everything   *)
(* the code does between two transactions is a place where another handler *)
(* or worker may run, a lease may expire, or the process may die.          *)
(***************************************************************************)
EXTENDS Integers, FiniteSets

CONSTANTS
    Hotkeys,            \* miner hotkeys
    PublicChallenges,   \* challenges with a lane_challenges row
    PmChallenges,       \* pm-* challenges, regenerated per miner
    Solutions,          \* distinct DIMACS bodies, by sha256
    Stamps,             \* distinct signings of one (hotkey, challenge, body)
    Requests,           \* the signed submits the miners may send
    Good,               \* the requests whose body satisfies the CNF
    Receipts,           \* supply of fresh uuids: receipt ids and sub ids
    Handlers,           \* concurrently served HTTP requests
    Workers,            \* verify-worker processes
    BatchSize,          \* CATHEDRAL_ASYNC_VERIFY_BATCH
    LockSecs,           \* CATHEDRAL_ASYNC_VERIFY_LOCK_SECS, in ticks
    RetainAge,          \* pm_attempt_hours / solve_ledger_hours, in ticks
    RetentionOn,        \* CATHEDRAL_RETENTION_ENABLED
    LockWins,           \* CATHEDRAL_SUBMIT_MODE = lock_wins
    PmModes,            \* values CATHEDRAL_PM_ASYNC_* takes over deploys
    MaxRequests,        \* bound: HTTP requests served in a behaviour
    MaxFails,           \* bound: worker crashes, exceptions, dropped requests
    NONE

Challenges == PublicChallenges \cup PmChallenges

RequestShape ==
    [hk : Hotkeys, ch : Challenges, sol : Solutions, stamp : Stamps]

ASSUME RequestsAssumption ==
    /\ Requests \subseteq RequestShape
    /\ Good \subseteq Requests
    /\ PublicChallenges \cap PmChallenges = {}

ASSUME BoundsAssumption ==
    /\ BatchSize \in Nat \ {0}
    /\ LockSecs \in Nat \ {0}
    /\ RetainAge \in Nat
    /\ MaxRequests \in Nat
    /\ MaxFails \in Nat
    /\ RetentionOn \in BOOLEAN
    /\ LockWins \in BOOLEAN
    /\ PmModes \subseteq {"sync", "shadow", "async"} /\ PmModes # {}
    /\ NONE \notin Receipts \cup Workers

VARIABLES
    chal,       \* lane_challenges.status; a pm challenge is 'retired' once
                \* its epoch is neither the current nor the previous one
    attempts,   \* per_miner_attempts, by id (NoRow where there is none)
    burned,     \* submit_signatures
    solves,     \* lane_challenge_solves and per_miner_solves, PK (ch, hk)
    feed,       \* agent_submissions 'ranked' + the signed eval_runs rows
    handlers,   \* the request each HTTP handler is serving
    workers,    \* the tick each verify worker is in
    pmMode,     \* deployed pm-* flags: inline, inline + shadow twin, queued
    arrivals,   \* requests received so far: the received_at clock
    fails       \* failures injected so far

vars == <<chal, attempts, burned, solves, feed,
          handlers, workers, pmMode, arrivals, fails>>

-----------------------------------------------------------------------------
(* The attempt row: status, lease and durable body.                         *)

OpenStates == {"pending", "verifying"}
TerminalStates == {"ranked", "rejected"}
LiveKinds == {"public", "per_miner"}
Kinds == LiveKinds \cup {"per_miner_shadow", "inline"}

NoRow == [kind |-> "none"]
Deleted == [kind |-> "deleted"]     \* pruned by retention; the uuid is used up

Rows == [kind : Kinds, req : Requests, status : OpenStates \cup TerminalStates,
         body : BOOLEAN, by : Workers \cup {NONE}, lease : 0..LockSecs,
         seq : 0..MaxRequests, age : 0..RetainAge]

Exists(r) == attempts[r].kind \in Kinds
Live(r) == attempts[r].kind \in LiveKinds
Open(r) == Exists(r) /\ attempts[r].status \in OpenStates

\* A uuid no table has used yet.
Fresh(r) == attempts[r] = NoRow /\ \A p \in feed : p.id # r

challenge_kind(ch) == IF ch \in PmChallenges THEN "per_miner" ELSE "public"

\* The hashed key is the triple itself; signings of one body share it.
idempotency_key(q) == <<q.hk, q.ch, q.sol>>

Age(n) == IF n < RetainAge THEN n + 1 ELSE n

NewRow(kind, q, status, body, seq) ==
    [kind |-> kind, req |-> q, status |-> status, body |-> body,
     by |-> NONE, lease |-> 0, seq |-> seq, age |-> 0]

-----------------------------------------------------------------------------
(* The accept transaction, written twice in app.py per lane (inline and      *)
(* worker) with the same statements in the same order.                       *)

Solved(ch, hk) == \E s \in solves : s.ch = ch /\ s.hk = hk

SolveCount(ch) == Cardinality({s \in solves : s.ch = ch})

\* INSERT OR IGNORE into the solve ledger.
WithSolve(q) ==
    IF Solved(q.ch, q.hk) THEN solves
    ELSE solves \cup {[ch |-> q.ch, hk |-> q.hk, age |-> 0]}

\* Mutant: the rank is read before the claim's own insert.
claim_solve_before_insert(q) == IF Solved(q.ch, q.hk) THEN 1 ELSE SolveCount(q.ch)

\* scoring.claim_solve, or 1 where lock_wins ignores a lost claim.
claim_solve(q) == IF Solved(q.ch, q.hk) THEN 1 ELSE SolveCount(q.ch) + 1

\* Mutant: the in-transaction re-check of the challenge status is left out.
PublicVerdict_no_recheck(q) ==
    CASE q \in burned                          -> "replayed_signature"
      [] q \notin burned /\ LockWins           -> "ok"
      [] q \notin burned /\ ~LockWins          ->
            IF Solved(q.ch, q.hk) THEN "already_solved" ELSE "ok"

\* Mutant: a lost distinct-solver claim is paid all the same.
PublicVerdict_no_dedup(q) ==
    CASE q \in burned                          -> "replayed_signature"
      [] q \notin burned /\ LockWins           ->
            IF chal[q.ch] = "active" THEN "ok" ELSE "challenge_already_locked"
      [] q \notin burned /\ ~LockWins          ->
            IF chal[q.ch] # "active" THEN "challenge_not_active" ELSE "ok"

PublicVerdict(q) ==
    CASE q \in burned                          -> "replayed_signature"
      [] q \notin burned /\ LockWins           ->
            IF chal[q.ch] = "active" THEN "ok" ELSE "challenge_already_locked"
      [] q \notin burned /\ ~LockWins          ->
            IF chal[q.ch] # "active" THEN "challenge_not_active"
            ELSE IF Solved(q.ch, q.hk) THEN "already_solved" ELSE "ok"

PmVerdict(q) ==
    CASE q \in burned                          -> "replayed_signature"
      [] q \notin burned /\ Solved(q.ch, q.hk) -> "already_solved"
      [] OTHER                                 -> "ok"

AcceptVerdict(q) ==
    IF q.ch \in PmChallenges THEN PmVerdict(q) ELSE PublicVerdict(q)

\* Mutant: the burn is left to a later cleanup.
AcceptTxn_no_burn(q, id) ==
    /\ UNCHANGED burned
    /\ IF AcceptVerdict(q) = "ok"
       THEN /\ solves' = WithSolve(q)
            /\ feed' = feed \cup {[id |-> id, req |-> q, rank |-> claim_solve(q)]}
            /\ chal' = IF LockWins /\ q.ch \in PublicChallenges
                       THEN [chal EXCEPT ![q.ch] = "locked"] ELSE chal
       ELSE UNCHANGED <<solves, feed, chal>>

\* The early error returns commit too: the signature stays burned.
AcceptTxn(q, id) ==
    /\ burned' = burned \cup {q}
    /\ IF AcceptVerdict(q) = "ok"
       THEN /\ solves' = WithSolve(q)
            /\ feed' = feed \cup {[id |-> id, req |-> q,
                          rank |-> IF q.ch \in PmChallenges
                                   THEN 1 ELSE claim_solve(q)]}
            /\ chal' = IF LockWins /\ q.ch \in PublicChallenges
                       THEN [chal EXCEPT ![q.ch] = "locked"] ELSE chal
       ELSE UNCHANGED <<solves, feed, chal>>

-----------------------------------------------------------------------------
(* The HTTP handler.                                                         *)

IdleHandler == [pc |-> "idle"]

Reply(h) == handlers' = [handlers EXCEPT ![h] = IdleHandler]

\* Everything of agents_submit up to its first write: the public lane reads
\* the challenge row and answers 409 unless it is active; the pm lane answers
\* 410 for an expired epoch and goes by its deploy flags; a client may always force the inline path (submit-mode
\* sync), and the pm lane falls back to it when no worker is ready.
agents_submit(h, q, sync) ==
    /\ handlers[h] = IdleHandler
    /\ arrivals < MaxRequests
    /\ chal[q.ch] = "active"
    /\ LET pm == q.ch \in PmChallenges
           queued == ~sync /\ (pm => pmMode = "async")
           twin == pm /\ pmMode = "shadow"
       IN handlers' = [handlers EXCEPT ![h] =
              [pc |-> IF queued THEN "admit" ELSE IF twin THEN "twin" ELSE "inline",
               req |-> q, seq |-> arrivals + 1]]
    /\ arrivals' = arrivals + 1
    /\ UNCHANGED <<chal, attempts, burned, solves, feed, workers, pmMode, fails>>

\* Mutant: the lookup does not exclude shadow twins and they share the key.
fetch_by_idem_any(q) ==
    {r \in Receipts : /\ Exists(r) /\ attempts[r].kind # "inline"
                      /\ idempotency_key(attempts[r].req) = idempotency_key(q)}

\* The live receipts a replay of q may be answered with: shadow twins are
\* excluded, and inline rows carry no idempotency key.
fetch_by_idem(q) ==
    {r \in Receipts : /\ Exists(r) /\ Live(r)
                      /\ idempotency_key(attempts[r].req) = idempotency_key(q)}

admit_pending(h) ==
    /\ handlers[h].pc = "admit"
    /\ LET q == handlers[h].req
       IN \/ /\ fetch_by_idem(q) # {}
             /\ UNCHANGED attempts
          \/ /\ fetch_by_idem(q) = {}
             /\ \E r \in Receipts :
                   /\ Fresh(r)
                   /\ attempts' = [attempts EXCEPT ![r] =
                         NewRow(challenge_kind(q.ch), q, "pending", TRUE,
                                handlers[h].seq)]
    /\ Reply(h)
    /\ UNCHANGED <<chal, burned, solves, feed, workers, pmMode, arrivals, fails>>

\* The shadow twin, keyed away from the live receipts, before the inline
\* transaction of the same request.
admit_pm_shadow(h) ==
    /\ handlers[h].pc = "twin"
    /\ LET q == handlers[h].req
           twins == {r \in Receipts :
                       /\ Exists(r) /\ attempts[r].kind = "per_miner_shadow"
                       /\ idempotency_key(attempts[r].req) = idempotency_key(q)}
       IN \/ twins # {} /\ UNCHANGED attempts
          \/ /\ twins = {}
             /\ \E r \in Receipts :
                   /\ Fresh(r)
                   /\ attempts' = [attempts EXCEPT ![r] =
                         NewRow("per_miner_shadow", q, "pending", TRUE,
                                handlers[h].seq)]
    /\ handlers' = [handlers EXCEPT ![h].pc = "inline"]
    /\ UNCHANGED <<chal, burned, solves, feed, workers, pmMode, arrivals, fails>>

\* The inline reject: burn and (pm lane) file the attempt, in one transaction;
\* an already burned signature rolls to a 409 with nothing written.
inline_reject(h) ==
    /\ handlers[h].pc = "inline"
    /\ handlers[h].req \notin Good
    /\ LET q == handlers[h].req
       IN /\ burned' = burned \cup {q}
          /\ IF q \in burned \/ q.ch \in PublicChallenges
             THEN UNCHANGED attempts
             ELSE \E r \in Receipts :
                     /\ Fresh(r)
                     /\ attempts' = [attempts EXCEPT ![r] =
                           NewRow("inline", q, "rejected", FALSE, 0)]
    /\ Reply(h)
    /\ UNCHANGED <<chal, solves, feed, workers, pmMode, arrivals, fails>>

\* The inline accept. The pm lane files a 'ranked' attempt in the same
\* transaction, and files 'already_solved' in a transaction of its own.
inline_accept(h) ==
    /\ handlers[h].pc = "inline"
    /\ handlers[h].req \in Good
    /\ LET q == handlers[h].req
           pm == q.ch \in PmChallenges
       IN \E r \in Receipts :
            /\ Fresh(r)
            /\ AcceptTxn(q, r)
            /\ attempts' = IF pm /\ AcceptVerdict(q) = "ok"
                           THEN [attempts EXCEPT ![r] =
                                   NewRow("inline", q, "ranked", FALSE, 0)]
                           ELSE attempts
            /\ IF pm /\ AcceptVerdict(q) = "already_solved"
               THEN handlers' = [handlers EXCEPT ![h].pc = "note"]
               ELSE Reply(h)
    /\ UNCHANGED <<workers, pmMode, arrivals, fails>>

record_pm_attempt(h) ==
    /\ handlers[h].pc = "note"
    /\ \E r \in Receipts :
          /\ Fresh(r)
          /\ attempts' = [attempts EXCEPT ![r] =
                NewRow("inline", handlers[h].req, "rejected", FALSE, 0)]
    /\ Reply(h)
    /\ UNCHANGED <<chal, burned, solves, feed, workers, pmMode, arrivals, fails>>

\* The process serving the request dies between two transactions.
DropRequest(h) ==
    /\ handlers[h] # IdleHandler
    /\ fails < MaxFails
    /\ fails' = fails + 1
    /\ Reply(h)
    /\ UNCHANGED <<chal, attempts, burned, solves, feed, workers, pmMode, arrivals>>

-----------------------------------------------------------------------------
(* The verify worker: one tick claims a batch and finalizes its rows one     *)
(* after the other, on the copy of the row the claim returned.               *)

IdleWorker == [pc |-> "idle", batch |-> {}, cur |-> NONE, ok |-> FALSE]

Copies == [id : Receipts, kind : Kinds, req : Requests, body : BOOLEAN]

CopyOf(r) == [id |-> r, kind |-> attempts[r].kind, req |-> attempts[r].req,
              body |-> attempts[r].body]

\* Mutant: the claim filters on the lease alone.
Claimable_any_status == {r \in Receipts : Exists(r) /\ attempts[r].lease = 0}

\* Mutant: the claim takes pending rows only and never reclaims.
Claimable_no_reclaim ==
    {r \in Receipts : Open(r) /\ attempts[r].status = "pending"}

\* Fresh rows and rows whose lease has run out.
Claimable == {r \in Receipts : Open(r) /\ attempts[r].lease = 0}

\* ORDER BY received_at_iso, id LIMIT batch_size.
OldestBatch(B) ==
    /\ B \subseteq Claimable
    /\ Cardinality(B) <= BatchSize
    /\ B # Claimable => Cardinality(B) = BatchSize
    /\ \A b \in B, c \in Claimable \ B : attempts[b].seq <= attempts[c].seq

\* Mutant: the deadline is added to a lease that already holds one.
claim_pending_long_lease(w) ==
    /\ workers[w] = IdleWorker
    /\ Claimable # {}
    /\ \E B \in SUBSET Claimable :
          /\ OldestBatch(B)
          /\ attempts' = [r \in Receipts |->
                IF r \in B
                THEN [attempts[r] EXCEPT !.status = "verifying", !.by = w,
                                         !.lease = LockSecs + LockSecs]
                ELSE attempts[r]]
          /\ workers' = [workers EXCEPT ![w] =
                [IdleWorker EXCEPT !.pc = "next", !.batch = {CopyOf(r) : r \in B}]]
    /\ UNCHANGED <<chal, burned, solves, feed, handlers, pmMode, arrivals, fails>>

claim_pending(w) ==
    /\ workers[w] = IdleWorker
    /\ Claimable # {}
    /\ \E B \in SUBSET Claimable :
          /\ OldestBatch(B)
          /\ attempts' = [r \in Receipts |->
                IF r \in B
                THEN [attempts[r] EXCEPT !.status = "verifying", !.by = w,
                                         !.lease = LockSecs, !.age = 0]
                ELSE attempts[r]]
          /\ workers' = [workers EXCEPT ![w] =
                [IdleWorker EXCEPT !.pc = "next", !.batch = {CopyOf(r) : r \in B}]]
    /\ UNCHANGED <<chal, burned, solves, feed, handlers, pmMode, arrivals, fails>>

\* The poll of an empty queue.
poll_empty(w) ==
    /\ workers[w] = IdleWorker
    /\ Claimable = {}
    /\ UNCHANGED vars

\* load_cnf and verify_dimacs: a retired challenge's cnf_text is '', against
\* which a body may pass or fail.
VerifyResult(q) ==
    IF q.ch \in PublicChallenges /\ chal[q.ch] = "retired"
    THEN BOOLEAN ELSE {q \in Good}

\* Mutant: the dispatch sends a shadow twin to the per_miner finalizer.
finalize_verify_shadow_live(w) ==
    /\ workers[w].pc = "next"
    /\ \E c \in workers[w].batch :
       \E ok \in IF c.body THEN VerifyResult(c.req) ELSE {FALSE} :
          workers' = [workers EXCEPT ![w] =
             [pc |-> CASE c.kind = "public" /\ ok -> "precheck"
                       [] c.kind # "public" /\ ok -> "accept"
                       [] OTHER                   -> "reject",
              batch |-> workers[w].batch \ {c}, cur |-> c, ok |-> ok]]
    /\ UNCHANGED <<chal, attempts, burned, solves, feed,
                   handlers, pmMode, arrivals, fails>>

\* Mutant: a body that is present is passed on whatever verify_dimacs says.
finalize_verify_trusts_body(w) ==
    /\ workers[w].pc = "next"
    /\ \E c \in workers[w].batch :
          workers' = [workers EXCEPT ![w] =
             [pc |-> CASE c.kind = "per_miner_shadow"    -> "shadow"
                       [] c.kind = "public" /\ c.body    -> "precheck"
                       [] c.kind = "per_miner" /\ c.body -> "accept"
                       [] OTHER                          -> "reject",
              batch |-> workers[w].batch \ {c}, cur |-> c, ok |-> c.body]]
    /\ UNCHANGED <<chal, attempts, burned, solves, feed,
                   handlers, pmMode, arrivals, fails>>

\* finalize_attempt / finalize_pm_attempt / finalize_pm_shadow up to their
\* first write (public: up to the status query of accept_public).
finalize_verify(w) ==
    /\ workers[w].pc = "next"
    /\ \E c \in workers[w].batch :
       \E ok \in IF c.body THEN VerifyResult(c.req) ELSE {FALSE} :
          workers' = [workers EXCEPT ![w] =
             [pc |-> CASE c.kind = "per_miner_shadow" -> "shadow"
                       [] c.kind = "public" /\ ok     -> "precheck"
                       [] c.kind = "per_miner" /\ ok  -> "accept"
                       [] OTHER                       -> "reject",
              batch |-> workers[w].batch \ {c}, cur |-> c, ok |-> ok]]
    /\ UNCHANGED <<chal, attempts, burned, solves, feed,
                   handlers, pmMode, arrivals, fails>>

\* _accept_public_async reads the challenge status before its transaction.
accept_precheck(w) ==
    /\ workers[w].pc = "precheck"
    /\ workers' = [workers EXCEPT ![w].pc =
          IF chal[workers[w].cur.req.ch] \in {"active", "locked"}
          THEN "accept" ELSE "reject"]
    /\ UNCHANGED <<chal, attempts, burned, solves, feed,
                   handlers, pmMode, arrivals, fails>>

\* On to the next row of the batch, or the end of the tick.
RowDone(w) ==
    workers' = [workers EXCEPT ![w] =
       IF workers[w].batch = {} THEN IdleWorker
       ELSE [IdleWorker EXCEPT !.pc = "next", !.batch = workers[w].batch]]

\* UPDATE per_miner_attempts ... WHERE id=?: no row, no effect.
SetRow(r, row) ==
    attempts' = IF Exists(r) THEN [attempts EXCEPT ![r] = row] ELSE attempts

\* Mutant: the receipt is left for a later transaction to advance.
accept_async_two_txns(w) ==
    /\ workers[w].pc = "accept"
    /\ LET c == workers[w].cur
       IN /\ AcceptTxn(c.req, c.id)
          /\ UNCHANGED attempts
          /\ IF AcceptVerdict(c.req) = "ok" THEN RowDone(w)
             ELSE workers' = [workers EXCEPT ![w].pc = "reject"]
    /\ UNCHANGED <<handlers, pmMode, arrivals, fails>>

accept_async(w) ==
    /\ workers[w].pc = "accept"
    /\ LET c == workers[w].cur
       IN /\ AcceptTxn(c.req, c.id)
          /\ IF AcceptVerdict(c.req) = "ok"
             THEN /\ SetRow(c.id, [attempts[c.id] EXCEPT
                          !.status = "ranked", !.body = FALSE,
                          !.by = NONE, !.lease = 0, !.age = 0])
                  /\ RowDone(w)
             ELSE /\ UNCHANGED attempts
                  /\ workers' = [workers EXCEPT ![w].pc = "reject"]
    /\ UNCHANGED <<handlers, pmMode, arrivals, fails>>

\* _mark_rejected: a transaction of its own, with no test of status or lease.
mark_rejected(w) ==
    /\ workers[w].pc = "reject"
    /\ LET r == workers[w].cur.id
       IN SetRow(r, [attempts[r] EXCEPT !.status = "rejected",
                         !.by = NONE, !.lease = 0, !.age = 0])
    /\ RowDone(w)
    /\ UNCHANGED <<chal, burned, solves, feed, handlers, pmMode, arrivals, fails>>

finalize_pm_shadow(w) ==
    /\ workers[w].pc = "shadow"
    /\ LET r == workers[w].cur.id
       IN SetRow(r, [attempts[r] EXCEPT
                         !.status = IF workers[w].ok THEN "ranked" ELSE "rejected",
                         !.body = FALSE, !.by = NONE, !.lease = 0, !.age = 0])
    /\ RowDone(w)
    /\ UNCHANGED <<chal, burned, solves, feed, handlers, pmMode, arrivals, fails>>

\* An exception out of the tick, or the death of the process: the rest of the
\* batch is left 'verifying' under its lease.
AbandonTick(w) ==
    /\ workers[w] # IdleWorker
    /\ fails < MaxFails
    /\ fails' = fails + 1
    /\ workers' = [workers EXCEPT ![w] = IdleWorker]
    /\ UNCHANGED <<chal, attempts, burned, solves, feed, handlers, pmMode, arrivals>>

-----------------------------------------------------------------------------
(* The rest of the publisher, as far as it touches these tables.             *)

\* refill.retire_ready, by age or by saturation (status retired, cnf_text ''),
\* and the epoch rolling past a pm challenge.
retire(ch) ==
    /\ chal[ch] = "active"
    /\ chal' = [chal EXCEPT ![ch] = "retired"]
    /\ UNCHANGED <<attempts, burned, solves, feed,
                   handlers, workers, pmMode, arrivals, fails>>

\* retention_tick deletes by age alone, whatever the status of the row.
delete_attempt(r) ==
    /\ RetentionOn
    /\ Exists(r) /\ attempts[r].age = RetainAge
    /\ attempts' = [attempts EXCEPT ![r] = Deleted]
    /\ UNCHANGED <<chal, burned, solves, feed,
                   handlers, workers, pmMode, arrivals, fails>>

delete_solve(s) ==
    /\ RetentionOn
    /\ s.age = RetainAge
    /\ solves' = solves \ {s}
    /\ UNCHANGED <<chal, attempts, burned, feed,
                   handlers, workers, pmMode, arrivals, fails>>

\* A redeploy with other pm flags.
Redeploy(m) ==
    /\ m # pmMode
    /\ pmMode' = m
    /\ UNCHANGED <<chal, attempts, burned, solves, feed,
                   handlers, workers, arrivals, fails>>

\* Time passes: leases run down, rows grow old.
Older(row) ==
    IF row.kind \notin Kinds THEN row
    ELSE [row EXCEPT !.lease = IF @ > 0 THEN @ - 1 ELSE 0, !.age = Age(@)]

Tick ==
    /\ attempts' = [r \in Receipts |-> Older(attempts[r])]
    /\ solves' = {[s EXCEPT !.age = Age(@)] : s \in solves}
    /\ <<attempts', solves'>> # <<attempts, solves>>
    /\ UNCHANGED <<chal, burned, feed, handlers, workers, pmMode, arrivals, fails>>

-----------------------------------------------------------------------------
Init ==
    /\ chal = [ch \in Challenges |-> "active"]
    /\ attempts = [r \in Receipts |-> NoRow]
    /\ burned = {}
    /\ solves = {}
    /\ feed = {}
    /\ handlers = [h \in Handlers |-> IdleHandler]
    /\ workers = [w \in Workers |-> IdleWorker]
    /\ pmMode \in PmModes
    /\ arrivals = 0
    /\ fails = 0

HandlerStep(h) ==
    \/ \E q \in Requests, sync \in BOOLEAN : agents_submit(h, q, sync)
    \/ admit_pending(h)
    \/ admit_pm_shadow(h)
    \/ inline_reject(h)
    \/ inline_accept(h)
    \/ record_pm_attempt(h)

WorkerStep(w) ==
    \/ claim_pending(w)
    \/ finalize_verify(w)
    \/ accept_precheck(w)
    \/ accept_async(w)
    \/ mark_rejected(w)
    \/ finalize_pm_shadow(w)

Environment ==
    \/ \E h \in Handlers : DropRequest(h)
    \/ \E w \in Workers : AbandonTick(w) \/ poll_empty(w)
    \/ \E ch \in Challenges : retire(ch)
    \/ \E r \in Receipts : delete_attempt(r)
    \/ \E s \in solves : delete_solve(s)
    \/ \E m \in PmModes : Redeploy(m)
    \/ Tick

Next ==
    \/ \E h \in Handlers : HandlerStep(h)
    \/ \E w \in Workers : WorkerStep(w)
    \/ Environment

Spec == Init /\ [][Next]_vars

\* A worker whose loop is running keeps taking steps (verify_loop never
\* leaves its while True), and time passes.
Fairness == WF_vars(Tick) /\ \A w \in Workers : WF_vars(WorkerStep(w))

FairSpec == Spec /\ Fairness
-----------------------------------------------------------------------------
(* Properties.                                                               *)

HandlerStates ==
    {IdleHandler} \cup [pc : {"admit", "twin", "inline", "note"},
                       req : Requests, seq : 1..MaxRequests]

WorkerStates ==
    [pc : {"idle", "next"}, batch : SUBSET Copies, cur : {NONE}, ok : {FALSE}]
      \cup [pc : {"precheck", "accept", "reject", "shadow"},
            batch : SUBSET Copies, cur : Copies, ok : BOOLEAN]

\* The tables and the process states hold values of their columns' types; a
\* worker past its claim works on a copy of a row of its own kind.
TypeOK ==
    /\ chal \in [Challenges -> {"active", "locked", "retired"}]
    /\ attempts \in [Receipts -> Rows \cup {NoRow, Deleted}]
    /\ burned \subseteq Requests
    /\ solves \subseteq [ch : Challenges, hk : Hotkeys, age : 0..RetainAge]
    /\ feed \subseteq [id : Receipts, req : Requests, rank : Nat]
    /\ handlers \in [Handlers -> HandlerStates]
    /\ workers \in [Workers -> WorkerStates]
    /\ pmMode \in PmModes
    /\ arrivals \in 0..MaxRequests
    /\ fails \in 0..MaxFails

\* A (challenge, hotkey) pair is paid at most once, over the inline path, the
\* queue, reclaimed leases and crashed workers together (submit_admission.py
\* "No double payout").
NoDoublePay ==
    \A p, q \in feed :
        p.req.ch = q.req.ch /\ p.req.hk = q.req.hk => p = q

\* One signature pays at most once and only after it is burned, retention or
\* not: submit_signatures is never pruned.
SignaturePaysOnce ==
    /\ \A p \in feed : p.req \in burned
    /\ \A p, q \in feed : p.req = q.req => p = q

\* In winner-take-all mode a challenge has one winner, although a lost
\* claim_solve does not stop the payout there ("claim_solve(...) or 1").
SingleWinner ==
    LockWins => \A p, q \in feed :
        p.req.ch = q.req.ch /\ p.req.ch \in PublicChallenges => p = q

\* First-seen ranks on one challenge are pairwise different and without gaps,
\* whichever mix of handlers and workers assigned them (claim_solve counts
\* the ledger after its own insert).
RanksDistinct ==
    \A ch \in PublicChallenges :
        LET paid == {p \in feed : p.req.ch = ch}
        IN {p.rank : p \in paid} = 1..Cardinality(paid)

\* Nothing is paid that did not satisfy the challenge's CNF, even though the
\* CNF is loaded, verified and paid for in different transactions and the
\* refill loop blanks cnf_text in between.
OnlyVerifiedPaid == \A p \in feed : p.req \in Good

\* Receipts and ledger agree, whatever died or was reclaimed: a live receipt that
\* says 'ranked' has its signed feed rows, a paid one is closed and so never
\* claimed again, and an open one still has the body its next worker needs (no
\* good solve ends as 'missing_solution_body').
ReceiptMatchesLedger ==
    /\ \A r \in Receipts :
          Exists(r) /\ attempts[r].kind # "per_miner_shadow"
              /\ attempts[r].status = "ranked" => \E p \in feed : p.id = r
    /\ \A p \in feed : ~Open(p.id)
    /\ \A r \in Receipts : Open(r) => attempts[r].body

\* The ledger is sound and the receipts agree with it.
LedgerAgrees == RanksDistinct /\ OnlyVerifiedPaid /\ ReceiptMatchesLedger

\* A shadow twin is verified but never paid (finalize_pm_shadow writes no
\* ledger row).
ShadowNeverPays ==
    \A p \in feed : Exists(p.id) => attempts[p.id].kind # "per_miner_shadow"

\* What the lanes may pay: no shadow twin, and one winner where the lock wins.
LanesPayRight == ShadowNeverPays /\ SingleWinner

\* A rejected receipt stays rejected and a terminal one never reopens,
\* although _mark_rejected and the accept update a row by id alone.
RejectedIsFinal ==
    [][\A r \in Receipts :
          Exists(r) /\ Exists(r)' =>
            /\ attempts[r].status = "rejected" => attempts'[r].status = "rejected"
            /\ attempts[r].status \in TerminalStates =>
                  attempts'[r].status \in TerminalStates]_vars

\* A queued submit that is answered (not dropped) leaves a live receipt for
\* its body, also after a cutover from shadow to live with the twin in the
\* table (shadow_idempotency_key's reason to exist).
AdmitLeavesLiveReceipt ==
    [][\A h \in Handlers :
          handlers[h].pc = "admit" /\ handlers'[h] = IdleHandler /\ fails' = fails
            => \E r \in Receipts :
                  /\ attempts'[r].kind \in LiveKinds
                  /\ idempotency_key(attempts'[r].req)
                        = idempotency_key(handlers[h].req)]_vars

\* Every receipt that was handed out reaches a terminal state (or is aged out
\* by retention): crashed ticks are reclaimed when their lease runs out.
EveryReceiptResolved == \A r \in Receipts : Open(r) ~> ~Open(r)

Ledger == INSTANCE PayoutLedger
    WITH spent <- burned,
         paid <- {<<p.req.ch, p.req.hk>> : p \in feed},
         open <- {ch \in Challenges : chal[ch] = "active"}

\* Handlers, workers, reclaims and crashes together implement the ledger that
\* spends a signature once, pays a pair once, and pays a public challenge only
\* while it is open.
ImplementsLedger == Ledger!Spec

\* The receipt of a paid solve says so: a poll of /v1/agents/receipts sees the
\* status advance from pending to its one terminal value (app.py docstring of
\* agents_receipt).
PaidReceiptSaysRanked ==
    \A p \in feed : Exists(p.id) => attempts[p.id].status = "ranked"
=============================================================================
