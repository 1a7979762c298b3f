------------------------ MODULE ValidatorSubmission ------------------------
(***************************************************************************)
(* How a validator process puts one weight vector on chain at most once    *)
(* (scaffold/validator_thin.py). Several processes of one host (relay,     *)
(* one-shot launch, FULL authority) share a lock, a durable journal and a  *)
(* lane state file; each can die between any two durable writes, the chain *)
(* may include, drop or fail what was broadcast, and the RPC node may      *)
(* refuse to say which.                                                    *)
(*                                                                         *)
(* Data kept: an attempt id stands for the digest of the whole dedup       *)
(* identity, whose only parts that matter are its lane, its policy version *)
(* (thin) or source epoch (authority), the end of its inclusion window and *)
(* the authorizations it carries. Weights, UIDs and hotkeys are left out.  *)
(***************************************************************************)
EXTENDS Integers, FiniteSets, Sequences

CONSTANTS Procs,             \* validator processes of the host
          Mode,              \* Procs -> Modes
          MaxSubmissions,    \* Procs -> Nat: --max-submissions, 0 is no bound
          Auths,             \* recurring-write authorization artifacts
          AuthLanes,         \* Auths -> SUBSET Lanes
          AuthFrom,          \* Auths -> Nat: valid_from_nonce
          AuthMax,           \* Auths -> Nat: max_attempts
          RequireCompletedLaunch, \* the runtime's completed-launch flag
          MortalPeriod,      \* SN39_MORTAL_PERIOD_BLOCKS
          Windows,           \* lengths of inclusion windows, in blocks
          MaxVersion,        \* bound: policy versions and source epochs
          MaxHead,           \* bound: finalized blocks
          MaxCrashes,        \* bound: process deaths
          DispatchFails,     \* may an included call fail?
          NONE

Lanes == {"thin", "authority"}
Modes == {"relay", "launch", "authority"}
Versions == 0..MaxVersion

ASSUME ConstantsOK ==
    /\ NONE \notin Procs /\ NONE \notin Auths
    /\ Mode \in [Procs -> Modes]
    /\ MaxSubmissions \in [Procs -> Nat]
    /\ AuthLanes \in [Auths -> SUBSET Lanes]
    /\ AuthFrom \in [Auths -> Nat]
    /\ AuthMax \in [Auths -> Nat \ {0}]
    /\ RequireCompletedLaunch \in BOOLEAN
    /\ DispatchFails \in BOOLEAN
    /\ MortalPeriod \in Nat \ {0}
    /\ Windows \subseteq Nat
    /\ MaxVersion \in Nat /\ MaxHead \in Nat /\ MaxCrashes \in Nat

VARIABLES
    \* the common journal, one file, each write an atomic replace
    pendingId,    \* submission_pending_id
    pending,      \* the other submission_pending_* keys, NONE when popped
    attemptIds,   \* submission_attempt_ids
    budgets,      \* submission_attempt_budgets: scope -> ids
    activeLane,   \* submission_active_lane
    highest,      \* submission_highest_policy_version / _source_epoch, by lane
    finalized,    \* the submission_finalized_* record
    expired,      \* submission_expired_attempts
    launch,       \* submission_launch_attempt_ids and _status
    continuous,   \* submission_continuous_enabled
    \* the lane state file and the operator's approval file
    laneFile,
    approval,
    \* processes
    lock, pc, mine, crashes,
    \* the chain: finalized height, broadcast calls, finalized calls in order
    head, pool, included

journal == <<pendingId, pending, attemptIds, budgets, activeLane, highest,
             finalized, expired, launch, continuous>>
procs == <<lock, pc, mine, crashes>>
chain == <<head, pool, included>>
vars == <<journal, laneFile, approval, procs, chain>>

----------------------------------------------------------------------------
(* Records *)

Scopes == Auths \cup {"launch_full_gate", "thin_bounded", "authority_bounded"}

\* The dedup identity: everything but the mapping block and the UID proof.
AttemptId == [lane : Lanes, ver : Versions, until : Nat,
              auth : Auths \cup {NONE}, launch : BOOLEAN]

\* A signed extrinsic; the journaled broadcast intent names it exactly.
Intent == [id : AttemptId, nonce : Nat, era : Nat]

Phases == {"unsigned_reserved", "signed_intent"}
Proofs == {"none", "pending", "PASS", "FAIL", "NOT_PROVEN"}

PendingRecord ==
    [id : AttemptId, block : Nat, phase : Phases, intent : Intent \cup {NONE},
     receipt : Nat \cup {NONE}, proof : Proofs, scope : Scopes \cup {NONE},
     limit : Nat, from : Lanes \cup {NONE}]

Included == [tx : Intent, block : Nat, ok : BOOLEAN]
FinalRecord == [id : AttemptId, intent : Intent, block : Nat]

LaneFile == [fence : {-1} \cup Versions, source : {-1} \cup Versions,
             thin : AttemptId \cup {NONE}, authority : AttemptId \cup {NONE},
             recovered : AttemptId \cup {NONE}, ids : SUBSET AttemptId]

\* A key that is absent is no value of that key.
ASSUME NoneIsNothing ==
    NONE \notin Lanes \cup AttemptId \cup Intent \cup PendingRecord \cup FinalRecord \cup Nat

PCs == {"down", "contradiction", "recover", "recovering", "found", "idle",
        "ticking", "audited", "reserved", "authorized", "signed", "submitted",
        "receipted", "proved", "finalized"}

\* The locals of a tick or of a recovery: the preflight block, the recurring
\* authorization, the attempt it works on, and whether it is a recovery.
Mine == [block : Nat, auth : Auths \cup {NONE}, id : AttemptId \cup {NONE},
         recovery : BOOLEAN]
NoMine == [block |-> 0, auth |-> NONE, id |-> NONE, recovery |-> FALSE]

NotDown == {q \in Procs : pc[q] \notin {"down", "contradiction"}}

----------------------------------------------------------------------------
(* Processes: locks, exits *)

LaneOf(p) == IF Mode[p] = "authority" THEN "authority" ELSE "thin"

\* _submission_tick_lock: a non-blocking flock, released by close or death.
Acquire(p) == lock = NONE /\ lock' = p
Release(p) == lock' = NONE

\* The tick or the recovery is over and the process goes on ticking.
ToLoop(p) ==
    /\ Release(p)
    /\ pc' = [pc EXCEPT ![p] = "idle"]
    /\ mine' = [mine EXCEPT ![p] = NoMine]
    /\ UNCHANGED crashes

\* run() returns 1: _PendingReceiptNotProven or _PostSignedSubmissionMismatch.
ExitAs(p, why) ==
    /\ Release(p)
    /\ pc' = [pc EXCEPT ![p] = why]
    /\ mine' = [mine EXCEPT ![p] = NoMine]
    /\ UNCHANGED crashes
ExitNotProven(p) == ExitAs(p, "down")
ExitContradiction(p) == ExitAs(p, "contradiction")

Goto(p, to) ==
    /\ pc' = [pc EXCEPT ![p] = to]
    /\ UNCHANGED <<lock, mine, crashes>>

----------------------------------------------------------------------------
(* Who may write: launch lineage and the recurring authorization *)

\* _sn39_launch_lineage: a marker only a launch reservation writes.
Lineage ==
    \/ launch.status # "none"
    \/ launch.ids # {}
    \/ continuous
    \/ pending # NONE /\ pending.id.launch

\* _sn39_launch_obligation and _continuous_transition_required.
continuous_transition_required(p) ==
    \/ Mode[p] \in {"authority", "launch"}
    \/ approval
    \/ Lineage
    \/ RequireCompletedLaunch

\* _require_continuous_launch_transition: the journal's part of it; the signed
\* artifact itself is the choice of an authorization that covers the lane.
require_continuous_launch_transition(p, a) ==
    /\ pendingId = NONE
    /\ continuous
    /\ launch.status = "finalized"
    /\ a \in Auths
    /\ LaneOf(p) \in AuthLanes[a]

\* _authority_lane_transition_authorized.
authority_lane_transition_authorized(id) ==
    /\ id.auth # NONE
    /\ "authority" \in AuthLanes[id.auth]
    /\ launch.status = "finalized"
    /\ launch.ids # {}
    /\ continuous

\* The lane rule of a reservation and of the signed commit: the same lane as
\* before, or the one-way handoff.
LaneTransition(id) ==
    IF activeLane \in {NONE, id.lane} THEN NONE ELSE activeLane
LaneAllowed(id) ==
    \/ activeLane \in {NONE, id.lane}
    \/ /\ activeLane = "thin" /\ id.lane = "authority"
       /\ authority_lane_transition_authorized(id)

\* _reserve_common_submission: which durable budget the attempt draws on.
BudgetScope(p, id) ==
    CASE id.auth # NONE -> id.auth
      [] id.auth = NONE /\ MaxSubmissions[p] = 0 -> NONE
      [] id.auth = NONE /\ MaxSubmissions[p] > 0 /\ id.launch -> "launch_full_gate"
      [] OTHER -> IF id.lane = "thin" THEN "thin_bounded" ELSE "authority_bounded"
BudgetLimit(p, id) ==
    IF id.auth # NONE THEN AuthMax[id.auth] ELSE MaxSubmissions[p]
BudgetLeft(scope, limit) ==
    scope # NONE => Cardinality(budgets[scope]) < limit

----------------------------------------------------------------------------
(* Startup and recovery: _recover_pending_launch_receipt *)

Start(p) ==
    /\ pc[p] \in {"down", "contradiction"}
    /\ Mode[p] = "launch" => approval
    /\ Goto(p, "recover")
    /\ UNCHANGED <<journal, laneFile, approval, chain>>

\* The lock is taken by another process or the chain preflight fails.
RecoverUnavailable(p) ==
    /\ pc[p] = "recover"
    /\ pc' = [pc EXCEPT ![p] = "down"]
    /\ UNCHANGED <<journal, laneFile, approval, lock, mine, crashes, chain>>

RecoverEnter(p) ==
    /\ pc[p] = "recover"
    /\ Acquire(p)
    /\ pc' = [pc EXCEPT ![p] = "recovering"]
    /\ mine' = [mine EXCEPT ![p] =
                   [NoMine EXCEPT !.id = pendingId, !.recovery = TRUE]]
    /\ UNCHANGED <<journal, laneFile, approval, crashes, chain>>

\* _recover_common_finalized_submission: the finalized record must match what
\* is left of the pending keys, and the lane file mirrors it or lacks it.
FinalizedMatchesPending ==
    /\ activeLane = finalized.id.lane
    /\ pending # NONE
    /\ pending.id = finalized.id
    /\ pending.phase = "signed_intent"
    /\ pending.intent = finalized.intent
    /\ pending.proof = "PASS"
    /\ finalized.id \in attemptIds

LaneAttempt(id) == IF id.lane = "thin" THEN laneFile.thin ELSE laneFile.authority

\* _write_state_fenced on the lane file.
LaneFenceAllows(id) ==
    /\ id.lane = "thin" => id.ver > laneFile.fence
    /\ id \notin laneFile.ids
WithLane(id, recovered) ==
    IF id.lane = "thin"
    THEN [laneFile EXCEPT !.fence = id.ver, !.thin = id,
                          !.ids = @ \cup {id}, !.recovered = recovered]
    ELSE [laneFile EXCEPT !.authority = id, !.ids = @ \cup {id}]

MirrorNeeded == finalized # NONE /\ LaneAttempt(finalized.id) # finalized.id

RecoverNothing(p) ==
    /\ pc[p] = "recovering" /\ pendingId = NONE
    /\ finalized # NONE => FinalizedMatchesPending /\ ~MirrorNeeded
    /\ ToLoop(p)
    /\ UNCHANGED <<journal, laneFile, approval, chain>>

RecoverMirror(p) ==
    /\ pc[p] = "recovering" /\ pendingId = NONE
    /\ MirrorNeeded /\ FinalizedMatchesPending
    /\ LaneFenceAllows(finalized.id)
    /\ laneFile' = WithLane(finalized.id, finalized.id)
    /\ ToLoop(p)
    /\ UNCHANGED <<journal, approval, chain>>

RecoverMismatch(p) ==
    /\ pc[p] = "recovering" /\ pendingId = NONE
    /\ finalized # NONE
    /\ ~FinalizedMatchesPending \/ (MirrorNeeded /\ ~LaneFenceAllows(finalized.id))
    /\ ExitContradiction(p)
    /\ UNCHANGED <<journal, laneFile, approval, chain>>

\* _abort_unsigned_common_submission: every pending key is popped.
\* Mutant: any reservation without a receipt is released.
Unsigned_ignores_phase(id) ==
    /\ pendingId = id
    /\ pending # NONE /\ pending.receipt = NONE
Unsigned(id) ==
    /\ pendingId = id
    /\ pending # NONE /\ pending.phase = "unsigned_reserved"
    /\ pending.intent = NONE /\ pending.receipt = NONE
abort_unsigned_common_submission ==
    /\ pendingId' = NONE
    /\ pending' = NONE
    /\ UNCHANGED <<attemptIds, budgets, activeLane, highest, finalized, expired,
                   launch, continuous>>

RecoverUnsigned(p) ==
    /\ pc[p] = "recovering" /\ pendingId # NONE
    /\ Unsigned(pendingId)
    /\ abort_unsigned_common_submission
    /\ ToLoop(p)
    /\ UNCHANGED <<laneFile, approval, chain>>

\* A proof that failed once is never retried.
RecoverRefused(p) ==
    /\ pc[p] = "recovering" /\ pendingId # NONE
    /\ pending.phase = "signed_intent" /\ pending.proof = "FAIL"
    /\ ExitContradiction(p)
    /\ UNCHANGED <<journal, laneFile, approval, chain>>

\* _locate_pending_broadcast_receipt over the finalized blocks of the window.
SearchFrom(tx) == tx.era
SearchUntil(tx) ==
    IF tx.id.until < tx.era + MortalPeriod THEN tx.id.until
                                           ELSE tx.era + MortalPeriod
Found(tx) ==
    \E i \in 1..Len(included) :
        /\ included[i].tx = tx
        /\ included[i].block \in SearchFrom(tx)..(SearchUntil(tx) - 1)
BlockOf(tx) ==
    included[CHOOSE i \in 1..Len(included) : included[i].tx = tx].block
\* Mutant: absence counts one block before the era is over.
Locate_one_block_early(tx) ==
    CASE SearchFrom(tx) >= SearchUntil(tx) -> "FAIL"
      [] SearchFrom(tx) < SearchUntil(tx) /\ Found(tx) -> "PASS"
      [] OTHER -> IF head >= SearchUntil(tx) - 2 THEN "EXPIRED" ELSE "NOT_PROVEN"
\* Mutant: absence is never conclusive.
Locate_never_expires(tx) ==
    CASE SearchFrom(tx) >= SearchUntil(tx) -> "FAIL"
      [] SearchFrom(tx) < SearchUntil(tx) /\ Found(tx) -> "PASS"
      [] OTHER -> "NOT_PROVEN"
Locate(tx) ==
    CASE SearchFrom(tx) >= SearchUntil(tx) -> "FAIL"
      [] SearchFrom(tx) < SearchUntil(tx) /\ Found(tx) -> "PASS"
      [] OTHER -> IF head >= SearchUntil(tx) - 1 THEN "EXPIRED" ELSE "NOT_PROVEN"

Searching(p) ==
    /\ pc[p] = "recovering" /\ pendingId # NONE
    /\ pending.phase = "signed_intent" /\ pending.proof # "FAIL"
    /\ pending.receipt = NONE

\* _expire_pending_common_submission.
RecoverExpire(p) ==
    /\ Searching(p)
    /\ Locate(pending.intent) = "EXPIRED"
    /\ pendingId \in attemptIds /\ pendingId \notin expired
    /\ pendingId' = NONE
    /\ pending' = NONE
    /\ expired' = expired \cup {pendingId}
    /\ launch' = IF pendingId.launch THEN [launch EXCEPT !.status = "expired"]
                                     ELSE launch
    /\ continuous' = (continuous /\ ~pendingId.launch)
    /\ ToLoop(p)
    /\ UNCHANGED <<attemptIds, budgets, activeLane, highest, finalized, laneFile,
                   approval, chain>>

\* _record_pending_proof_status, and the journal's other keys.
SetProof(status) ==
    /\ pending' = [pending EXCEPT !.proof = status]
    /\ UNCHANGED <<pendingId, attemptIds, budgets, activeLane, highest,
                   finalized, expired, launch, continuous>>

RecoverLocated(p) ==
    /\ Searching(p)
    /\ Locate(pending.intent) = "PASS"
    /\ SetProof("PASS")
    /\ Goto(p, "found")
    /\ UNCHANGED <<laneFile, approval, chain>>

\* Mutant: the expired answer is recorded like any other status.
RecoverUnproven_records_expired(p) ==
    /\ Searching(p)
    /\ \E status \in {Locate(pending.intent), "NOT_PROVEN"} \ {"PASS"} :
          /\ SetProof(status)
          /\ IF status = "FAIL" THEN ExitContradiction(p) ELSE ExitNotProven(p)
    /\ UNCHANGED <<laneFile, approval, chain>>

\* Not yet decidable, or the archive does not answer.
RecoverUnproven(p) ==
    /\ Searching(p)
    /\ \E status \in {Locate(pending.intent), "NOT_PROVEN"} \ {"PASS", "EXPIRED"} :
          /\ SetProof(status)
          /\ IF status = "FAIL" THEN ExitContradiction(p) ELSE ExitNotProven(p)
    /\ UNCHANGED <<laneFile, approval, chain>>

\* A receipt was recorded before the process died: only re-prove it.
RecoverReceipt(p) ==
    /\ pc[p] = "recovering" /\ pendingId # NONE
    /\ pending.phase = "signed_intent" /\ pending.proof # "FAIL"
    /\ pending.receipt # NONE
    /\ Goto(p, "receipted")
    /\ UNCHANGED <<journal, laneFile, approval, chain>>

\* _record_pending_submission_receipt.
RecordReceipt(id, block) ==
    /\ pendingId = id
    /\ pending' = [pending EXCEPT !.receipt = block, !.proof = "pending"]
    /\ UNCHANGED <<pendingId, attemptIds, budgets, activeLane, highest,
                   finalized, expired, launch, continuous>>

RecoverRecord(p) ==
    /\ pc[p] = "found"
    /\ RecordReceipt(mine[p].id, BlockOf(pending.intent))
    /\ Goto(p, "receipted")
    /\ UNCHANGED <<laneFile, approval, chain>>

----------------------------------------------------------------------------
(* A tick up to its reservation: tick, _thin_tick_locked,                   *)
(* _authority_tick_locked                                                   *)

Recurring(p) == Mode[p] # "launch" /\ continuous_transition_required(p)

\* The lock, the recurring authorization when one is owed, the preflight.
TickStart(p) ==
    /\ pc[p] = "idle"
    /\ head + MortalPeriod <= MaxHead
    /\ Acquire(p)
    /\ \E a \in Auths \cup {NONE} :
          /\ IF Recurring(p) THEN require_continuous_launch_transition(p, a)
                             ELSE a = NONE
          /\ mine' = [mine EXCEPT ![p] =
                         [NoMine EXCEPT !.block = head, !.auth = a]]
    /\ pc' = [pc EXCEPT ![p] = "ticking"]
    /\ UNCHANGED <<journal, laneFile, approval, crashes, chain>>

\* Fetch, signature, mapping, gate or reservation refuses; or the vector is
\* the one recovery already finalized and the tick has nothing to do.
TickEnds(p) ==
    /\ pc[p] \in {"ticking", "audited"}
    /\ ToLoop(p)
    /\ UNCHANGED <<journal, laneFile, approval, chain>>

\* The authority audit reserves its evidence line, the launch replay writes
\* nothing; both refresh the preflight when they are done.
Audit(p) ==
    /\ pc[p] = "ticking"
    /\ \/ Mode[p] = "launch" /\ UNCHANGED laneFile
       \/ /\ Mode[p] = "authority"
          /\ \E e \in Versions :
                /\ e >= laneFile.source
                /\ laneFile' = [laneFile EXCEPT !.source = e]
    /\ mine' = [mine EXCEPT ![p].block = head]
    /\ pc' = [pc EXCEPT ![p] = "audited"]
    /\ UNCHANGED <<journal, approval, lock, crashes, chain>>

\* The attempt ids a tick can derive: a vector above the lane's fence and not
\* the recovered one, or the audited report.
Derivable(p) ==
    {id \in [lane : {LaneOf(p)}, ver : Versions,
             until : {mine[p].block + w : w \in Windows},
             auth : {mine[p].auth}, launch : {Mode[p] = "launch"}] :
        IF LaneOf(p) = "thin" THEN id.ver > laneFile.fence
                              ELSE id.ver = laneFile.source}

\* _write_state_fenced on the journal, its reservation branch.
ReservationAllowed(p, id) ==
    /\ pendingId = NONE
    /\ id \notin attemptIds
    /\ LaneAllowed(id)
    /\ BudgetLeft(BudgetScope(p, id), BudgetLimit(p, id))
    /\ id.launch => launch.ids = {} /\ MaxSubmissions[p] = 1
    /\ id.ver > highest[id.lane]
    /\ Recurring(p) => id.auth # NONE
    /\ id.auth # NONE /\ MaxSubmissions[p] > 0 =>
          AuthMax[id.auth] <= MaxSubmissions[p]

Reserve(p) ==
    /\ pc[p] = (IF Mode[p] = "relay" THEN "ticking" ELSE "audited")
    /\ \E id \in Derivable(p) :
          /\ ReservationAllowed(p, id)
          /\ pendingId' = id
          /\ pending' = [id |-> id, block |-> mine[p].block,
                         phase |-> "unsigned_reserved", intent |-> NONE,
                         receipt |-> NONE, proof |-> "none",
                         scope |-> BudgetScope(p, id),
                         limit |-> BudgetLimit(p, id),
                         from |-> LaneTransition(id)]
          /\ mine' = [mine EXCEPT ![p].id = id]
    /\ pc' = [pc EXCEPT ![p] = "reserved"]
    /\ UNCHANGED <<attemptIds, budgets, activeLane, highest, finalized, expired,
                   launch, continuous, laneFile, approval, lock, crashes, chain>>

----------------------------------------------------------------------------
(* The chain write: set_weights_on_chain and _submit_exact_sn39_extrinsic   *)

\* Mutant: it is enough that the window is still open.
InclusionPolicyReady_open_window(id, block) == id.until > block

\* _require_inclusion_policy_ready: the whole mortal era fits the window.
InclusionPolicyReady(id, block) == id.until - block >= MortalPeriod

\* _authorize_sn39_chain_submission re-proves the reservation.
Authorize(p) ==
    /\ pc[p] = "reserved"
    /\ Unsigned(mine[p].id)
    /\ LaneAllowed(pendingId)
    /\ pending.from = LaneTransition(pendingId)
    /\ InclusionPolicyReady(pendingId, pending.block)
    /\ pendingId.lane = "thin" => pendingId.ver > laneFile.fence
    /\ pendingId.launch => launch.ids = {}
    /\ Recurring(p) => pendingId.auth # NONE /\ pending.scope = pendingId.auth
    /\ Mode[p] = "relay" /\ ~Recurring(p) => pendingId.auth = NONE
    /\ Goto(p, "authorized")
    /\ UNCHANGED <<journal, laneFile, approval, chain>>

\* Refused there, the exception leaves before set_weights_on_chain has read
\* the attempt id, so the reservation is not released.
AuthorizeFails(p) ==
    /\ pc[p] = "reserved"
    /\ ToLoop(p)
    /\ UNCHANGED <<journal, laneFile, approval, chain>>

\* Head drift, a nonce outside the allowance, a locked key, a failed commit:
\* nothing was signed durably and the reservation is released.
SubmitAborts(p) ==
    /\ pc[p] = "authorized"
    /\ Unsigned(mine[p].id)
    /\ abort_unsigned_common_submission
    /\ ToLoop(p)
    /\ UNCHANGED <<laneFile, approval, chain>>

\* A mortal transaction is valid in the blocks after its era block, up to the
\* end of its period, and with the account's next nonce.
Includable(tx, block) ==
    /\ tx.era < block /\ block < tx.era + MortalPeriod
    /\ tx.nonce = Len(included)

\* What the node still holds: broadcast calls some coming block may include.
Live == {tx \in pool : tx.nonce = Len(included) /\ head + 1 < tx.era + MortalPeriod}

\* The account's next nonce, as the node reports it, its queue included.
get_account_next_index == Len(included) + Cardinality(Live)
assert_nonce_ready(a, nonce) ==
    a # NONE => nonce \in AuthFrom[a]..(AuthFrom[a] + AuthMax[a] - 1)

\* Mutant: the high-water mark is left to the lane file.
commit_pending_signed_attempt_no_high_water(id, intent) ==
    /\ Unsigned(id)
    /\ id \notin attemptIds
    /\ LaneAllowed(id)
    /\ pending.from = LaneTransition(id)
    /\ BudgetLeft(pending.scope, pending.limit)
    /\ id.launch => launch.ids = {}
    /\ id.ver > highest[id.lane]
    /\ pending' = [pending EXCEPT !.phase = "signed_intent", !.intent = intent]
    /\ attemptIds' = attemptIds \cup {id}
    /\ budgets' = [s \in Scopes |->
                      budgets[s] \cup (IF s = pending.scope THEN {id} ELSE {})]
    /\ activeLane' = id.lane
    /\ UNCHANGED highest
    /\ launch' = IF id.launch
                 THEN [launch EXCEPT !.ids = {id}, !.status = "pending"]
                 ELSE launch
    /\ UNCHANGED <<pendingId, finalized, expired, continuous>>

\* Mutant: the budget is charged only on finalization.
commit_pending_signed_attempt_no_budget(id, intent) ==
    /\ Unsigned(id)
    /\ id \notin attemptIds
    /\ LaneAllowed(id)
    /\ pending.from = LaneTransition(id)
    /\ BudgetLeft(pending.scope, pending.limit)
    /\ id.launch => launch.ids = {}
    /\ id.ver > highest[id.lane]
    /\ pending' = [pending EXCEPT !.phase = "signed_intent", !.intent = intent]
    /\ attemptIds' = attemptIds \cup {id}
    /\ UNCHANGED budgets
    /\ activeLane' = id.lane
    /\ highest' = [highest EXCEPT ![id.lane] = id.ver]
    /\ launch' = IF id.launch
                 THEN [launch EXCEPT !.ids = {id}, !.status = "pending"]
                 ELSE launch
    /\ UNCHANGED <<pendingId, finalized, expired, continuous>>

\* _commit_pending_signed_attempt: history, budget, lane and high-water mark
\* move in the same write that makes the attempt irreversible.
commit_pending_signed_attempt(id, intent) ==
    /\ Unsigned(id)
    /\ id \notin attemptIds
    /\ LaneAllowed(id)
    /\ pending.from = LaneTransition(id)
    /\ BudgetLeft(pending.scope, pending.limit)
    /\ id.launch => launch.ids = {}
    /\ id.ver > highest[id.lane]
    /\ pending' = [pending EXCEPT !.phase = "signed_intent", !.intent = intent]
    /\ attemptIds' = attemptIds \cup {id}
    /\ budgets' = [s \in Scopes |->
                      budgets[s] \cup (IF s = pending.scope THEN {id} ELSE {})]
    /\ activeLane' = id.lane
    /\ highest' = [highest EXCEPT ![id.lane] = id.ver]
    /\ launch' = IF id.launch
                 THEN [launch EXCEPT !.ids = {id}, !.status = "pending"]
                 ELSE launch
    /\ UNCHANGED <<pendingId, finalized, expired, continuous>>

Sign(p) ==
    /\ pc[p] = "authorized"
    /\ head = mine[p].block
    /\ Recurring(p) => mine[p].auth # NONE
    /\ assert_nonce_ready(mine[p].auth, get_account_next_index)
    /\ commit_pending_signed_attempt(mine[p].id,
          [id |-> mine[p].id, nonce |-> get_account_next_index,
           era |-> mine[p].block])
    /\ Goto(p, "signed")
    /\ UNCHANGED <<laneFile, approval, chain>>

Broadcast(p) ==
    /\ pc[p] = "signed"
    /\ pool' = pool \cup {pending.intent}
    /\ Goto(p, "submitted")
    /\ UNCHANGED <<journal, laneFile, approval, head, included>>

\* submit_extrinsic raised, timed out, or answered without a usable receipt.
SubmitUnknown(p) ==
    /\ pc[p] \in {"signed", "submitted"}
    /\ ExitNotProven(p)
    /\ UNCHANGED <<journal, laneFile, approval, chain>>

OnChain(tx) == {i \in 1..Len(included) : included[i].tx = tx}

SubmitReceipt(p) ==
    /\ pc[p] = "submitted"
    /\ \E i \in OnChain(pending.intent) :
          \/ /\ included[i].ok
             /\ RecordReceipt(mine[p].id, included[i].block)
             /\ Goto(p, "receipted")
          \/ /\ ~included[i].ok
             /\ ExitContradiction(p)
             /\ UNCHANGED journal
    /\ UNCHANGED <<laneFile, approval, chain>>

----------------------------------------------------------------------------
(* Proof and finalization, the same code for a tick and for a recovery *)

\* Mutant: inclusion is taken for execution.
classify_finalized_receipt_inclusion_only(tx) ==
    {"NOT_PROVEN"} \cup {"PASS" : i \in OnChain(tx)}

\* _classify_finalized_receipt: PASS or FAIL by the call's recorded execution,
\* NOT_PROVEN whenever the archive does not answer.
classify_finalized_receipt(tx) ==
    {"NOT_PROVEN"} \cup
        {IF included[i].ok THEN "PASS" ELSE "FAIL" : i \in OnChain(tx)}

Classify(p) ==
    /\ pc[p] = "receipted"
    /\ pendingId = mine[p].id
    /\ \E status \in classify_finalized_receipt(pending.intent) :
          /\ SetProof(status)
          /\ CASE status = "PASS" -> Goto(p, "proved")
               [] status = "FAIL" -> ExitContradiction(p)
               [] OTHER -> ExitNotProven(p)
    /\ UNCHANGED <<laneFile, approval, chain>>

\* _finalize_common_submission: the id is cleared, the other pending keys stay.
finalize_common_submission(id) ==
    /\ pendingId = id
    /\ pending.phase = "signed_intent" /\ pending.intent # NONE
    /\ pendingId' = NONE
    /\ pending' = [pending EXCEPT !.proof = "PASS"]
    /\ finalized' = [id |-> id, intent |-> pending.intent,
                     block |-> pending.receipt]
    /\ launch' = IF id.launch THEN [launch EXCEPT !.status = "finalized"]
                              ELSE launch
    /\ continuous' = (continuous /\ ~id.launch)
    /\ UNCHANGED <<attemptIds, budgets, activeLane, highest, expired>>

Finalize(p) ==
    /\ pc[p] = "proved"
    /\ finalize_common_submission(mine[p].id)
    /\ Goto(p, "finalized")
    /\ UNCHANGED <<laneFile, approval, chain>>

\* The lane file follows; a recovery also remembers the vector it recovered.
WriteLane(p) ==
    /\ pc[p] = "finalized"
    /\ LET id == mine[p].id IN
          /\ LaneFenceAllows(id)
          /\ laneFile' = WithLane(id, IF mine[p].recovery THEN id ELSE NONE)
    /\ ToLoop(p)
    /\ UNCHANGED <<journal, approval, chain>>

\* The lane write fails: a tick reports it and goes on, a recovery exits.
WriteLaneFails(p) ==
    /\ pc[p] = "finalized"
    /\ IF mine[p].recovery THEN ExitNotProven(p) ELSE ToLoop(p)
    /\ UNCHANGED <<journal, laneFile, approval, chain>>

----------------------------------------------------------------------------
(* Operators, the supervisor and the chain *)

\* _require_launch_journal_available, of a state document.
LaunchJournalAvailable(doc) ==
    /\ doc.pendingId = NONE
    /\ doc.phase = NONE
    /\ doc.status \notin {"pending", "finalized"}
    /\ doc.launchIds = {}

\* What the lane state file says of the submission keys, which only the
\* journal holds.
LaneDocument ==
    [pendingId |-> NONE, phase |-> NONE, status |-> "none", launchIds |-> {}]

\* run_launch_preflight reads args.state_file and writes the approval.
LaunchPreflight ==
    /\ LaunchJournalAvailable(LaneDocument)
    /\ ~approval
    /\ approval' = TRUE
    /\ UNCHANGED <<journal, laneFile, procs, chain>>

\* Mutant: a recorded launch attempt is enough.
ReconcileLaunch_any_launch ==
    /\ lock = NONE
    /\ pendingId = NONE
    /\ launch.ids # {}
    /\ continuous' = TRUE
    /\ UNCHANGED <<pendingId, pending, attemptIds, budgets, activeLane, highest,
                   finalized, expired, launch, laneFile, approval, procs, chain>>

\* reconcile_launch_transition, under the submission lock.
ReconcileLaunch ==
    /\ lock = NONE
    /\ pendingId = NONE
    /\ launch.status = "finalized" /\ launch.ids # {}
    /\ \E i \in 1..Len(included) : included[i].tx.id \in launch.ids /\ included[i].ok
    /\ continuous' = TRUE
    /\ UNCHANGED <<pendingId, pending, attemptIds, budgets, activeLane, highest,
                   finalized, expired, launch, laneFile, approval, procs, chain>>

\* A single-shot run ends, or an operator stops the service.
Stop(p) ==
    /\ pc[p] = "idle"
    /\ Goto(p, "down")
    /\ UNCHANGED <<journal, laneFile, approval, chain>>

\* Death at any point; the kernel drops the flock.
Crash(p) ==
    /\ p \in NotDown
    /\ crashes < MaxCrashes
    /\ crashes' = crashes + 1
    /\ pc' = [pc EXCEPT ![p] = "down"]
    /\ mine' = [mine EXCEPT ![p] = NoMine]
    /\ lock' = IF lock = p THEN NONE ELSE lock
    /\ UNCHANGED <<journal, laneFile, approval, chain>>

\* One more block is finalized, with at most one of the account's calls.
FinalizeBlock ==
    /\ head < MaxHead
    /\ head' = head + 1
    /\ \/ UNCHANGED included
       \/ \E tx \in pool, ok \in (IF DispatchFails THEN BOOLEAN ELSE {TRUE}) :
             /\ Includable(tx, head + 1)
             /\ included' = Append(included, [tx |-> tx, block |-> head + 1, ok |-> ok])
    /\ UNCHANGED <<pool, journal, laneFile, approval, procs>>

----------------------------------------------------------------------------
Init ==
    /\ pendingId = NONE /\ pending = NONE
    /\ attemptIds = {} /\ expired = {}
    /\ budgets = [s \in Scopes |-> {}]
    /\ activeLane = NONE
    /\ highest = [l \in Lanes |-> -1]
    /\ finalized = NONE
    /\ launch = [ids |-> {}, status |-> "none"]
    /\ continuous = FALSE
    /\ laneFile = [fence |-> -1, source |-> -1, thin |-> NONE,
                   authority |-> NONE, recovered |-> NONE, ids |-> {}]
    /\ approval = FALSE
    /\ lock = NONE
    /\ pc = [p \in Procs |-> "down"]
    /\ mine = [p \in Procs |-> NoMine]
    /\ crashes = 0
    /\ head = 1
    /\ pool = {}
    /\ included = <<>>

Recovery(p) ==
    \/ RecoverUnavailable(p) \/ RecoverEnter(p) \/ RecoverNothing(p)
    \/ RecoverMirror(p) \/ RecoverMismatch(p) \/ RecoverUnsigned(p)
    \/ RecoverRefused(p) \/ RecoverExpire(p) \/ RecoverLocated(p)
    \/ RecoverUnproven(p) \/ RecoverReceipt(p) \/ RecoverRecord(p)

Tick(p) ==
    \/ TickStart(p) \/ TickEnds(p) \/ Audit(p) \/ Reserve(p) \/ Authorize(p)
    \/ AuthorizeFails(p) \/ SubmitAborts(p) \/ Sign(p) \/ Broadcast(p)
    \/ SubmitUnknown(p) \/ SubmitReceipt(p)

Settle(p) == Classify(p) \/ Finalize(p) \/ WriteLane(p) \/ WriteLaneFails(p)

Next ==
    \/ \E p \in Procs : \/ Start(p) \/ Stop(p) \/ Crash(p)
                        \/ Recovery(p) \/ Tick(p) \/ Settle(p)
    \/ LaunchPreflight \/ ReconcileLaunch \/ FinalizeBlock

Spec == Init /\ [][Next]_vars

----------------------------------------------------------------------------
(* Properties *)

TypeOK ==
    /\ pendingId \in AttemptId \cup {NONE}
    /\ pending \in PendingRecord \cup {NONE}
    /\ attemptIds \subseteq AttemptId
    /\ budgets \in [Scopes -> SUBSET AttemptId]
    /\ activeLane \in Lanes \cup {NONE}
    /\ highest \in [Lanes -> {-1} \cup Versions]
    /\ finalized \in FinalRecord \cup {NONE}
    /\ expired \subseteq AttemptId
    /\ launch \in [ids : SUBSET AttemptId,
                   status : {"none", "pending", "finalized", "expired"}]
    /\ continuous \in BOOLEAN
    /\ laneFile \in LaneFile
    /\ approval \in BOOLEAN
    /\ lock \in Procs \cup {NONE}
    /\ pc \in [Procs -> PCs]
    /\ mine \in [Procs -> Mine]
    /\ crashes \in 0..MaxCrashes
    /\ head \in 1..(IF MaxHead > 1 THEN MaxHead ELSE 1)
    /\ pool \subseteq Intent
    /\ included \in Seq(Included)

\* Whatever the chain could still include is the one attempt the journal holds
\* as pending: no crash, expiry or retry leaves a second call in flight.
LiveIsFenced ==
    \A tx \in Live : pendingId = tx.id /\ pending.intent = tx

\* An attempt that recovery retired as expired is never on chain, and can
\* never get there.
ExpiredNeverIncluded ==
    /\ \A i \in 1..Len(included) : included[i].tx.id \notin expired
    /\ \A tx \in Live : tx.id \notin expired

\* Every call on chain is either the pending attempt or one the journal has
\* finalized: none is forgotten, whatever died after the broadcast.
EveryWriteAccounted ==
    Len(included) <=
        (IF finalized = NONE THEN 0 ELSE finalized.intent.nonce + 1)
        + (IF pendingId # NONE /\ pending.phase = "signed_intent" THEN 1 ELSE 0)

Succeeded(id) == \E i \in 1..Len(included) : included[i].tx.id = id /\ included[i].ok

\* What the journal calls finalized is on chain, in the block recorded, and
\* executed; what the lane file mirrors is too, and never ahead of the journal.
FinalizedIsOnChain ==
    /\ finalized # NONE =>
          \E i \in OnChain(finalized.intent) :
              included[i].ok /\ included[i].block = finalized.block
    /\ \A id \in laneFile.ids : Succeeded(id)
    /\ laneFile.fence <= highest["thin"]

\* An authorization never covers more signed attempts than it allows; an
\* attempt that expired still counts.
BudgetRespected ==
    \A a \in Auths :
        Cardinality({id \in attemptIds : id.auth = a}) <= AuthMax[a]

\* Continuous operation, and with it every recurring write, rests on a launch
\* that executed.
ContinuousAfterLaunch ==
    continuous => \E id \in launch.ids : Succeeded(id)

\* What a relay may rely on across its restarts.
RecoveryInv == TypeOK /\ ExpiredNeverIncluded /\ EveryWriteAccounted

\* What the launch host's three processes may rely on from one another.
LaunchFenced ==
    LiveIsFenced /\ FinalizedIsOnChain /\ BudgetRespected /\ ContinuousAfterLaunch

\* Seen from the chain, the processes together are one WeightChain.
WritesOnChain ==
    [i \in 1..Len(included) |->
        [lane |-> included[i].tx.id.lane, ver |-> included[i].tx.id.ver,
         launch |-> included[i].tx.id.launch, ok |-> included[i].ok]]
Abstract == INSTANCE WeightChain WITH writes <- WritesOnChain
ImplementsWeightChain == Abstract!Spec

\* A signed attempt is settled in the end, as finalized or as expired.
SignedAttemptSettled ==
    (pendingId # NONE /\ pending.phase = "signed_intent") ~> (pendingId = NONE)

----------------------------------------------------------------------------
(* A claim of the code's own comments that the code does not keep *)

\* "A positive historical mismatch ... exits nonzero": a validator stops for a
\* contradiction only when some call really failed on chain.
ContradictionIsReal ==
    (\E p \in Procs : pc[p] = "contradiction") =>
        \E i \in 1..Len(included) : ~included[i].ok

----------------------------------------------------------------------------
(* Fairness: the supervisor restarts what exits (Restart=on-failure), blocks *)
(* keep being finalized, and an RPC node asked again and again answers.      *)
Fairness ==
    /\ WF_vars(FinalizeBlock)
    /\ \A p \in Procs :
          /\ WF_vars(Start(p))
          /\ SF_vars(RecoverEnter(p))
          /\ SF_vars(RecoverExpire(p)) /\ SF_vars(RecoverLocated(p))
          /\ WF_vars(RecoverNothing(p) \/ RecoverMirror(p) \/ RecoverMismatch(p)
                       \/ RecoverUnsigned(p) \/ RecoverRefused(p)
                       \/ RecoverUnproven(p) \/ RecoverReceipt(p)
                       \/ RecoverRecord(p))
          /\ WF_vars(TickEnds(p) \/ Audit(p) \/ Reserve(p))
          /\ WF_vars(Authorize(p) \/ AuthorizeFails(p))
          /\ WF_vars(SubmitAborts(p) \/ Sign(p))
          /\ WF_vars(Broadcast(p) \/ SubmitUnknown(p) \/ SubmitReceipt(p))
          /\ SF_vars(Classify(p) /\ pc'[p] = "proved")
          /\ WF_vars(Classify(p)) /\ WF_vars(Finalize(p))
          /\ WF_vars(WriteLane(p) \/ WriteLaneFails(p))

FairSpec == Spec /\ Fairness
=============================================================================
