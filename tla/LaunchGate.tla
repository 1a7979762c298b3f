------------------------------ MODULE LaunchGate ------------------------------
(***************************************************************************)
(* The one-shot launch: an operator's read-only preflight replays the      *)
(* evidence of every rewarded miner and writes an approval that binds each *)
(* fact of the launch; the launch tick replays it again, revalidates every *)
(* mutable input, consumes the approval, reserves, and is authorized anew  *)
(* against the file before it signs.                                       *)
(*                                                                         *)
(* Between any two steps the chain advances, a target hotkey is rotated,   *)
(* the publisher serves another vector or report, and the release changes. *)
(* Blocks are the only clock.                                              *)
(***************************************************************************)
EXTENDS Naturals, FiniteSets, Absent

CONSTANTS
    LaunchVectors,      \* signed vectors: [id, row, burn, gen, exp]
    LaunchReports,      \* audit results: [id, miners, receipts, replayed, agrees, from, until,
                        \*                 cand, gen]
    LaunchReleases,     \* installed releases with their resolved profile
    RewardedUid, BurnUid, LaunchHotkeys, SubnetBurn,
    ApprovalLifetime, MortalEra,
    FirstLaunchBlock, LastLaunchBlock, MaxApprovals, MaxWorldChanges      \* bounds
\* Blocks and the snapshots taken at them are counted from the genesis.
ASSUME LaunchConstants ==
    /\ {FirstLaunchBlock, LastLaunchBlock, MaxApprovals, MortalEra} \subseteq Nat
    /\ FirstLaunchBlock <= LastLaunchBlock
    /\ \A rep \in LaunchReports : rep.cand \in Nat

VARIABLES
    launchBlock,        \* the finalized head
    hotkeyAt,           \* uid -> hotkey
    rotatedAt,          \* uid -> the block of its proven rotation, or 0
    feed, report, release,      \* what the publisher serves and what is installed
    approvalFile,       \* the root-controlled approval, or NONE
    reviewer, launcher,         \* [pc, vector, report, seen, approval]
    launchSigned,       \* the signed launch, or NONE
    approvals, worldChanges

launchVars == <<launchBlock, hotkeyAt, rotatedAt, feed, report, release, approvalFile, reviewer,
                launcher, launchSigned, approvals, worldChanges>>
World == <<launchBlock, hotkeyAt, rotatedAt, feed, report, release, worldChanges>>

Resting == [pc |-> "idle", vector |-> NONE, report |-> NONE, seen |-> NONE, approval |-> NONE]

-----------------------------------------------------------------------------
\* The chain as a preflight reads it, and the two derivations of the allocation

chain_preflight == [block |-> launchBlock, map |-> hotkeyAt, rotated |-> rotatedAt]
UidOf(map, hotkey) == {uid \in DOMAIN map : map[uid] = hotkey}

\* All or nothing: every paid hotkey has a UID, and none of them is the burn UID.
Mappable(map, paid, burn) ==
    /\ UidOf(map, burn) # {}
    /\ \A h \in paid : UidOf(map, h) # {} /\ UidOf(map, h) # UidOf(map, burn)
Allocation(map, paid, burn) ==
    [uid \in UNION {UidOf(map, h) : h \in paid} \cup UidOf(map, burn) |->
        IF uid \in UidOf(map, burn) THEN "burn" ELSE "reward"]
\* From the recomputed shares and the operator's burn hotkey; nothing of the signed vector.
provenance_uid_weights(rep, map) ==
    IF Mappable(map, rep.miners, SubnetBurn) THEN Allocation(map, rep.miners, SubnetBurn) ELSE NONE
vector_uid_weights(vec, map) ==
    IF Mappable(map, {vec.row}, vec.burn) THEN Allocation(map, {vec.row}, vec.burn) ELSE NONE
SameAllocation(vec, rep, map) ==
    /\ vector_uid_weights(vec, map) # NONE
    /\ vector_uid_weights(vec, map) = provenance_uid_weights(rep, map)

-----------------------------------------------------------------------------
\* The checks

accept_vector(vec, block) == vec.gen <= block /\ block < vec.exp

\* Every rewarded miner has a receipt and a raw replay, and both derivations agree.
run_launch_rewarded_set_gate(vec, rep, seen) ==
    /\ rep.from <= seen.block /\ seen.block < rep.until
    /\ rep.agrees = vec.id
    /\ rep.miners # {} /\ rep.miners = rep.receipts /\ rep.miners = rep.replayed
    /\ SameAllocation(vec, rep, seen.map)

\* Candidate snapshot, report window, vector and index all postdate every live rotation.
launch_evidence_after_rotations(vec, rep, seen) ==
    \A uid \in DOMAIN seen.rotated : seen.rotated[uid] # 0 =>
        /\ rep.cand > seen.rotated[uid] /\ rep.from > seen.rotated[uid]
        /\ rep.gen > seen.rotated[uid] /\ vec.gen > seen.rotated[uid]

\* The release boundary: one rewarded hotkey and the subnet owner's burn hotkey.
launch_boundary(vec, map) ==
    /\ vec.burn = SubnetBurn /\ vec.row # SubnetBurn
    /\ DOMAIN vector_uid_weights(vec, map) = {RewardedUid, BurnUid}
\* A full mortal era inside the evidence window, and inside the vector's lifetime.
inclusion_policy_ready(vec, rep, seen) ==
    /\ rep.from <= seen.block /\ seen.block + MortalEra <= rep.until
    /\ seen.block + MortalEra <= vec.exp
revalidate_launch(vec, rep, fresh) ==
    /\ accept_vector(vec, fresh.block)
    /\ SameAllocation(vec, rep, fresh.map)
    /\ launch_boundary(vec, fresh.map)
    /\ inclusion_policy_ready(vec, rep, fresh)
    /\ launch_evidence_after_rotations(vec, rep, fresh)

\* Every fact an operator approves except the head.
launch_approval_bindings(vec, rep, seen) ==
    [release |-> release, vector |-> vec, report |-> rep.id, rewarded |-> rep.replayed,
     uids |-> vector_uid_weights(vec, seen.map), map |-> seen.map]
build_launch_approval(vec, rep, seen) ==
    [bindings |-> launch_approval_bindings(vec, rep, seen), reviewed |-> seen.block,
     until |-> seen.block + ApprovalLifetime]
\* A root-controlled file of this schema and digest, for the running release.
validate_launch_approval_envelope(doc) == doc # NONE /\ doc.bindings.release = release

\* Mutant: the approval is checked for its age and release, not for what it binds.
require_launch_approval_fresh(doc, vec, rep, seen) ==
    /\ validate_launch_approval_envelope(doc)
    /\ doc.reviewed <= seen.block /\ seen.block + MortalEra <= doc.until
require_launch_approval(doc, vec, rep, seen) ==
    /\ validate_launch_approval_envelope(doc)
    /\ doc.reviewed <= seen.block /\ seen.block + MortalEra <= doc.until
    /\ doc.bindings = launch_approval_bindings(vec, rep, seen)

\* The payload is accepted once more and derives the allocation about to be written.
reverify_reserved_signed_vector(vec, seen) ==
    accept_vector(vec, launchBlock) /\ vec.burn = SubnetBurn /\ vector_uid_weights(vec, seen.map) # NONE

-----------------------------------------------------------------------------
\* The operator's preflight: it reserves nothing

Proceeds(who, next, ok) == who' = IF ok THEN next ELSE Resting

ReviewGate ==
    /\ reviewer.pc = "idle" /\ Cardinality(approvals) < MaxApprovals
    /\ accept_vector(feed, launchBlock)
    /\ Proceeds(reviewer, [Resting EXCEPT !.pc = "fresh", !.vector = feed, !.report = report],
            run_launch_rewarded_set_gate(feed, report, chain_preflight))
    /\ UNCHANGED <<World, approvalFile, launcher, launchSigned, approvals>>
ReviewFresh ==
    /\ reviewer.pc = "fresh"
    /\ Proceeds(reviewer, [reviewer EXCEPT !.pc = "write", !.seen = chain_preflight],
            revalidate_launch(reviewer.vector, reviewer.report, chain_preflight))
    /\ UNCHANGED <<World, approvalFile, launcher, launchSigned, approvals>>
ReviewWrite ==
    /\ reviewer.pc = "write"
    /\ approvalFile' = build_launch_approval(reviewer.vector, reviewer.report, reviewer.seen)
    /\ approvals' = approvals \cup {approvalFile'}
    /\ reviewer' = Resting
    /\ UNCHANGED <<World, launcher, launchSigned>>

-----------------------------------------------------------------------------
\* The launch tick

LaunchGateStep ==
    /\ launcher.pc = "idle" /\ launchSigned = NONE
    /\ accept_vector(feed, launchBlock)
    /\ Proceeds(launcher, [Resting EXCEPT !.pc = "fresh", !.vector = feed, !.report = report],
            run_launch_rewarded_set_gate(feed, report, chain_preflight))
    /\ UNCHANGED <<World, approvalFile, reviewer, launchSigned, approvals>>
LaunchFresh ==
    /\ launcher.pc = "fresh"
    /\ Proceeds(launcher, [launcher EXCEPT !.pc = "approve", !.seen = chain_preflight],
            revalidate_launch(launcher.vector, launcher.report, chain_preflight))
    /\ UNCHANGED <<World, approvalFile, reviewer, launchSigned, approvals>>
LaunchApprove ==
    /\ launcher.pc = "approve"
    /\ Proceeds(launcher, [launcher EXCEPT !.pc = "authorize", !.approval = approvalFile],
            require_launch_approval(approvalFile, launcher.vector, launcher.report, launcher.seen))
    /\ UNCHANGED <<World, approvalFile, reviewer, launchSigned, approvals>>
\* After the reservation: the file is read again and must be the one consumed.
LaunchAuthorize ==
    /\ launcher.pc = "authorize"
    /\ Proceeds(launcher, [launcher EXCEPT !.pc = "sign"],
            /\ reverify_reserved_signed_vector(launcher.vector, launcher.seen)
            /\ require_launch_approval(approvalFile, launcher.vector, launcher.report, launcher.seen)
            /\ approvalFile = launcher.approval
            /\ launch_evidence_after_rotations(launcher.vector, launcher.report, launcher.seen))
    /\ UNCHANGED <<World, approvalFile, reviewer, launchSigned, approvals>>
\* The era is pinned to the preflight's block, which must still be the finalized head.
LaunchSign ==
    /\ launcher.pc = "sign"
    /\ launcher' = Resting
    /\ launchSigned' = IF launchBlock = launcher.seen.block
                         THEN [vector |-> launcher.vector, report |-> launcher.report.id,
                               block |-> launcher.seen.block, approval |-> launcher.approval,
                               release |-> release, map |-> hotkeyAt, rotated |-> rotatedAt,
                               cand |-> launcher.report.cand]
                         ELSE NONE
    /\ UNCHANGED <<World, approvalFile, reviewer, approvals>>

-----------------------------------------------------------------------------
\* The world

NewLaunchBlock ==
    /\ launchBlock < LastLaunchBlock
    /\ launchBlock' = launchBlock + 1
    /\ UNCHANGED <<hotkeyAt, rotatedAt, feed, report, release, worldChanges, approvalFile, reviewer,
                   launcher, launchSigned, approvals>>
\* A rotation is finalized in the block it is executed in.
Rotate(uid, hotkey) ==
    /\ worldChanges < MaxWorldChanges /\ launchBlock < LastLaunchBlock
    /\ UidOf(hotkeyAt, hotkey) = {}
    /\ launchBlock' = launchBlock + 1
    /\ hotkeyAt' = [hotkeyAt EXCEPT ![uid] = hotkey]
    /\ rotatedAt' = [rotatedAt EXCEPT ![uid] = launchBlock + 1]
    /\ worldChanges' = worldChanges + 1
    /\ UNCHANGED <<feed, report, release, approvalFile, reviewer, launcher, launchSigned, approvals>>
Publish(vec, rep, rel) ==
    /\ worldChanges < MaxWorldChanges
    /\ <<vec, rep, rel>> # <<feed, report, release>>
    /\ vec.gen <= launchBlock /\ rep.gen <= launchBlock
    /\ feed' = vec /\ report' = rep /\ release' = rel
    /\ launcher' = IF rel = release THEN launcher ELSE Resting      \* a new process
    /\ reviewer' = IF rel = release THEN reviewer ELSE Resting
    /\ worldChanges' = worldChanges + 1
    /\ UNCHANGED <<launchBlock, hotkeyAt, rotatedAt, approvalFile, launchSigned, approvals>>

LaunchInit ==
    /\ launchBlock = FirstLaunchBlock
    /\ hotkeyAt = [uid \in {RewardedUid, BurnUid} |-> IF uid = RewardedUid THEN "m" ELSE SubnetBurn]
    /\ rotatedAt = [uid \in {RewardedUid, BurnUid} |-> IF uid = RewardedUid THEN 1 ELSE 0]
    /\ feed \in LaunchVectors /\ report \in LaunchReports
    /\ feed.gen <= FirstLaunchBlock /\ report.gen <= FirstLaunchBlock
    /\ release \in LaunchReleases
    /\ approvalFile = NONE /\ reviewer = Resting /\ launcher = Resting
    /\ launchSigned = NONE /\ approvals = {} /\ worldChanges = 0

LaunchNext ==
    \/ ReviewGate \/ ReviewFresh \/ ReviewWrite
    \/ LaunchGateStep \/ LaunchFresh \/ LaunchApprove \/ LaunchAuthorize \/ LaunchSign
    \/ NewLaunchBlock
    \/ \E uid \in {RewardedUid, BurnUid}, h \in LaunchHotkeys : Rotate(uid, h)
    \/ \E vec \in LaunchVectors, rep \in LaunchReports, rel \in LaunchReleases : Publish(vec, rep, rel)
LaunchSpec == LaunchInit /\ [][LaunchNext]_launchVars

-----------------------------------------------------------------------------
LaunchTypeOK ==
    /\ launchBlock \in FirstLaunchBlock .. LastLaunchBlock
    /\ DOMAIN hotkeyAt = {RewardedUid, BurnUid}
    /\ reviewer.pc \in {"idle", "fresh", "write"}
    /\ launcher.pc \in {"idle", "fresh", "approve", "authorize", "sign"}
    /\ Cardinality(approvals) <= MaxApprovals

\* _require_launch_approval, _authorize_sn39_chain_submission and the pinned era: whatever
\* the publisher, the chain and the operator do between the steps, a signed launch is
\* exactly what some review bound (release, vector, report, mapping), the mapping is still
\* the chain's at its reference block, its whole mortal era lies inside the approval, and
\* its candidate snapshot postdates every rotation of its targets.
LaunchedIsReviewed ==
    launchSigned # NONE =>
        LET s == launchSigned IN
        \E a \in approvals :
            /\ a = s.approval
            /\ a.bindings.release = s.release /\ a.bindings.vector = s.vector
            /\ a.bindings.report = s.report /\ a.bindings.map = s.map
            /\ a.reviewed <= s.block /\ s.block + MortalEra <= a.reviewed + ApprovalLifetime
            /\ \A uid \in DOMAIN s.rotated : s.rotated[uid] < s.cand

\* The launch gate: types, and a signed launch is a reviewed one.
LaunchGateInv == LaunchTypeOK /\ LaunchedIsReviewed
=============================================================================
