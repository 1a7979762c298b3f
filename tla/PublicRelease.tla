---------------------------- MODULE PublicRelease ----------------------------
(***************************************************************************)
(* The root finalizer that seals a launch in public, and whoever checks    *)
(* the seal.  A run re-proves the launch journal against the archive       *)
(* chain, replays the evidence, and publishes three names exactly once:    *)
(* the replay blob, release.json, release.json.sig.  A name is published   *)
(* under a lock by staging a file, linking it and unlinking the stage.     *)
(*                                                                         *)
(* A document is a set of facts; "wrong" holds the facts in which the      *)
(* journal, and so the release made of it, disagrees with the chain.       *)
(* Finalizers of several checkouts may run, die between any two calls and  *)
(* run again; a power loss undoes what was not synced.                     *)
(***************************************************************************)
EXTENDS Naturals, FiniteSets, Absent

CONSTANTS
    Finalizers,         \* processes
    Requests,           \* [sha, launcher, pristine, journal]
    Revisions,          \* checkouts a reader may verify with
    MaxFinalizerRuns, MaxReads, MaxReleaseFaults    \* bounds
\* What a launch journal states of the chain, and so what it may state wrongly.
ReleaseFacts ==
    {"intent", "mapping", "rotation", "swap", "registration", "envelope", "replay", "index", "manifest",
     "evidence", "shape", "vector", "inclusion", "call", "era", "weights", "candidates"}
ASSUME ReleaseConstants ==
    /\ \A req \in Requests : req.journal.wrong \subseteq ReleaseFacts
    /\ NONE \notin Finalizers
    /\ NONE \notin {"replay", "PASS", "FAIL"}
    /\ \A req \in Requests : NONE # [sha |-> req.sha, wrong |-> req.journal.wrong]

Names3 == <<"blob", "release", "sig">>
PublicNames == {"blob", "release", "sig"}
DirectoryOf(n) == IF n = "blob" THEN "blobs" ELSE "root"

VARIABLES
    pubDir,         \* name -> [pending, whole, final, linked]
    durableDir,     \* the same, as of the last fsync of its directory
    finalizer,      \* process -> [pc, req, step]
    pubLock,        \* directory -> the process that holds its lock
    reader,         \* a reproduction in progress: [pc, rev, release, sig, verdict]
    passed,         \* the releases some reproduction has passed
    reconciled,     \* the release the validator took as its permission to continue
    finalizerRuns, releaseReads, releaseFaults

relVars == <<pubDir, durableDir, finalizer, pubLock, reader, passed, reconciled,
             finalizerRuns, releaseReads, releaseFaults>>
DirVars == <<pubDir, durableDir, pubLock>>
ReaderVars == <<reader, passed, reconciled, releaseReads>>

NoFile == [pending |-> NONE, whole |-> FALSE, final |-> NONE, linked |-> FALSE]
NoRun == [pc |-> "idle", req |-> NONE, step |-> 1]
NoReader == [pc |-> "idle", rev |-> NONE, release |-> NONE, sig |-> NONE, verdict |-> NONE]

RelInit ==
    /\ pubDir = [n \in PublicNames |-> NoFile] /\ durableDir = pubDir
    /\ finalizer = [p \in Finalizers |-> NoRun]
    /\ pubLock = [d \in {"blobs", "root"} |-> NONE]
    /\ reader = NoReader /\ passed = {} /\ reconciled = NONE
    /\ finalizerRuns = 0 /\ releaseReads = 0 /\ releaseFaults = 0

-----------------------------------------------------------------------------
\* What the finalizer proves before it signs

Agrees(doc, facts) == doc.wrong \cap facts = {}

read_root_manifest(req) == req.launcher
require_launcher_context(req) == read_root_manifest(req)
verify_release_checkout(req) == req.pristine
read_launch_journal(req) == req.journal
\* A finalized one-shot launch, nothing pending, continuous operation off.
require_launch_state(j) == j.final
validated_broadcast_intent(j) == Agrees(j, {"intent"})
archive_snapshot(j) == Agrees(j, {"mapping"})
archive_rotation_receipt(j) == Agrees(j, {"rotation"})
archive_swap_safety(j) == Agrees(j, {"swap"}) /\ archive_rotation_receipt(j)
\* Rebuilt from the archive, whatever the validator had calculated.
archive_uid_safety(j) == Agrees(j, {"registration"}) /\ archive_swap_safety(j)
\* Mutant: an envelope is not compared with its digest.
read_controlled_envelope_any(j) == TRUE
read_controlled_envelope(j) == Agrees(j, {"envelope"})
replay_rewarded_envelopes(j) == read_controlled_envelope(j) /\ Agrees(j, {"replay"})
replay_frozen_controlled_positive(j) == Agrees(j, {"index", "manifest", "evidence"}) /\ replay_rewarded_envelopes(j)

\* The checks a reader repeats
validate_post_rotation_boundary(doc) == Agrees(doc, {"rotation"})
validate_launch_submission(doc) == Agrees(doc, {"shape"}) /\ validate_post_rotation_boundary(doc)
recompute_swap_safety(doc) == Agrees(doc, {"swap", "rotation"})
recompute_uid_safety(doc) == Agrees(doc, {"registration"}) /\ recompute_swap_safety(doc)
inclusion_block_proven(doc) == Agrees(doc, {"inclusion"})
inclusion_call_proven(doc) == Agrees(doc, {"call", "era", "weights"})
verify_historical_launch(doc) ==
    /\ validate_launch_submission(doc) /\ Agrees(doc, {"vector", "mapping"}) /\ recompute_uid_safety(doc)
    /\ inclusion_block_proven(doc) /\ inclusion_call_proven(doc)
verify_historical_candidates(doc) == Agrees(doc, {"candidates"})
validate_frozen_manifest(doc) == Agrees(doc, {"manifest"})
validate_controlled_replay_result(doc) == Agrees(doc, {"replay"})
verify_frozen_evidence(doc) ==
    /\ Agrees(doc, {"index"}) /\ validate_frozen_manifest(doc) /\ validate_controlled_replay_result(doc)
    /\ verify_historical_candidates(doc) /\ Agrees(doc, {"evidence"})

\* The release document of a request: the checkout and the launch it states.
ReleaseOf(req) == [sha |-> req.sha, wrong |-> req.journal.wrong]
launch_identity_proven(j) ==
    require_launch_state(j) /\ validated_broadcast_intent(j) /\ archive_snapshot(j)
build_release(req) ==
    LET j == read_launch_journal(req)
    IN  /\ launch_identity_proven(j) /\ archive_uid_safety(j) /\ replay_frozen_controlled_positive(j)
        /\ verify_historical_launch(ReleaseOf(req))
\* The signature is deterministic, so a rerun signs the same bytes.
build_signature(req) == ReleaseOf(req)
PayloadOf(req, n) ==
    IF n = "blob" THEN "replay" ELSE IF n = "release" THEN ReleaseOf(req) ELSE build_signature(req)

start_finalizer(p) ==
    /\ finalizer[p].pc = "idle" /\ finalizerRuns < MaxFinalizerRuns
    /\ \E req \in Requests :
        finalizer' = [finalizer EXCEPT ![p] = [pc |-> "prove", req |-> req, step |-> 1]]
    /\ finalizerRuns' = finalizerRuns + 1
    /\ UNCHANGED <<DirVars, ReaderVars, releaseFaults>>

\* Nothing is published before everything is proved; an archive that does not
\* answer fails the run.
prove_launch(p) ==
    /\ finalizer[p].pc = "prove"
    /\ LET req == finalizer[p].req
           proved == /\ require_launcher_context(req) /\ verify_release_checkout(req)
                     /\ build_release(req) /\ verify_frozen_evidence(ReleaseOf(req))
       IN  finalizer' \in {[finalizer EXCEPT ![p] = NoRun]} \cup
                          (IF proved THEN {[finalizer EXCEPT ![p].pc = "enter"]} ELSE {})
    /\ UNCHANGED <<DirVars, ReaderVars, finalizerRuns, releaseFaults>>

-----------------------------------------------------------------------------
\* Publish once

NameAt(p) == Names3[finalizer[p].step]
PcTo(p, pc) == finalizer' = [finalizer EXCEPT ![p].pc = pc]
Quiet == UNCHANGED <<ReaderVars, finalizerRuns, releaseFaults>>

publication_lock(p) ==
    /\ finalizer[p].pc = "enter" /\ pubLock[DirectoryOf(NameAt(p))] = NONE
    /\ pubLock' = [pubLock EXCEPT ![DirectoryOf(NameAt(p))] = p]
    /\ PcTo(p, "examine")
    /\ UNCHANGED <<pubDir, durableDir>> /\ Quiet

\* What an earlier run may have left decides how to go on: the name linked and
\* its stage still there, the name alone, a stage alone, or nothing.
\* Mutant: a name with two links is never trusted.
examine_links_refused(file, payload) ==
    IF file.linked \/ file.final \notin {NONE, payload} THEN "refuse"
    ELSE IF file.final = payload THEN "unstage"
    ELSE IF file.pending = payload /\ file.whole THEN "link"
    ELSE IF file.pending # NONE THEN "restage" ELSE "create"
examine(file, payload) ==
    IF file.final \notin {NONE, payload} THEN "refuse"
    ELSE IF file.final = payload THEN "unstage"
    ELSE IF file.pending = payload /\ file.whole THEN "link"
    ELSE IF file.pending # NONE THEN "restage" ELSE "create"
publish_once_locked(p) ==
    /\ finalizer[p].pc = "examine"
    /\ PcTo(p, examine(pubDir[NameAt(p)], PayloadOf(finalizer[p].req, NameAt(p))))
    /\ UNCHANGED DirVars /\ Quiet
refuse_publication(p) ==
    /\ finalizer[p].pc = "refuse"
    /\ pubLock' = [pubLock EXCEPT ![DirectoryOf(NameAt(p))] = NONE]
    /\ PcTo(p, "refused")
    /\ UNCHANGED <<pubDir, durableDir>> /\ Quiet

SetFile(p, file) == pubDir' = [pubDir EXCEPT ![NameAt(p)] = file]
\* fsync of the directory makes every name in it durable.
\* Mutant: the directory is not synced.
fsync_public_directory_skipped(p, dir) == UNCHANGED durableDir
fsync_public_directory(p, dir) ==
    durableDir' = [n \in PublicNames |-> IF DirectoryOf(n) = DirectoryOf(NameAt(p)) THEN dir[n] ELSE durableDir[n]]
restage(p) ==
    /\ finalizer[p].pc = "restage"
    /\ SetFile(p, [pubDir[NameAt(p)] EXCEPT !.pending = NONE, !.whole = FALSE])
    /\ fsync_public_directory(p, pubDir')
    /\ PcTo(p, "create")
    /\ UNCHANGED pubLock /\ Quiet
create_stage(p) ==
    /\ finalizer[p].pc = "create"
    /\ SetFile(p, [pubDir[NameAt(p)] EXCEPT !.pending = PayloadOf(finalizer[p].req, NameAt(p)), !.whole = FALSE])
    /\ PcTo(p, "write")
    /\ UNCHANGED <<durableDir, pubLock>> /\ Quiet
write_stage(p) ==
    /\ finalizer[p].pc = "write"
    /\ SetFile(p, [pubDir[NameAt(p)] EXCEPT !.whole = TRUE])
    /\ fsync_public_directory(p, pubDir')
    /\ PcTo(p, "link")
    /\ UNCHANGED pubLock /\ Quiet
link_final(p) ==
    /\ finalizer[p].pc = "link"
    /\ SetFile(p, [pubDir[NameAt(p)] EXCEPT !.final = pubDir[NameAt(p)].pending, !.linked = TRUE])
    /\ PcTo(p, "sync")
    /\ UNCHANGED <<durableDir, pubLock>> /\ Quiet
sync_link(p) ==
    /\ finalizer[p].pc = "sync"
    /\ fsync_public_directory(p, pubDir)
    /\ PcTo(p, "unstage")
    /\ UNCHANGED <<pubDir, pubLock>> /\ Quiet
unlink_stage(p) ==
    /\ finalizer[p].pc = "unstage"
    /\ SetFile(p, [pubDir[NameAt(p)] EXCEPT !.pending = NONE, !.whole = FALSE, !.linked = FALSE])
    /\ PcTo(p, "leave")
    /\ UNCHANGED <<durableDir, pubLock>> /\ Quiet
\* The last sync, the lock, and the next name.
leave_publication(p) ==
    /\ finalizer[p].pc = "leave"
    /\ fsync_public_directory(p, pubDir)
    /\ pubLock' = [pubLock EXCEPT ![DirectoryOf(NameAt(p))] = NONE]
    /\ finalizer' = IF finalizer[p].step = 3 THEN [finalizer EXCEPT ![p] = NoRun]
                    ELSE [finalizer EXCEPT ![p].pc = "enter", ![p].step = @ + 1]
    /\ UNCHANGED pubDir /\ Quiet

-----------------------------------------------------------------------------
\* A reproduction: release.json, then its signature, then the chain and the blobs

Writers == <<DirVars, finalizer, finalizerRuns, releaseFaults>>
fetch_release ==
    /\ reader.pc = "idle" /\ releaseReads < MaxReads
    /\ \E rev \in Revisions :
        reader' = [NoReader EXCEPT !.pc = "sig", !.rev = rev, !.release = pubDir["release"].final]
    /\ releaseReads' = releaseReads + 1
    /\ UNCHANGED <<Writers, passed, reconciled>>
fetch_signature ==
    /\ reader.pc = "sig"
    /\ reader' = [reader EXCEPT !.pc = "verify", !.sig = pubDir["sig"].final]
    /\ UNCHANGED <<Writers, passed, reconciled, releaseReads>>

verify_release_bytes(rel, sig, rev) == sig = rel /\ rel.sha = rev /\ validate_launch_submission(rel)
\* What the reader's archive node knows of the launch: it may be unreachable,
\* not have the block, or not have finalized it.
ArchiveNodes == {"down", "behind", "unfinalized", "current"}
reproduction_verdict(rel, sig, rev, node) ==
    IF rel = NONE \/ sig = NONE THEN "NOT_PROVEN"
    ELSE IF ~verify_release_bytes(rel, sig, rev) THEN "FAIL"
    ELSE IF node \in {"down", "behind"} THEN "NOT_PROVEN"
    ELSE IF ~verify_historical_launch(rel) \/ node = "unfinalized" THEN "FAIL"
    ELSE IF pubDir["blob"].final = NONE THEN "NOT_PROVEN"
    ELSE IF ~verify_frozen_evidence(rel) THEN "FAIL" ELSE "PASS"
verify_public_release ==
    /\ reader.pc = "verify"
    /\ \E node \in ArchiveNodes :
        LET v == reproduction_verdict(reader.release, reader.sig, reader.rev, node)
        IN  /\ reader' = [reader EXCEPT !.pc = "done",
                                        !.verdict = IF v = "FAIL" /\ node = "unfinalized" THEN "UNFINALIZED" ELSE v]
            /\ passed' = IF v = "PASS" THEN passed \cup {reader.release} ELSE passed
    /\ UNCHANGED <<Writers, reconciled, releaseReads>>

\* The validator accepts the seal only for the launch of its own journal.
match_signed_public_release_to_launch(rel, j) == rel.wrong = j.wrong /\ j.final
reconcile_release ==
    /\ reader.pc = "done" /\ reader.verdict = "PASS"
    /\ \E req \in Requests :
        /\ match_signed_public_release_to_launch(reader.release, req.journal)
        /\ reconciled' = reader.release
    /\ reader' = NoReader
    /\ UNCHANGED <<Writers, passed, releaseReads>>
end_reproduction ==
    /\ reader.pc = "done"
    /\ reader' = NoReader
    /\ UNCHANGED <<Writers, passed, reconciled, releaseReads>>

\* The status page shows the release only when its signature verifies.
read_signed_release == IF pubDir["sig"].final = pubDir["release"].final THEN pubDir["release"].final ELSE NONE

-----------------------------------------------------------------------------
\* Failures

FinalizerDies(p) ==
    /\ finalizer[p].pc \notin {"idle", "refused"} /\ releaseFaults < MaxReleaseFaults
    /\ finalizer' = [finalizer EXCEPT ![p] = NoRun]
    /\ pubLock' = [d \in DOMAIN pubLock |-> IF pubLock[d] = p THEN NONE ELSE pubLock[d]]
    /\ releaseFaults' = releaseFaults + 1
    /\ UNCHANGED <<pubDir, durableDir, ReaderVars, finalizerRuns>>
\* Each directory comes back as it was, or as of its last sync.
PublicPowerLoss ==
    /\ releaseFaults < MaxReleaseFaults
    /\ \E kept \in SUBSET {"blobs", "root"} :
        pubDir' = [n \in PublicNames |-> IF DirectoryOf(n) \in kept THEN pubDir[n] ELSE durableDir[n]]
    /\ durableDir' = pubDir'
    /\ finalizer' = [p \in Finalizers |-> NoRun]
    /\ pubLock' = [d \in DOMAIN pubLock |-> NONE]
    /\ releaseFaults' = releaseFaults + 1
    /\ UNCHANGED <<ReaderVars, finalizerRuns>>

RelNext ==
    \/ \E p \in Finalizers :
        \/ start_finalizer(p) \/ prove_launch(p) \/ publication_lock(p) \/ publish_once_locked(p)
        \/ refuse_publication(p) \/ restage(p) \/ create_stage(p) \/ write_stage(p) \/ link_final(p)
        \/ sync_link(p) \/ unlink_stage(p) \/ leave_publication(p) \/ FinalizerDies(p)
    \/ fetch_release \/ fetch_signature \/ verify_public_release \/ reconcile_release \/ end_reproduction
    \/ PublicPowerLoss
RelSpec == RelInit /\ [][RelNext]_relVars

-----------------------------------------------------------------------------
\* Properties

RelTypeOK ==
    /\ \A n \in PublicNames : pubDir[n].linked => pubDir[n].final = pubDir[n].pending
    /\ \A p \in Finalizers : finalizer[p].req \in Requests \cup {NONE} /\ finalizer[p].step \in 1 .. 3
    /\ \A d \in DOMAIN pubLock : pubLock[d] \in Finalizers \cup {NONE}
    /\ passed \subseteq {ReleaseOf(req) : req \in Requests}

\* Whatever a crash or a power loss left behind, a run that proved its launch is
\* refused only because other bytes are sealed under the name it came to: the
\* same run, repeated, always gets through.
RerunSucceeds ==
    \A p \in Finalizers :
        finalizer[p].pc = "refuse" => pubDir[NameAt(p)].final \notin {NONE, PayloadOf(finalizer[p].req, NameAt(p))}

\* The public seal is one: every reproduction that ever passed, and the validator
\* that went on because of it, saw the same release, through any power loss, and
\* the status page shows no other.
OneRelease ==
    /\ Cardinality(passed) <= 1
    /\ reconciled # NONE => passed = {reconciled}
    /\ passed # {} /\ read_signed_release # NONE => passed = {read_signed_release}

\* A verdict is right: PASS only for a release that agrees with the chain in
\* every fact, and no FAIL for the release that stands sealed to a reader of its
\* revision.  A node that has the launch but has not finalized it is told apart:
\* it answers FAIL too.
VerdictIsRight ==
    /\ reader.verdict = "PASS" => reader.release.wrong = {}
    /\ reader.verdict = "FAIL" => ~(reader.release = pubDir["release"].final /\ reader.release.sha = reader.rev)

\* The public release: types, repeatable runs, one seal, right verdicts.
RelInv == RelTypeOK /\ RerunSucceeds /\ OneRelease /\ VerdictIsRight
=============================================================================
