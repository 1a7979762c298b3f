------------------------------ MODULE Mechanisms ------------------------------
(***************************************************************************)
(* The mechanism router over three lanes: CyberGym reports, verified SAT   *)
(* work and scores posted under an owner's signature.  A refresh runs the  *)
(* adapter of every artifact lane and stores its vector by UID; compose    *)
(* mixes the stored vectors by their fractions; the bridge composes the    *)
(* CyberGym lane by itself and sends what it could not prove to burn.      *)
(*                                                                         *)
(* A refresh, a preview and an allocation each read the database several   *)
(* times, with the ingest and the poller running between the reads.        *)
(* Fractions are in units of 12, so that a share of up to four is exact.   *)
(*                                                                         *)
(* The CyberGym lane: the ingest of signed reports behind an epoch fence,  *)
(* the verification of a stored report when it is read, and the adapter    *)
(* that turns the newest report into scores by UID.                        *)
(*                                                                         *)
(* A report is one document [epoch, at, scores]; its stored row keeps the  *)
(* authenticated wire body, the normalised body, the header columns, and   *)
(* one row per score.  Rows may later be edited by hand: the read side     *)
(* verifies them against the producer's HMAC.  The metagraph table is      *)
(* filled by a poller outside this code, which leaves the rows of          *)
(* deregistered hotkeys behind.                                            *)
(***************************************************************************)
EXTENDS Integers, FiniteSets, Functions, Absent

----------------------------------------------------------------------------
(* The CyberGym lane                                                        *)

CONSTANTS
    LaneMiners, LaneUids,
    UidMaps,                \* registrations the poller may find: hotkey to UID
    BurnHotkey,             \* configured burn identity
    ProducerDocs,           \* documents the producer signs, and nobody else can
    MarkedEpochs,           \* epochs a shared database keeps a marker for
    LaneMaxAge,             \* oldest report the adapter uses
    FutureSkew,             \* how far ahead a report may be dated
    SnapshotMaxAge,         \* oldest metagraph row that counts as registered
    MaxTotal,               \* largest total of a score vector
    MaxLaneTime, MaxRowEdits, MaxPolls \* bounds
LaneHotkeys == LaneMiners \cup {BurnHotkey}
Epochs == {d.epoch : d \in ProducerDocs}
NoLaneScores == [h \in {} |-> 0]
\* Score vectors over some of S.
ScoresOf(S) ==
    {v \in UNION {[T -> 0..MaxTotal] : T \in SUBSET S} : SumFunctionOnSet(v, DOMAIN v) <= MaxTotal}
ASSUME CyberGymConstants ==
    /\ BurnHotkey \notin LaneMiners /\ IsFiniteSet(LaneMiners) /\ IsFiniteSet(LaneUids) /\ NONE \notin LaneUids
    /\ {LaneMaxAge, FutureSkew, SnapshotMaxAge, MaxRowEdits, MaxPolls, MaxTotal} \subseteq Nat
    /\ MaxLaneTime \in Nat \ {0}
    /\ \A uidOf \in UidMaps : uidOf \in [DOMAIN uidOf -> LaneUids]
    /\ ProducerDocs \subseteq [epoch : Nat, at : Int, complete : BOOLEAN, scores : ScoresOf(LaneMiners)]
    /\ IsFiniteSet(ProducerDocs) /\ NONE \notin ProducerDocs

VARIABLES
    laneNow,
    reports,    \* cybergym_score_reports and cybergym_scores, by epoch
    marks,      \* cybergym_epoch_status, where a deployment shares it
    graph,      \* metagraph_hotkeys: hotkey to [uid, at]
    rowEdits, polls

cyberVars == <<laneNow, reports, marks, graph, rowEdits, polls>>

EpochMax(S) == CHOOSE e \in S : \A f \in S : f <= e
StoredEpochs == {e \in Epochs : reports[e] # NONE}

CyberInit ==
    /\ laneNow = 1
    /\ reports = [e \in Epochs |-> NONE]
    /\ marks = [e \in Epochs |-> IF e \in MarkedEpochs THEN "open" ELSE NONE]
    /\ \E uidOf \in UidMaps :
          graph = [h \in LaneHotkeys |-> IF h \in DOMAIN uidOf THEN [uid |-> uidOf[h], at |-> 1] ELSE NONE]
    /\ rowEdits = 0 /\ polls = 0

----------------------------------------------------------------------------
(* Ingest                                                                   *)

\* Shape, producer and audience are those of every document here; the date
\* and the completeness decide.
validate_report(d) == d.complete /\ d.at - laneNow <= FutureSkew

\* The exact authenticated bytes, the normalised document, its header columns,
\* its score rows and the signature: at intake all of them come from one
\* document.  A row from before the split has no wire body of its own.
bind_authenticated_body(d) == [wire |-> d, json |-> d, head |-> d, rows |-> d.scores, sig |-> d]
raw_body(row) == IF row.wire = NONE THEN row.json ELSE row.wire

\* The advisory lock makes this one transaction per audience: an older epoch
\* and another document for a stored epoch are refused.
epoch_fence(d) == \A e \in StoredEpochs : d.epoch > e

\* A retry of the stored document is idempotent, and completes the split of a
\* legacy row whose bytes still verify.
idempotent_retry(d) ==
    LET row == reports[d.epoch]
    IN  /\ StoredEpochs # {} /\ d.epoch = EpochMax(StoredEpochs)
        /\ row.head = d
        /\ reports' = IF row.wire = NONE /\ row.json = d /\ row.sig = d
                      THEN [reports EXCEPT ![d.epoch].wire = d] ELSE reports
store_report(d) ==
    \/ epoch_fence(d) /\ reports' = [reports EXCEPT ![d.epoch] = bind_authenticated_body(d)]
    \/ idempotent_retry(d)

\* The HMAC is checked on the body before anything is parsed; a delayed or
\* repeated delivery presents an old document again.
post_cybergym_scores(d) ==
    /\ validate_report(d)
    /\ store_report(d)
    /\ UNCHANGED <<laneNow, marks, graph, rowEdits, polls>>

\* Someone with the database, and without the secret, changes one part of a
\* row; or a row is left from before the split.
Forged(d) == [d EXCEPT !.at = laneNow, !.scores = [h \in LaneMiners |-> 2]]
EditRow(e) ==
    /\ reports[e] # NONE /\ rowEdits < MaxRowEdits
    /\ rowEdits' = rowEdits + 1
    /\ \E r \in {[reports[e] EXCEPT !.head = Forged(@)], [reports[e] EXCEPT !.json = Forged(@)],
                 [reports[e] EXCEPT !.rows = Forged(reports[e].json).scores],
                 [reports[e] EXCEPT !.wire = NONE],
                 bind_authenticated_body(Forged(reports[e].json))} :
          reports' = [reports EXCEPT ![e] = r]
    /\ UNCHANGED <<laneNow, marks, graph, polls>>
MarkEpoch(e) ==
    /\ marks[e] = "open"
    /\ marks' = [marks EXCEPT ![e] = "closed"]
    /\ UNCHANGED <<laneNow, reports, graph, rowEdits, polls>>

\* The poller writes the rows of the hotkeys now registered, one per UID; a
\* hotkey that left keeps its old row.
Poll(uidOf) ==
    /\ polls < MaxPolls
    /\ polls' = polls + 1
    /\ graph' = [h \in LaneHotkeys |->
                    IF h \in DOMAIN uidOf THEN [uid |-> uidOf[h], at |-> laneNow] ELSE graph[h]]
    /\ UNCHANGED <<laneNow, reports, marks, rowEdits>>
LaneTick ==
    /\ laneNow < MaxLaneTime
    /\ laneNow' = laneNow + 1
    /\ UNCHANGED <<reports, marks, graph, rowEdits, polls>>

----------------------------------------------------------------------------
(* The read side                                                            *)

latest_complete_report ==
    IF StoredEpochs = {} THEN NONE ELSE reports[EpochMax(StoredEpochs)]

require_closed_epoch(row) == marks[row.head.epoch] \in {NONE, "closed"}

report_fresh(row, now) ==
    /\ row.head.at - now <= FutureSkew
    /\ now - row.head.at <= LaneMaxAge

verify_body_hmac(body, sig) == sig = body /\ body \in ProducerDocs
\* Mutant: the columns read beside the body are not compared with it.
verify_stored_report_body(row, rows) ==
    /\ verify_body_hmac(raw_body(row), row.sig)
    /\ row.wire # NONE => row.json = row.wire
    /\ rows = raw_body(row).scores
\* The authenticated body, under the HMAC, is the one truth; normalised body,
\* columns and score rows are compared with it.
verify_stored_report(row, rows) ==
    LET document == raw_body(row)
    IN  /\ verify_body_hmac(document, row.sig)
        /\ row.wire # NONE => row.json = document
        /\ row.head = document
        /\ rows = document.scores

\* hotkey to uid: a plain read of the table, whatever the age of a row
load_hotkey_to_uid == [h \in {k \in LaneHotkeys : graph[k] # NONE} |-> graph[h].uid]

\* Scores by UID of the verified document: zero and unmapped hotkeys drop out.
uid_vector(scores) ==
    LET paid == {h \in DOMAIN scores : scores[h] > 0 /\ h \in DOMAIN load_hotkey_to_uid}
        at(u) == {h \in paid : load_hotkey_to_uid[h] = u}
    IN  [u \in {load_hotkey_to_uid[h] : h \in paid} |-> SumFunctionOnSet(scores, at(u))]

\* Registered: the row was written within the window.  One empty snapshot
\* stands for "unavailable".
load_fresh_metagraph_hotkeys(now) ==
    {h \in LaneHotkeys : graph[h] # NONE /\ now - graph[h].at <= SnapshotMaxAge}
eligible_uids(now) == {graph[h].uid : h \in load_fresh_metagraph_hotkeys(now)}

\* By hotkey, through the fresh snapshot, and back: no other row has the UID.
resolve_burn_destination(now) ==
    IF BurnHotkey \in load_fresh_metagraph_hotkeys(now)
          /\ \A h \in LaneMiners : graph[h] # NONE => graph[h].uid # graph[BurnHotkey].uid
    THEN graph[BurnHotkey].uid
    ELSE NONE

----------------------------------------------------------------------------
(* The router                                                               *)

CONSTANTS
    LaneWorkers,
    LaneConfigs,        \* lane to [enabled, fraction, owner], the allocation table
    SatTotals,          \* verified SAT totals by hotkey
    LanePosts,          \* vectors the owner of the posted lane may sign
    ComposeMaxAge,      \* staleness ceiling at compose time
    MaxCycles           \* bound
Lanes == {"cybergym_v0", "posted", "sat_v2"}
\* The code splits a fraction in floating point; here it is counted in units
\* that every total of scores divides, so that a share is exact.
ASSUME MechanismConstants ==
    /\ {ComposeMaxAge, MaxCycles} \subseteq Nat
    /\ \A t \in LaneConfigs : DOMAIN t = Lanes /\ \A l \in Lanes :
          /\ t[l].enabled \in BOOLEAN /\ t[l].fraction \in Nat
          /\ \A n \in 1..MaxTotal : t[l].fraction % n = 0
    /\ SatTotals \in ScoresOf(LaneMiners) /\ \A p \in LanePosts : p.vec \in ScoresOf(LaneUids)

VARIABLES
    specs,      \* mechanism_specs
    laneScores, \* mechanism_scores: the last vector of every lane
    worker,     \* the cycle a worker is in
    allocation, \* the last result of the bridge
    preview,    \* the last artifact of set_weights
    cycles
mechVars == <<cyberVars, specs, laneScores, worker, allocation, preview, cycles>>
mechOwn == <<specs, laneScores, worker, allocation, preview, cycles>>

NoVector == [u \in {} |-> 0]
LaneIdle == [pc |-> "idle", kind |-> NONE, now |-> 0, specs |-> NONE, row |-> NONE, rows |-> NONE, entry |-> NONE]
NoAllocation == [status |-> "none", weights |-> NoVector, specs |-> NONE, lane |-> NoVector,
                 doc |-> NONE, burn |-> NONE, now |-> 0]

MechInit ==
    /\ CyberInit
    /\ specs \in LaneConfigs
    /\ laneScores = [l \in Lanes |-> NONE]
    /\ worker = [w \in LaneWorkers |-> LaneIdle]
    /\ allocation = NoAllocation /\ preview = NONE /\ cycles = 0

score_entry(vec, at, sig_ok, doc) == [vec |-> vec, at |-> at, sigOk |-> sig_ok, doc |-> doc]

----------------------------------------------------------------------------
(* Intake of a posted vector, and the allocation table                      *)

\* Only the owner of the lane, with a valid signature; an old post presented
\* again replaces a newer one.
post_scores(p) ==
    /\ specs["posted"].owner = p.owner
    /\ laneScores' = [laneScores EXCEPT !["posted"] = score_entry(p.vec, p.at, TRUE, NONE)]
    /\ UNCHANGED <<specs, worker, allocation, preview, cycles>>
upsert_mechanism(l, row) ==
    /\ specs[l] # row
    /\ specs' = [specs EXCEPT ![l] = row]
    /\ UNCHANGED <<laneScores, worker, allocation, preview, cycles>>

----------------------------------------------------------------------------
(* compose, over an allocation table t                                      *)

lane_active(t, l) == t[l].enabled /\ t[l].fraction > 0

\* What the lane may pay: registered UIDs with a positive score, its owner's
\* own UID left out.
lane_filtered(t, l, entry, registered) ==
    Restrict(entry.vec, {u \in DOMAIN entry.vec \cap registered : entry.vec[u] > 0 /\ u # t[l].ownerUid})
\* max_score_age_ms is a parameter; the bridge leaves it out.
lane_usable(t, l, entry, registered, maxAge) ==
    /\ entry # NONE
    /\ entry.sigOk
    /\ maxAge # NONE => laneNow - entry.at <= maxAge
    /\ DOMAIN lane_filtered(t, l, entry, registered) # {}

\* A contributing lane keeps exactly its fraction, split by score; the fraction
\* of an active lane that did not contribute is forfeited.
Share(t, l, entry, registered) ==
    LET f == lane_filtered(t, l, entry, registered)
    IN  [u \in DOMAIN f |-> (t[l].fraction * f[u]) \div SumFunctionOnSet(f, DOMAIN f)]
ActiveFraction(t, S) == SumFunctionOnSet([l \in Lanes |-> t[l].fraction], {l \in S : lane_active(t, l)})
\* Mutant: the fraction of a lane without scores is given to the others.
compose_renormalized(t, entries, registered, maxAge) ==
    LET paying == {l \in Lanes : lane_active(t, l) /\ lane_usable(t, l, entries[l], registered, maxAge)}
        mass == ActiveFraction(t, paying)
        uids == UNION {DOMAIN lane_filtered(t, l, entries[l], registered) : l \in paying}
        at(u) == {l \in paying : u \in DOMAIN lane_filtered(t, l, entries[l], registered)}
    IN  [weights |-> [u \in uids |->
            (ActiveFraction(t, Lanes) * SumFunctionOnSet([l \in at(u) |-> Share(t, l, entries[l], registered)[u]], at(u))) \div mass],
         forfeited |-> IF paying = {} THEN ActiveFraction(t, Lanes) ELSE 0, paying |-> paying]
compose(t, entries, registered, maxAge) ==
    LET paying == {l \in Lanes : lane_active(t, l) /\ lane_usable(t, l, entries[l], registered, maxAge)}
        uids == UNION {DOMAIN lane_filtered(t, l, entries[l], registered) : l \in paying}
        at(u) == {l \in paying : u \in DOMAIN lane_filtered(t, l, entries[l], registered)}
    IN  [weights |-> [u \in uids |->
            SumFunctionOnSet([l \in at(u) |-> Share(t, l, entries[l], registered)[u]], at(u))],
         forfeited |-> ActiveFraction(t, Lanes \ paying), paying |-> paying]
\* The gate cannot be skipped: the registered UIDs are read here.
compose_eligible(t, entries, now, maxAge) == compose(t, entries, eligible_uids(now), maxAge)

----------------------------------------------------------------------------
(* A cycle of a worker: a refresh, a preview (refresh, compose, set_weights) *)
(* or an allocation by the bridge                                            *)

WorkerIs(w, pc) == worker[w].pc = pc
SetWorker(w, rec) == worker' = [worker EXCEPT ![w] = rec]
LeaveReads == UNCHANGED <<specs, laneScores, allocation, preview, cycles>>

\* The bridge returns at once when its lane is off; a refresh skips it.
StartCycle(w, kind) ==
    /\ WorkerIs(w, "idle") /\ cycles < MaxCycles
    /\ cycles' = cycles + 1
    /\ IF kind = "allocate" /\ ~lane_active(specs, "cybergym_v0")
       THEN /\ allocation' = [NoAllocation EXCEPT !.status = "disabled"]
            /\ UNCHANGED worker
       ELSE /\ SetWorker(w, [LaneIdle EXCEPT !.kind = kind, !.now = laneNow, !.specs = specs,
                                 !.pc = IF specs["cybergym_v0"].enabled THEN "header" ELSE "put"])
            /\ UNCHANGED allocation
    /\ UNCHANGED <<specs, laneScores, preview>>

\* The report header, the closed-epoch marker and the age.  A marker that says
\* "open" raises: the refresh skips the lane, the bridge fails as a whole.
ReadHeader(w) ==
    LET row == latest_complete_report
        rec == worker[w]
        Empty(at, sig) == [rec EXCEPT !.pc = "put", !.entry = score_entry(NoVector, at, sig, NONE)]
    IN  /\ WorkerIs(w, "header")
        /\ SetWorker(w, IF row = NONE THEN Empty(0, FALSE)
                        ELSE IF ~require_closed_epoch(row)
                             THEN IF rec.kind = "allocate" THEN LaneIdle ELSE [rec EXCEPT !.pc = "put"]
                        ELSE IF ~report_fresh(row, rec.now) THEN Empty(row.head.at, TRUE)
                        ELSE [rec EXCEPT !.pc = "rows", !.row = row])
        /\ LeaveReads
\* The score rows of that report, by its id; then the verification.
ReadRows(w) ==
    LET rec == worker[w]
        e == rec.row.head.epoch
        rows == IF reports[e] = NONE THEN NoLaneScores ELSE reports[e].rows
    IN  /\ WorkerIs(w, "rows")
        /\ SetWorker(w, IF verify_stored_report(rec.row, rows)
                        THEN [rec EXCEPT !.pc = "map", !.rows = rows]
                        ELSE [rec EXCEPT !.pc = "put", !.entry = score_entry(NoVector, rec.row.head.at, FALSE, NONE)])
        /\ LeaveReads
cybergym_score_snapshot(w) ==
    LET rec == worker[w]
    IN  /\ WorkerIs(w, "map")
        /\ SetWorker(w, [rec EXCEPT !.pc = "put",
               !.entry = score_entry(uid_vector(rec.rows), rec.row.head.at, TRUE, raw_body(rec.row))])
        /\ LeaveReads

\* A lane whose adapter raised keeps its old vector.
sat_mechanism_scores == score_entry(uid_vector(SatTotals), laneNow, TRUE, NONE)
refresh_artifact_scores(entry) ==
    [laneScores EXCEPT !["cybergym_v0"] = IF entry = NONE THEN @ ELSE entry,
                       !["sat_v2"] = IF specs["sat_v2"].enabled THEN sat_mechanism_scores ELSE @]
PutScores(w) ==
    /\ WorkerIs(w, "put") /\ worker[w].kind # "allocate"
    /\ laneScores' = refresh_artifact_scores(worker[w].entry)
    /\ SetWorker(w, IF worker[w].kind = "refresh" THEN LaneIdle ELSE [worker[w] EXCEPT !.pc = "compose"])
    /\ UNCHANGED <<specs, allocation, preview, cycles>>

\* The artifact lists the positive weights.  set_weights refuses any target but
\* a testnet before it builds one, and never broadcasts.
build_weight_artifact(weights) == Restrict(weights, {u \in DOMAIN weights : weights[u] > 0})
set_weights(testnet, weights) == IF testnet THEN build_weight_artifact(weights) ELSE preview
compose_and_publish(w) ==
    /\ WorkerIs(w, "compose")
    /\ \E testnet \in BOOLEAN :
          preview' = set_weights(testnet, compose_eligible(specs, laneScores, laneNow, ComposeMaxAge).weights)
    /\ SetWorker(w, LaneIdle)
    /\ UNCHANGED <<specs, laneScores, allocation, cycles>>

\* The bridge: the CyberGym vector just read with the other lanes given by the
\* caller; what is forfeited goes to the burn identity or nothing is allocated.
cybergym_allocation(w) ==
    LET now == worker[w].now
        entry == worker[w].entry
        mine == IF DOMAIN entry.vec = {} THEN NONE ELSE entry
        c == compose_eligible(worker[w].specs, [laneScores EXCEPT !["cybergym_v0"] = mine], now, NONE)
        burn == resolve_burn_destination(now)
        base == [NoAllocation EXCEPT !.now = now, !.specs = worker[w].specs]
        proven == IF "cybergym_v0" \notin c.paying THEN base
                  ELSE [base EXCEPT !.doc = mine.doc, !.lane = lane_filtered(base.specs, "cybergym_v0", mine, eligible_uids(now))]
    IN  /\ WorkerIs(w, "put") /\ worker[w].kind = "allocate"
        /\ allocation' =
              IF c.forfeited = 0 THEN [proven EXCEPT !.status = "ok", !.weights = c.weights]
              ELSE IF burn = NONE THEN [base EXCEPT !.status = "burn_destination_unresolved"]
              ELSE [proven EXCEPT !.status = "ok", !.burn = burn,
                       !.weights = [u \in DOMAIN c.weights \cup {burn} |->
                           (IF u \in DOMAIN c.weights THEN c.weights[u] ELSE 0)
                             + (IF u = burn THEN c.forfeited ELSE 0)]]
        /\ SetWorker(w, LaneIdle)
        /\ UNCHANGED <<specs, laneScores, preview, cycles>>

MechOwnNext ==
    \/ \E p \in LanePosts : post_scores(p)
    \/ \E l \in Lanes : \E config \in LaneConfigs : upsert_mechanism(l, config[l])
    \/ \E w \in LaneWorkers :
          \/ \E kind \in {"refresh", "publish", "allocate"} : StartCycle(w, kind)
          \/ ReadHeader(w) \/ ReadRows(w) \/ cybergym_score_snapshot(w) \/ PutScores(w)
          \/ compose_and_publish(w) \/ cybergym_allocation(w)
CyberNext ==
    \/ \E d \in ProducerDocs : post_cybergym_scores(d)
    \/ \E e \in Epochs : EditRow(e) \/ MarkEpoch(e)
    \/ \E uidOf \in UidMaps : Poll(uidOf)
    \/ LaneTick
MechNext ==
    \/ MechOwnNext /\ UNCHANGED cyberVars
    \/ CyberNext /\ UNCHANGED mechOwn

----------------------------------------------------------------------------
(* Properties                                                               *)

MechTypeOK ==
    /\ laneNow \in 1..MaxLaneTime
    /\ \A l \in Lanes : laneScores[l] = NONE \/ DOMAIN laneScores[l].vec \subseteq LaneUids
    /\ DOMAIN allocation.weights \subseteq LaneUids

\* The CyberGym fraction is paid on a proven document or burnt: an allocation
\* adds up to the fractions of the active lanes, and when the lane proved
\* nothing its whole fraction is on the UID of the burn hotkey, none of it with
\* the lanes that did contribute (cybergym_bridge, mechanism_router.compose).
UnprovenShareBurns ==
    allocation.status = "ok" =>
        LET active == {l \in Lanes : allocation.specs[l].enabled}
            fraction == [l \in Lanes |-> allocation.specs[l].fraction]
        IN  /\ SumFunctionOnSet(allocation.weights, DOMAIN allocation.weights) = SumFunctionOnSet(fraction, active)
            /\ allocation.doc = NONE => /\ allocation.burn # NONE
                                        /\ allocation.weights[allocation.burn] >= fraction["cybergym_v0"]

\* What the bridge pays for CyberGym is one complete document that the producer
\* signed, within the age the adapter allows at the time of the call, however
\* the rows of the database were edited and whatever was ingested or edited
\* between the reads.
PaidIsAuthenticated ==
    DOMAIN allocation.lane # {} =>
        /\ allocation.doc \in ProducerDocs /\ allocation.doc.complete
        /\ allocation.now - allocation.doc.at \in -FutureSkew..LaneMaxAge

\* Mechanism lanes: types, unproven shares burn, paid documents are authentic.
MechInv == MechTypeOK /\ UnprovenShareBurns /\ PaidIsAuthenticated
=============================================================================
