--------------------------- MODULE ProvenanceAudit ---------------------------
(***************************************************************************)
(* The validator's provenance audits and the durable line of evidence they *)
(* reserve.  An audit fetches the signed index, verifies the newest        *)
(* manifest against the state it was started with, walks the signed recent *)
(* list when epochs were missed, asks an archive node about the anchored   *)
(* block and replays the controlled evidence.                              *)
(*                                                                         *)
(* A shadow validator runs one audit at a time on a background thread and  *)
(* reports it on a later tick; an authority validator audits inside its    *)
(* tick and reserves before it announces.  Validators share a state file;  *)
(* the evidence host may serve any index it ever signed.                   *)
(***************************************************************************)
EXTENDS Naturals, Sequences, SequencesExt, Absent

CONSTANTS
    Auditors,           \* validator processes on one state file
    AuditConfs,         \* their configurations: [mode, pins, controlled] per process
    Manifests,          \* id -> [epoch, report, prev, release, digest]
    SignedIndexes,      \* what the evidence host may serve: [latest, recent, wrong]
    FirstReserved,      \* the manifest reserved when the model starts, or NONE
    MaxRecentWalk, ChainLookupSlotCap,      \* MAX_RECENT_WALK, CHAIN_LOOKUP_SLOT_CAP
    MaxAudits, MaxAuditDeaths               \* bounds

ASSUME AuditConstants ==
    /\ \A conf \in AuditConfs : \A p \in Auditors :
          conf[p].mode \in {"authority", "shadow", "once"} /\ conf[p].controlled \in BOOLEAN
    /\ \A m \in DOMAIN Manifests : {Manifests[m].epoch, Manifests[m].release} \subseteq Nat
    /\ FirstReserved \in DOMAIN Manifests \cup {NONE}
    /\ \A idx \in SignedIndexes : idx.latest \in DOMAIN Manifests
    /\ {ChainLookupSlotCap, MaxAudits, MaxAuditDeaths} \subseteq Nat
ASSUME NoAuditIsNone == NONE \notin DOMAIN Manifests /\ NONE \notin Auditors

VARIABLES
    auditConf,      \* the configuration of each process
    reserved,       \* the reserved manifest of the state file, or NONE
    tickLock,       \* the process inside a tick, or NONE
    main,           \* p -> the main thread: [pc, drained]
    audit,          \* p -> the audit in flight: [pc, n, snap, idx]
    results,        \* p -> _ShadowAuditor._results
    abandoned,      \* p -> lookup threads that outlived their audit, each with its slot
    completed,      \* p -> audits that have ended
    reported,       \* p -> the audits reported, in order
    reservations, announced, attempts,      \* histories
    auditDeaths

auditVars == <<auditConf, reserved, tickLock, main, audit, results, abandoned, completed, reported,
               reservations, announced, attempts, auditDeaths>>
Durable == <<reserved, reservations>>
Threads == <<audit, results, abandoned, completed>>

NoAudit == [pc |-> "none", n |-> 0, snap |-> NONE, idx |-> NONE]
Unoccupied == [pc |-> "idle", drained |-> <<>>]
Mode(p) == auditConf[p].mode
Of(m) == Manifests[m]

-----------------------------------------------------------------------------
\* Configuration and transport

\* Missing pins prove nothing; authority without every immutable pin, or with
\* private hosts, is refused.
validate_for_audit(conf) ==
    CASE conf.pins = "missing" -> "NOT_PROVEN"
      [] conf.pins # "missing" /\ conf.mode = "authority"
            /\ (conf.pins # "immutable" \/ ~conf.controlled) -> "FAIL"
      [] OTHER -> "PASS"

\* Every validated address is tried in order under one deadline; only a transport
\* failure moves on, and any answer is final.
fetch(answers) ==
    LET final == {a \in DOMAIN answers : answers[a] # "transport"}
    IN  IF final = {} THEN "transport" ELSE answers[CHOOSE a \in final : \A b \in final : a <= b]
\* The host resolved, inside the audit's deadline and a bounded resolver pool, to public
\* addresses only; each blob has the digest it was asked for by.
load_evidence(resolved, answers) == resolved /\ fetch(answers) = "bytes"

-----------------------------------------------------------------------------
\* What an audit verifies, against the state it was started with

\* A lower epoch never verifies, nor the same epoch with another manifest.
index_fence(snap, m) ==
    snap # NONE => \/ Of(m).epoch > Of(snap).epoch
                   \/ m = snap
policy_fence(snap, m) ==
    snap # NONE => \/ Of(m).release > Of(snap).release
                   \/ Of(m).release = Of(snap).release /\ Of(m).digest = Of(snap).digest
check_chain_state(snap, m) ==
    snap # NONE => \/ Of(m).epoch > Of(snap).epoch
                   \/ Of(m).epoch = Of(snap).epoch /\ Of(m).report = Of(snap).report

\* The missed epochs, in order: each cites its predecessor and keeps the policy line.
recent_rows(snap, idx) ==
    SetToSortSeq({m \in idx.recent : Of(snap).epoch < Of(m).epoch /\ Of(m).epoch < Of(idx.latest).epoch},
                 LAMBDA a, b : Of(a).epoch < Of(b).epoch)
bridge_link(last, m) ==
    IF last # NONE /\ Of(m).prev = Of(last).report /\ policy_fence(last, m) THEN m ELSE NONE
verify_recent_chain_bridge(snap, idx) ==
    LET rows == recent_rows(snap, idx)
        tip  == FoldLeft(bridge_link, snap, rows)
    IN  /\ Len(rows) \in 1 .. MaxRecentWalk
        /\ idx.wrong # "link"       \* a missing blob, a bad signature or timestamp in a link
        /\ tip # NONE /\ Of(idx.latest).prev = Of(tip).report
\* Predecessor continuity: the report cites the last one audited, or the recent list bridges.
continuity(snap, idx) ==
    \/ snap = NONE \/ Of(idx.latest).epoch <= Of(snap).epoch
    \/ Of(idx.latest).prev = Of(snap).report
    \/ verify_recent_chain_bridge(snap, idx)

\* Index signature and age, manifest identity and pins, keys, registry, receipts.
verify_manifest(snap, idx) ==
    /\ idx.wrong # "index" /\ index_fence(snap, idx.latest)
    /\ idx.wrong # "manifest" /\ policy_fence(snap, idx.latest)
verify_and_recompute(idx) == idx.wrong # "report"

\* The verdict of an audit that has no question left.
Verdict(p, status, full) ==
    [n |-> audit[p].n, status |-> status, full |-> full,
     agrees |-> status = "PASS" => audit[p].idx.wrong # "vector",
     m |-> IF status = "PASS" THEN audit[p].idx.latest ELSE NONE]
\* Raw replay of every positive miner; a candidate without negative evidence keeps
\* the epoch at receipts only.
replay_positive_miners(idx) == idx.wrong # "negative"
compare_with_vector(snap, idx) == check_chain_state(snap, idx.latest)

-----------------------------------------------------------------------------
\* The audit in flight: on the main thread of an authority, on a background
\* thread of a shadow validator

\* Queued (never assigned) for the next drain; an authority tick waits for it.
\* Mutant: the newest result replaces an unreported one.
queue_result_last(p, v) == <<v>>
queue_result(p, v) == Append(results[p], v)

Ends(p, v) ==
    /\ audit' = [audit EXCEPT ![p] = NoAudit]
    /\ completed' = [completed EXCEPT ![p] = @ + 1]
    /\ IF Mode(p) = "authority"
         THEN main' = [main EXCEPT ![p] = [pc |-> "judge", drained |-> <<v>>]] /\ UNCHANGED results
         ELSE results' = [results EXCEPT ![p] = queue_result(p, v)] /\ UNCHANGED main

Asks(p, question) ==
    /\ audit' = [audit EXCEPT ![p].pc = question]
    /\ UNCHANGED <<completed, main, results>>

\* run_audit up to the recomputation and the chain walk.
Fetch(p, idx, resolved, answers) ==
    LET conf == validate_for_audit(auditConf[p])
        snap == audit[p].snap
        seen == [audit EXCEPT ![p].idx = idx]
        sound == /\ load_evidence(resolved, answers)
                 /\ verify_manifest(snap, idx) /\ verify_and_recompute(idx) /\ continuity(snap, idx)
    IN  /\ audit[p].pc = "fetch"
        /\ UNCHANGED <<auditConf, tickLock, abandoned, reported, Durable, announced, attempts,
                       auditDeaths>>
        /\ \/ /\ conf # "PASS" /\ Ends(p, Verdict(p, conf, FALSE))
           \/ /\ conf = "PASS" /\ ~sound
              /\ Ends(p, Verdict(p, "FAIL", FALSE))
           \/ /\ conf = "PASS" /\ sound
              /\ audit' = [seen EXCEPT ![p].pc = IF auditConf[p].controlled THEN "controlled" ELSE "close"]
              /\ UNCHANGED <<completed, main, results>>

\* The controlled package: an envelope for every verified miner, the verifier, archive access.
Controlled(p) ==
    /\ audit[p].pc = "controlled"
    /\ UNCHANGED <<auditConf, tickLock, abandoned, reported, Durable, announced, attempts, auditDeaths>>
    /\ \/ audit[p].idx.wrong = "envelope" /\ Ends(p, Verdict(p, "NOT_PROVEN", FALSE))
       \/ audit[p].idx.wrong # "envelope" /\ Asks(p, "hash")

\* A lookup of the archive node holds a slot until its thread returns, even when the
\* audit has stopped waiting for it.
lookup_slot_free(p) == abandoned[p] < ChainLookupSlotCap
NextQuestion(p) == IF audit[p].pc = "hash" THEN "candidates" ELSE "close"

\* The finalized hash, then the historical candidate set: NONE is unavailable.
LookupAnswers(p, answer) ==
    /\ audit[p].pc \in {"hash", "candidates"} /\ lookup_slot_free(p)
    /\ UNCHANGED <<auditConf, tickLock, abandoned, reported, Durable, announced, attempts, auditDeaths>>
    /\ \/ answer = "equal" /\ Asks(p, NextQuestion(p))
       \/ answer = "different" /\ Ends(p, Verdict(p, "FAIL", FALSE))
       \/ answer = NONE /\ Ends(p, Verdict(p, "NOT_PROVEN", FALSE))

\* The deadline passes, or no slot comes free.
LookupGivesUp(p) ==
    /\ audit[p].pc \in {"hash", "candidates"}
    /\ abandoned' = [abandoned EXCEPT ![p] = IF lookup_slot_free(p) THEN @ + 1 ELSE @]
    /\ Ends(p, Verdict(p, "NOT_PROVEN", FALSE))
    /\ UNCHANGED <<auditConf, tickLock, reported, Durable, announced, attempts, auditDeaths>>

LookupReturns(p) ==
    /\ abandoned[p] > 0
    /\ abandoned' = [abandoned EXCEPT ![p] = @ - 1]
    /\ UNCHANGED <<auditConf, tickLock, main, audit, results, completed, reported, Durable, announced,
                   attempts, auditDeaths>>

Close(p) ==
    /\ audit[p].pc = "close"
    /\ Ends(p, IF compare_with_vector(audit[p].snap, audit[p].idx)
                 THEN Verdict(p, "PASS", auditConf[p].controlled /\ replay_positive_miners(audit[p].idx))
                 ELSE Verdict(p, "FAIL", FALSE))
    /\ UNCHANGED <<auditConf, tickLock, abandoned, reported, Durable, announced, attempts, auditDeaths>>

-----------------------------------------------------------------------------
\* The reservation

\* Mutant: the same epoch may be reserved again with another manifest or report.
write_state_fenced_epochs(now, m) ==
    now = NONE \/ (Of(m).epoch >= Of(now).epoch /\ Of(m).release >= Of(now).release)
\* One hold of the state lock: the index, policy and report lines only move forward.
write_state_fenced(now, m) ==
    \/ now = NONE
    \/ /\ Of(m).epoch > Of(now).epoch \/ m = now
       /\ \/ Of(m).release > Of(now).release
          \/ Of(m).release = Of(now).release /\ Of(m).digest = Of(now).digest

Reserve(m) == reserved' = m /\ reservations' = Append(reservations, m)
Announce(p, m) == announced' = announced \cup {m}

-----------------------------------------------------------------------------
\* The shadow validator

Enters(p) == main[p].pc = "idle" /\ tickLock = NONE /\ tickLock' = p

\* Every completed result, exactly once.
Drain(p) ==
    /\ Mode(p) # "authority" /\ Enters(p)
    /\ main' = [main EXCEPT ![p] = [pc |-> "log", drained |-> results[p]]]
    /\ results' = [results EXCEPT ![p] = <<>>]
    /\ UNCHANGED <<auditConf, audit, abandoned, completed, reported, Durable, announced, attempts,
                   auditDeaths>>

\* A mismatch or a partial audit is announced as such and reserves nothing; a PASS
\* reserves first, and a refused reservation is reported as stale.
log_audit_events(p, v) ==
    /\ reported' = [reported EXCEPT ![p] = Append(@, v.n)]
    /\ \/ /\ v.status = "PASS" /\ v.agrees /\ v.full /\ write_state_fenced(reserved, v.m)
          /\ Reserve(v.m) /\ Announce(p, v.m)
       \/ /\ ~(v.status = "PASS" /\ v.agrees /\ v.full /\ write_state_fenced(reserved, v.m))
          /\ UNCHANGED <<Durable, announced>>

LogOne(p) ==
    /\ main[p].pc \in {"log", "log_once"} /\ main[p].drained # <<>>
    /\ log_audit_events(p, Head(main[p].drained))
    /\ main' = [main EXCEPT ![p].drained = Tail(@)]
    /\ UNCHANGED <<auditConf, tickLock, Threads, attempts, auditDeaths>>

\* A new audit on the state of this moment, unless one is in flight.
Submit(p) ==
    /\ main[p].pc = "log" /\ main[p].drained = <<>>
    /\ audit' = IF audit[p].pc = "none" /\ completed[p] < MaxAudits
                  THEN [audit EXCEPT ![p] = [pc |-> "fetch", n |-> completed[p] + 1, snap |-> reserved,
                                             idx |-> NONE]]
                  ELSE audit
    /\ main' = [main EXCEPT ![p] = [Unoccupied EXCEPT !.pc = IF Mode(p) = "once" THEN "wait" ELSE "idle"]]
    /\ tickLock' = NONE
    /\ UNCHANGED <<auditConf, results, abandoned, completed, reported, Durable, announced, attempts,
                   auditDeaths>>

\* A --once run waits for its audit, at most the audit's deadline, and reports
\* it after the tick, outside the tick's lock; then it exits.
DrainOnce(p) ==
    /\ main[p].pc = "wait"
    /\ main' = [main EXCEPT ![p] = [pc |-> "log_once", drained |-> results[p]]]
    /\ results' = [results EXCEPT ![p] = <<>>]
    /\ UNCHANGED <<auditConf, tickLock, audit, abandoned, completed, reported, Durable, announced,
                   attempts, auditDeaths>>

-----------------------------------------------------------------------------
\* The authority validator

AuthorityTick(p) ==
    /\ Mode(p) = "authority" /\ Enters(p) /\ completed[p] < MaxAudits
    /\ main' = [main EXCEPT ![p].pc = "audit"]
    /\ audit' = [audit EXCEPT ![p] = [pc |-> "fetch", n |-> completed[p] + 1, snap |-> reserved,
                                      idx |-> NONE]]
    /\ UNCHANGED <<auditConf, results, abandoned, completed, reported, Durable, announced, attempts,
                   auditDeaths>>

Judged(p) == Head(main[p].drained)
Leaves(p) == main' = [main EXCEPT ![p] = Unoccupied] /\ tickLock' = NONE

\* RESERVE FIRST: a refused reservation ends the tick before any success is visible.
AuthorityReserve(p) ==
    /\ main[p].pc = "judge"
    /\ UNCHANGED <<auditConf, Threads, announced, attempts, auditDeaths>>
    /\ \/ /\ Judged(p).status = "PASS" /\ Judged(p).full /\ write_state_fenced(reserved, Judged(p).m)
          /\ Reserve(Judged(p).m)
          /\ main' = [main EXCEPT ![p].pc = "announce"]
          /\ UNCHANGED <<tickLock, reported>>
       \/ /\ ~(Judged(p).status = "PASS" /\ Judged(p).full /\ write_state_fenced(reserved, Judged(p).m))
          /\ reported' = [reported EXCEPT ![p] = Append(@, Judged(p).n)]
          /\ Leaves(p)
          /\ UNCHANGED Durable

AuthorityAnnounce(p) ==
    /\ main[p].pc = "announce"
    /\ reported' = [reported EXCEPT ![p] = Append(@, Judged(p).n)]
    /\ \/ Judged(p).agrees /\ Announce(p, Judged(p).m)
       \/ ~Judged(p).agrees /\ UNCHANGED announced
    /\ main' = [main EXCEPT ![p].pc = "bind"]
    /\ UNCHANGED <<auditConf, tickLock, Threads, Durable, attempts, auditDeaths>>

\* The attempt: the weights this audit recomputed, with the evidence identity read back
\* from the state file.
AuthorityBind(p) ==
    /\ main[p].pc = "bind"
    /\ attempts' = attempts \cup {[weights |-> Judged(p).m, evidence |-> reserved]}
    /\ Leaves(p)
    /\ UNCHANGED <<auditConf, Threads, reported, Durable, announced, auditDeaths>>

Dies(p) ==
    /\ auditDeaths < MaxAuditDeaths
    /\ auditDeaths' = auditDeaths + 1
    /\ main' = [main EXCEPT ![p] = Unoccupied]
    /\ audit' = [audit EXCEPT ![p] = NoAudit]
    /\ results' = [results EXCEPT ![p] = <<>>]
    /\ abandoned' = [abandoned EXCEPT ![p] = 0]
    /\ completed' = [completed EXCEPT ![p] = 0] /\ reported' = [reported EXCEPT ![p] = <<>>]
    /\ tickLock' = IF tickLock = p THEN NONE ELSE tickLock
    /\ UNCHANGED <<auditConf, Durable, announced, attempts>>

-----------------------------------------------------------------------------
AuditInit ==
    /\ auditConf \in AuditConfs
    /\ reserved = FirstReserved
    /\ tickLock = NONE
    /\ main = [p \in Auditors |-> Unoccupied]
    /\ audit = [p \in Auditors |-> NoAudit]
    /\ results = [p \in Auditors |-> <<>>]
    /\ abandoned = [p \in Auditors |-> 0]
    /\ completed = [p \in Auditors |-> 0]
    /\ reported = [p \in Auditors |-> <<>>]
    /\ reservations = <<>> /\ announced = {} /\ attempts = {}
    /\ auditDeaths = 0

Answers == {<<"transport", "bytes">>, <<"status", "bytes">>, <<"transport", "transport">>}

AuditStep(p) ==
    \/ \E idx \in SignedIndexes, answers \in Answers, resolved \in BOOLEAN :
          Fetch(p, idx, resolved, answers)
    \/ Controlled(p)
    \/ \E answer \in {"equal", "different", NONE} : LookupAnswers(p, answer)
    \/ LookupGivesUp(p) \/ LookupReturns(p) \/ Close(p)
MainStep(p) ==
    \/ Drain(p) \/ LogOne(p) \/ Submit(p) \/ DrainOnce(p)
    \/ AuthorityTick(p) \/ AuthorityReserve(p) \/ AuthorityAnnounce(p) \/ AuthorityBind(p)
AuditNext == \E p \in Auditors : AuditStep(p) \/ MainStep(p) \/ Dies(p)
AuditSpec == AuditInit /\ [][AuditNext]_auditVars

-----------------------------------------------------------------------------
AuditTypeOK ==
    /\ reserved \in DOMAIN Manifests \cup {NONE}
    /\ tickLock \in Auditors \cup {NONE}
    /\ \A p \in Auditors :
          /\ main[p].pc \in {"idle", "log", "log_once", "wait", "audit", "judge", "announce", "bind"}
          /\ audit[p].pc \in {"none", "fetch", "controlled", "hash", "candidates", "close"}
          /\ abandoned[p] \in 0 .. ChainLookupSlotCap
          /\ completed[p] \in 0 .. MaxAudits
    /\ announced \subseteq DOMAIN Manifests

\* _ShadowAuditor: "Completed results are LOSSLESS and exactly-once".  Whenever audits end,
\* tick by tick, those that ended are exactly those reported, in order, followed by those
\* the main thread has drained and those still queued.
EveryAuditReported ==
    \A p \in Auditors :
        LET serials(s) == [i \in DOMAIN s |-> s[i].n]
            unlogged == IF main[p].pc \in {"announce", "judge", "log", "log_once"}
                          THEN serials(main[p].drained) ELSE <<>>
        IN  reported[p] \o unlogged \o serials(results[p]) = [i \in 1 .. completed[p] |-> i]

\* The reservation fence of _write_state_fenced, taken by audits that ran on stale
\* snapshots in several processes while the evidence host rolls back and equivocates: the
\* reserved evidence is one line, that never moves back in epoch or release and holds one
\* manifest per epoch and one digest per release; nothing is announced off that line.
AnnouncedOnOneLine ==
    /\ \A i, j \in DOMAIN reservations : i < j =>
          LET a == Of(reservations[i])
              b == Of(reservations[j])
          IN  /\ a.epoch < b.epoch \/ reservations[i] = reservations[j]
              /\ a.release < b.release \/ (a.release = b.release /\ a.digest = b.digest)
    /\ \A m \in announced : \E i \in DOMAIN reservations : reservations[i] = m

\* _authority_tick_locked: while every reservation is made inside a tick, the evidence
\* identity an authority attempt is recorded under is that of the audit its weights come from.
AttemptIsAudited ==
    (\A p \in Auditors : Mode(p) # "once") => \A a \in attempts : a.weights = a.evidence

\* Provenance audits: types, lossless reporting, one line of evidence, attempts recorded
\* under the evidence they were computed from.
AuditInv == AuditTypeOK /\ EveryAuditReported /\ AnnouncedOnOneLine /\ AttemptIsAudited
=============================================================================
