------------------------------- MODULE TeeGpu -------------------------------
(***************************************************************************)
(* One confidential-compute capacity row (publisher/tee_gpu.py): miner     *)
(* offers, evidence requests, operator review, the evidence verifier,      *)
(* provider, health and usage receipts, and the listing command.           *)
(*                                                                         *)
(* The handlers are synchronous, so one process runs one of them at a      *)
(* time; two processes interleave between statements.  The review fields   *)
(* of an offer (gpu, count, endpoint, claims, price) are one value, a      *)
(* machine; evidence is the machine it was taken on, the request it        *)
(* answers and the review stored in it.                                    *)
(***************************************************************************)
EXTENDS Naturals, FiniteSets, Absent

CONSTANTS
    GpuProcesses,   \* publisher processes
    Machines,       \* review fields of an offer
    TeeProfiles,    \* the machines whose claims pass the preflight
    Tpus,           \* exploratory machines
    GpuPolicies,    \* required evidence: "none", "reviewed" or "crypto"
    MaxOffers, MaxOperations, MaxGpuDeaths  \* bounds

ASSUME GpuConstants ==
    /\ IsFiniteSet(GpuProcesses) /\ GpuProcesses # {}
    /\ TeeProfiles \subseteq Machines /\ Tpus \subseteq Machines
    /\ TeeProfiles \cap Tpus = {}
    /\ GpuPolicies \subseteq {"none", "reviewed", "crypto"}
    /\ {MaxOffers, MaxOperations, MaxGpuDeaths} \subseteq Nat

VARIABLES
    gpuPolicy,      \* CATHEDRAL_TEE_GPU_REQUIRE_EVIDENCE, _REQUIRE_CRYPTO_EVIDENCE
    replicas,       \* the processes that are deployed
    capacity,       \* the row of tee_gpu_capacity
    receipts,       \* provider, health and usage events
    request,        \* the evidence request event: absent, fresh or expired
    handler,        \* the handler each process is in
    verified,       \* evidence the verifier accepted, with the machine it was shown
    approved,       \* the machine an operator saw who made the row active
    replaced,       \* how often a row was replaced, or reopened for another listing
    offers, operations, gpuDeaths

gpuVars == <<gpuPolicy, replicas, capacity, receipts, request, handler, verified, approved,
             replaced, offers, operations, gpuDeaths>>
gpuLog == <<receipts, request, verified>>

Reviews == {"none", "operator_reviewed", "needs_review", "rejected", "crypto"}
\* Evidence that names no request is never reviewed; no evidence is NONE.
GpuEvidence == [of : Machines, asked : BOOLEAN, review : Reviews]
Capacity == [machine : Machines, authorized : BOOLEAN, evidence : GpuEvidence \cup {NONE},
             status : {"pending", "active", "paused", "rejected"},
             preflight : {"eligible", "blocked", "exploratory"},
             named : BOOLEAN,       \* chutes_server_name
             chutes : {"", "listing", "listed", "list_failed", "needs_relisting", "needs_review"}]
ASSUME NoCapacityIsNone == NONE \notin Capacity
GpuIdle == [pc |-> "idle", read |-> NONE, patch |-> NONE, then |-> "done"]

\* A deployment starts with no row, with one that is verified and approved, or
\* with one that has been listed and has its receipts.
GpuInit ==
    /\ gpuPolicy \in GpuPolicies
    /\ replicas \in {{CHOOSE p \in GpuProcesses : TRUE}, GpuProcesses}
    /\ \/ /\ capacity = NONE /\ receipts = {} /\ request = "absent"
          /\ verified = {} /\ approved = NONE
       \/ \E m \in TeeProfiles, listed \in BOOLEAN :
          /\ capacity = [machine |-> m, authorized |-> TRUE, preflight |-> "eligible",
                         evidence |-> [of |-> m, asked |-> TRUE, review |-> "crypto"],
                         status |-> "active", named |-> TRUE, chutes |-> IF listed THEN "listed" ELSE ""]
          /\ receipts = IF listed THEN {"provider", "health", "usage"} ELSE {}
          /\ request = "fresh"
          /\ verified = {[evidence |-> m, machine |-> m]} /\ approved = m
    /\ handler = [p \in GpuProcesses |-> GpuIdle]
    /\ replaced = 0 /\ offers = 0 /\ operations = 0 /\ gpuDeaths = 0

----------------------------------------------------------------------------
(* What a row says                                                          *)

\* evidence_summary
evidence_summary(e) ==
    IF e = NONE THEN "missing"
    ELSE IF e.review # "none" THEN e.review
    ELSE IF e.asked THEN "submitted" ELSE "submitted_without_request"

\* _attestation_input_json: a review that came with the request is dropped.
\* Mutant: it is kept.
attestation_input_json_kept(e) == e
attestation_input_json(e) == IF e = NONE THEN NONE ELSE [e EXCEPT !.review = "none"]

\* preflight_capacity: the reasons decide, whatever the operator reviewed.
preflight_capacity(c) ==
    LET status == evidence_summary(c.evidence)
        tpu == c.machine \in Tpus
        demand == CASE gpuPolicy = "crypto"   -> status = "crypto"
                    [] gpuPolicy = "reviewed" -> status \in {"operator_reviewed", "crypto"}
                    [] OTHER -> TRUE
        clean == /\ tpu \/ c.machine \in TeeProfiles
                 /\ c.authorized
                 /\ status # "rejected"
                 /\ tpu \/ demand
    IN  IF clean THEN IF tpu THEN "exploratory" ELSE "eligible" ELSE "blocked"

Preflighted(c) == [c EXCEPT !.preflight = preflight_capacity(c)]

\* _MINER_REVIEW_FIELDS, the digest of the evidence among them
material_changed(old, new) == old.machine # new.machine \/ old.evidence # new.evidence

\* A material change of a row that was reviewed asks for a new review, and of
\* a listed one for a new listing.
\* Mutant: only the listing is reopened.
Reopened_listing(old, new) ==
    [new EXCEPT !.chutes = IF old.chutes \in {"listed", "needs_relisting"} THEN "needs_relisting" ELSE old.chutes]
Reopened(old, new) ==
    LET reviewed == old.status \in {"active", "paused"}
    IN  [new EXCEPT !.status = IF reviewed THEN "pending" ELSE old.status,
                    !.chutes = IF old.chutes \in {"listed", "needs_relisting"} THEN "needs_relisting"
                               ELSE IF reviewed THEN "needs_review" ELSE old.chutes]

\* An active row is an eligible one.
Settled(c) == IF c.status = "active" /\ c.preflight # "eligible" THEN [c EXCEPT !.status = "pending"] ELSE c

----------------------------------------------------------------------------
(* Requests that are one transaction                                        *)

GpuAt(p, pc) == p \in replicas /\ handler[p].pc = pc
GpuGo(p, h) == handler' = [handler EXCEPT ![p] = h]
Operation == operations < MaxOperations /\ operations' = operations + 1
Replaced(now) == replaced' = IF now THEN replaced + 1 ELSE replaced
Seen(c) == approved' = IF c.status = "active" THEN c.machine ELSE approved

\* create_capacity: the row of an offer.  Only an admin names the server.
NewCapacity(machine, e, authorized) ==
    Preflighted([machine |-> machine, authorized |-> authorized, evidence |-> e, status |-> "pending",
                 preflight |-> "blocked", named |-> FALSE, chutes |-> ""])

\* POST /offers, signed, invited and authorized: fields an operator set stay.
tee_gpu_submit_offer(p, machine, e) ==
    LET row == NewCapacity(machine, attestation_input_json(e), TRUE)
        kept == [row EXCEPT !.status = capacity.status, !.named = capacity.named, !.chutes = capacity.chutes]
    IN  /\ GpuAt(p, "idle") /\ offers < MaxOffers
        /\ capacity' = IF capacity = NONE THEN row
                       ELSE Settled(IF material_changed(capacity, row) THEN Reopened(capacity, kept) ELSE kept)
        /\ Replaced(capacity # NONE /\ material_changed(capacity, row))
        /\ offers' = offers + 1
        /\ UNCHANGED <<gpuLog, handler, approved, operations>>

\* POST /admin/tee-gpu/capacity replaces the row; the admin may review the
\* evidence it brings if that answers a request.
tee_gpu_admin_create(p, machine, e, active) ==
    LET row == [NewCapacity(machine, e, TRUE) EXCEPT !.named = TRUE]
    IN  /\ GpuAt(p, "idle") /\ Operation
        /\ e # NONE => /\ e.review \in {"none", "operator_reviewed"}
                       /\ e.review = "operator_reviewed" => e.asked /\ request # "absent"
        /\ capacity' = Settled(IF active THEN [row EXCEPT !.status = "active"] ELSE row)
        /\ Seen(capacity')
        /\ Replaced(capacity # NONE)
        /\ UNCHANGED <<gpuLog, handler, offers>>

create_evidence_request(p) ==
    /\ GpuAt(p, "idle") /\ Operation
    /\ request' = "fresh"
    /\ UNCHANGED <<capacity, receipts, verified, handler, approved, replaced, offers>>
request_expires ==
    /\ request = "fresh" /\ request' = "expired"
    /\ UNCHANGED <<capacity, receipts, verified, handler, approved, replaced, offers, operations>>

----------------------------------------------------------------------------
(* update_capacity_admin: a read, then an UPDATE of the columns that change *)

\* A patch gives the columns it sets; NONE leaves one alone.
NoPatch == [status |-> NONE, evidence |-> NONE, named |-> NONE, machine |-> NONE]
Patches ==
    {[NoPatch EXCEPT !.status = s] : s \in {"active", "paused", "rejected"}}
        \cup {[NoPatch EXCEPT !.named = TRUE, !.status = "active"]}
        \cup {[NoPatch EXCEPT !.machine = m] : m \in Machines}

Or(value, otherwise) == IF value = NONE THEN otherwise ELSE value
Patched(c, patch) ==
    [c EXCEPT !.status = Or(patch.status, @), !.evidence = Or(patch.evidence, @),
              !.named = Or(patch.named, @), !.machine = Or(patch.machine, @)]

\* What the request makes of the row it read; NONE refuses it.
AdminView(read, patch) ==
    LET merged == Patched(read, patch)
        opened == IF material_changed(read, merged) THEN Reopened(read, merged) ELSE merged
        kept == IF patch.status = NONE THEN opened ELSE [opened EXCEPT !.status = patch.status]
        view == Preflighted(kept)
    IN  IF patch.status = "active" /\ view.preflight # "eligible" THEN NONE ELSE Settled(view)

update_capacity_admin(p, patch, then) ==
    /\ capacity # NONE
    /\ GpuGo(p, IF AdminView(capacity, patch) = NONE THEN GpuIdle
                ELSE [pc |-> "update", read |-> capacity, patch |-> patch, then |-> then])

\* Columns the request did not change keep what they are now.
admin_update_write(p) ==
    LET read == handler[p].read
        view == AdminView(read, handler[p].patch)
        Column(old, new, is) == IF new = old THEN is ELSE new
        row == [capacity EXCEPT
                  !.status = IF handler[p].patch.status # NONE THEN view.status ELSE Column(read.status, view.status, @),
                  !.evidence = Or(handler[p].patch.evidence, @),
                  !.named = Or(handler[p].patch.named, @),
                  !.machine = Or(handler[p].patch.machine, @),
                  !.chutes = Column(read.chutes, view.chutes, @),
                  !.preflight = view.preflight]
    IN  /\ GpuAt(p, "update")
        /\ capacity' = row
        /\ Seen(view)
        /\ Replaced(view.chutes # read.chutes)
        /\ GpuGo(p, IF handler[p].then = "done" THEN GpuIdle ELSE [GpuIdle EXCEPT !.pc = handler[p].then])
        /\ UNCHANGED <<gpuLog, offers, operations>>

tee_gpu_admin_update(p) ==
    /\ GpuAt(p, "idle") /\ Operation
    /\ \E patch \in Patches : update_capacity_admin(p, patch, "done")
    /\ UNCHANGED <<capacity, gpuLog, approved, replaced, offers>>

\* _attestation_review_json: only evidence that answers a known request is
\* accepted by hand, and never as cryptographically verified.
review_capacity_evidence(p) ==
    /\ GpuAt(p, "idle") /\ Operation
    /\ capacity # NONE /\ capacity.evidence # NONE
    /\ \E status \in {"operator_reviewed", "needs_review", "rejected"} :
          /\ status = "operator_reviewed" => capacity.evidence.asked /\ request # "absent"
          /\ update_capacity_admin(p, [NoPatch EXCEPT !.evidence = [capacity.evidence EXCEPT !.review = status]], "done")
    /\ UNCHANGED <<capacity, gpuLog, approved, replaced, offers>>

----------------------------------------------------------------------------
(* The evidence verifier                                                    *)

verify_capacity_evidence(p) ==
    /\ GpuAt(p, "idle") /\ Operation
    /\ capacity # NONE /\ capacity.evidence # NONE
    /\ capacity.evidence.asked /\ request = "fresh"
    /\ GpuGo(p, [GpuIdle EXCEPT !.pc = "verifier", !.read = capacity])
    /\ UNCHANGED <<capacity, gpuLog, approved, replaced, offers>>

\* The verifier accepts what it can: evidence of the machine the row claims,
\* every required check among its results.  It may fail or time out.
run_evidence_verifier(p) ==
    LET read == handler[p].read
    IN  /\ GpuAt(p, "verifier")
        /\ \/ /\ read.evidence.of = read.machine
              /\ verified' = verified \cup {[evidence |-> read.evidence.of, machine |-> read.machine]}
              /\ GpuGo(p, [handler[p] EXCEPT !.pc = "verified"])
           \/ GpuGo(p, GpuIdle) /\ UNCHANGED verified
        /\ UNCHANGED <<capacity, receipts, request, approved, replaced, offers, operations>>

\* _attestation_verified_json: the evidence that was read, now verified.
attestation_verified(p) ==
    /\ GpuAt(p, "verified")
    /\ update_capacity_admin(p, [NoPatch EXCEPT !.evidence = [handler[p].read.evidence EXCEPT !.review = "crypto"]], "done")
    /\ UNCHANGED <<capacity, gpuLog, approved, replaced, offers, operations>>

----------------------------------------------------------------------------
(* Receipts of the launch                                                   *)

require_launch_ready_base(c) ==
    /\ c # NONE
    /\ evidence_summary(c.evidence) = "crypto"
    /\ c.preflight = "eligible" /\ c.authorized

\* capacity_launch_evidence: events are never taken back.
production_compute_ready ==
    /\ capacity # NONE
    /\ capacity.status = "active" /\ capacity.chutes = "listed"
    /\ evidence_summary(capacity.evidence) = "crypto"
    /\ {"provider", "health", "usage"} \subseteq receipts

record_provider_status(p) ==
    /\ GpuAt(p, "idle") /\ Operation
    /\ require_launch_ready_base(capacity)
    /\ GpuGo(p, [GpuIdle EXCEPT !.pc = "provider", !.read = capacity])
    /\ UNCHANGED <<capacity, gpuLog, approved, replaced, offers>>
provider_status_write(p) ==
    /\ GpuAt(p, "provider")
    /\ capacity' = [capacity EXCEPT !.status = "active", !.chutes = "listed", !.named = handler[p].read.named]
    /\ receipts' = receipts \cup {"provider"}
    /\ approved' = handler[p].read.machine
    /\ GpuGo(p, GpuIdle)
    /\ UNCHANGED <<request, verified, replaced, offers, operations>>

record_health_receipt(p) ==
    /\ GpuAt(p, "idle") /\ Operation
    /\ require_launch_ready_base(capacity) /\ "provider" \in receipts
    /\ update_capacity_admin(p, NoPatch, "health")
    /\ UNCHANGED <<capacity, gpuLog, approved, replaced, offers>>
health_receipt_event(p) ==
    /\ GpuAt(p, "health")
    /\ receipts' = receipts \cup {"health"}
    /\ GpuGo(p, GpuIdle)
    /\ UNCHANGED <<capacity, request, verified, approved, replaced, offers, operations>>
record_usage_receipt(p) ==
    /\ GpuAt(p, "idle") /\ Operation
    /\ require_launch_ready_base(capacity) /\ {"provider", "health"} \subseteq receipts
    /\ receipts' = receipts \cup {"usage"}
    /\ UNCHANGED <<capacity, request, verified, handler, approved, replaced, offers>>

----------------------------------------------------------------------------
(* The listing command                                                      *)

\* chutes_manifest_item: nothing is missing.
chutes_manifest_ready(c) ==
    /\ c # NONE
    /\ c.named /\ c.authorized
    /\ c.preflight = "eligible" /\ c.machine \notin Tpus
    /\ evidence_summary(c.evidence) = "crypto"
    /\ c.status = "active"

list_capacity_on_chutes(p) ==
    /\ GpuAt(p, "idle") /\ Operation
    /\ chutes_manifest_ready(capacity) /\ capacity.chutes # "listed"
    /\ GpuGo(p, [GpuIdle EXCEPT !.pc = "claim", !.read = capacity])
    /\ UNCHANGED <<capacity, gpuLog, approved, replaced, offers>>

Listing(p) == handler[p].pc = "command"

\* _claim_chutes_listing.  A claim is stale after the longest time a command
\* may take, so its command has ended or its process is gone.
\* Mutant: any claim is taken over.
claim_granted_always == capacity.chutes # "listed"
claim_granted ==
    /\ capacity.chutes # "listed"
    /\ capacity.chutes = "listing" => \A q \in GpuProcesses : ~Listing(q)
claim_chutes_listing(p) ==
    /\ GpuAt(p, "claim")
    /\ IF claim_granted
       THEN /\ capacity' = [capacity EXCEPT !.chutes = "listing"]
            /\ GpuGo(p, [handler[p] EXCEPT !.pc = "command"])
       ELSE UNCHANGED capacity /\ GpuGo(p, GpuIdle)
    /\ UNCHANGED <<gpuLog, approved, replaced, offers, operations>>

\* add-node ends, fails or times out: the row gets its result, and on failure
\* the status it had when it was read.
chutes_list_write(p) ==
    /\ GpuAt(p, "command")
    /\ \E ok \in BOOLEAN :
          /\ capacity' = [capacity EXCEPT !.status = IF ok THEN "active" ELSE handler[p].read.status,
                                          !.chutes = IF ok THEN "listed" ELSE "list_failed"]
          /\ approved' = handler[p].read.machine
    /\ GpuGo(p, GpuIdle)
    /\ UNCHANGED <<gpuLog, replaced, offers, operations>>

----------------------------------------------------------------------------
\* Any process takes a request that is over in one transaction.
Offered ==
    \E p \in replicas, m \in Machines :
        \/ tee_gpu_submit_offer(p, m, NONE)
        \/ \E asked \in BOOLEAN, r \in {"none", "crypto"} :
              tee_gpu_submit_offer(p, m, [of |-> m, asked |-> asked, review |-> r])
        \/ \E active \in BOOLEAN : tee_gpu_admin_create(p, m, [of |-> m, asked |-> TRUE, review |-> "operator_reviewed"], active)
Administered(p) ==
    \/ create_evidence_request(p) \/ tee_gpu_admin_update(p) \/ review_capacity_evidence(p)
    \/ admin_update_write(p)
    \/ verify_capacity_evidence(p) \/ run_evidence_verifier(p) \/ attestation_verified(p)
    \/ record_provider_status(p) \/ provider_status_write(p)
    \/ record_health_receipt(p) \/ health_receipt_event(p) \/ record_usage_receipt(p)
    \/ list_capacity_on_chutes(p) \/ claim_chutes_listing(p) \/ chutes_list_write(p)

\* A process dies between two statements of its handler.
GpuDies(p) ==
    /\ gpuDeaths < MaxGpuDeaths /\ ~GpuAt(p, "idle")
    /\ gpuDeaths' = gpuDeaths + 1
    /\ GpuGo(p, GpuIdle)
    /\ UNCHANGED <<capacity, gpuLog, approved, replaced, offers, operations>>

GpuNext ==
    /\ UNCHANGED <<gpuPolicy, replicas>>
    /\ \/ Offered /\ UNCHANGED gpuDeaths
       \/ request_expires /\ UNCHANGED gpuDeaths
       \/ \E p \in replicas : Administered(p) /\ UNCHANGED gpuDeaths
       \/ \E p \in replicas : GpuDies(p)
GpuSpec == GpuInit /\ [][GpuNext]_gpuVars

----------------------------------------------------------------------------
(* Properties                                                               *)

\* The row has the shape of its columns.
GpuTypeOK ==
    /\ capacity \in Capacity \cup {NONE}
    /\ receipts \subseteq {"provider", "health", "usage"}
    /\ \A p \in GpuProcesses : handler[p].read \in Capacity \cup {NONE}

\* Evidence is called cryptographically verified only after the verifier
\* accepted it: no offer, admin record, review or later write supplies that
\* word itself (_attestation_input_json, _normal_review_status), also when the
\* row changed while the verifier ran.
EvidenceWasVerified ==
    (capacity # NONE /\ capacity.evidence # NONE /\ capacity.evidence.review = "crypto")
        => \E v \in verified : v.evidence = capacity.evidence.of

\* The listing command runs twice at once only for an offer that was replaced
\* or reopened meanwhile, once for each time: the claim is one transaction, and a
\* stale one is taken over only when its command must have ended
\* (_claim_chutes_listing).
OneAddNode == Cardinality({p \in GpuProcesses : Listing(p)}) <= 1 + replaced

\* With one process an active row is one whose present machine an operator
\* saw: a miner who changes it is back at pending, whatever receipt, review or
\* listing came before (create_capacity, update_capacity_admin).
ActiveWasApproved ==
    (Cardinality(replicas) = 1 /\ capacity # NONE /\ capacity.status = "active")
        => approved = capacity.machine

\* GPU offers: types, evidence, one listing per machine, approval before active.
GpuInv == GpuTypeOK /\ EvidenceWasVerified /\ OneAddNode /\ ActiveWasApproved
=============================================================================
