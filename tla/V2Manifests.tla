---------------------------- MODULE V2Manifests ----------------------------
(***************************************************************************)
(* The V2 manifest queue: admission of a signed manifest with an optional  *)
(* inline copy of its blob, and the verify workers' ticks: claim under an  *)
(* attempt cap, one row after the other, then the sweep of exhausted rows. *)
(*                                                                         *)
(* A manifest stands for its idempotency key.  Whether its bytes hash to   *)
(* the declared sha256 and satisfy the CNF is a fact of the manifest       *)
(* (Sound).  What a fetch of its blob returns is not, nor whether the      *)
(* challenge is still the miner's: coldkey map and generator may change.   *)
(***************************************************************************)
EXTENDS Naturals, FiniteSets, Sequences, Absent

CONSTANTS
    Manifests,
    Sound,          \* manifests whose bytes verify
    Local,          \* manifests with a local:// CID
    Verifiers,
    ManifestBatch,
    MaxAttempts,    \* attempt cap of claim_batch
    MaxAborts       \* bound of the model

\* The cap may also be 0, for none; the workers run with 20.
ASSUME ManifestConstants ==
    /\ Sound \subseteq Manifests
    /\ MaxAttempts \in Nat \ {0} /\ MaxAborts \in Nat

Terminal == {"verified", "rejected"}
ManifestRow == [status   : {"received", "verifying", "retry"} \cup Terminal,
        attempts : 0..MaxAttempts,
        locked   : BOOLEAN,     \* locked_until_iso in the future
        due      : BOOLEAN,     \* next_attempt_at_iso passed or NULL
        inline   : BOOLEAN]     \* solution_inline is there

\* A manifest that was not admitted has no row.
ASSUME NoManifestRowIsNone == NONE \notin ManifestRow

VARIABLES
    rows,      \* solution_manifests
    arrival,   \* its keys in received_at order
    phase,     \* where a worker's tick is
    batch,     \* places in arrival of the rows it claimed and has not come to
    owned,     \* challenges that still resolve to their miner and CNF
    aborts

manifestVars == <<rows, arrival, phase, batch, owned, aborts>>

ManifestInit ==
    /\ rows = [m \in Manifests |-> NONE]
    /\ arrival = <<>>
    /\ phase = [w \in Verifiers |-> "idle"]
    /\ batch = [w \in Verifiers |-> {}]
    /\ owned = Manifests
    /\ aborts = 0

Is(m, states) == rows[m] # NONE /\ rows[m].status \in states

----------------------------------------------------------------------------
\* admit_manifest; the inline copy is kept when the fetch at admission works.
admit_manifest(m, inline) ==
    /\ rows[m] = NONE
    /\ rows' = [rows EXCEPT ![m] = [status |-> "received", attempts |-> 0,
                                    locked |-> FALSE, due |-> TRUE,
                                    inline |-> inline]]
    /\ arrival' = Append(arrival, m)
    /\ UNCHANGED <<phase, batch, owned, aborts>>

\* Mutant: a row left in verifying is not claimed again.
Reclaimable_never(m) ==
    /\ Is(m, {"received", "retry"})
    /\ rows[m].due /\ ~rows[m].locked
    /\ rows[m].attempts < MaxAttempts
\* Mutant: off by one at the cap.
Reclaimable_past_cap(m) ==
    /\ Is(m, {"received", "retry", "verifying"})
    /\ rows[m].due /\ ~rows[m].locked
    /\ rows[m].attempts <= MaxAttempts
Reclaimable(m) ==
    /\ Is(m, {"received", "retry", "verifying"})
    /\ rows[m].due /\ ~rows[m].locked
    /\ rows[m].attempts < MaxAttempts

claim_batch(w) ==
    LET open == {i \in 1..Len(arrival) : Reclaimable(arrival[i])}
        picked == {i \in open : Cardinality({j \in open : j < i}) < ManifestBatch}
    IN /\ phase[w] = "idle"
       /\ rows' = [m \in Manifests |->
                     IF \E i \in picked : arrival[i] = m
                     THEN [rows[m] EXCEPT !.status = "verifying",
                                          !.locked = TRUE, !.attempts = @ + 1]
                     ELSE rows[m]]
       /\ batch' = [batch EXCEPT ![w] = picked]
       /\ phase' = [phase EXCEPT ![w] = IF picked = {} THEN "sweep" ELSE "verify"]
       /\ UNCHANGED <<arrival, owned, aborts>>

\* What verify_one may write: an inline copy always decides; without one the
\* fetch may give the bytes, fail for good (a CID nobody can fetch, a local://
\* blob that is gone) or fail for now.
Outcomes(m) ==
    LET checked == IF m \in Sound \cap owned THEN "verified" ELSE "rejected"
    IN IF rows[m].inline THEN {checked}
       ELSE {checked, "rejected"} \cup (IF m \in Local THEN {} ELSE {"retry"})

\* verify_one with _finish_verified or _finish_rejected: by id alone.
verify_one(w) ==
    \E i \in batch[w] :
       LET m == arrival[i]
           left == batch[w] \ {i}
       IN /\ phase[w] = "verify"
          /\ \A j \in left : i < j
          /\ \E s \in Outcomes(m) :
                rows' = [rows EXCEPT ![m].status = s, ![m].locked = FALSE,
                                     ![m].due = (s # "retry")]
          /\ batch' = [batch EXCEPT ![w] = left]
          /\ phase' = [phase EXCEPT ![w] = IF left = {} THEN "sweep" ELSE "verify"]
          /\ UNCHANGED <<arrival, owned, aborts>>

\* An exception out of verify_one ends the tick, as does the process' death:
\* the rest of the batch stays claimed and nothing is swept.
TickAborts(w) ==
    /\ phase[w] = "verify"
    /\ aborts < MaxAborts
    /\ aborts' = aborts + 1
    /\ batch' = [batch EXCEPT ![w] = {}]
    /\ phase' = [phase EXCEPT ![w] = "idle"]
    /\ UNCHANGED <<rows, arrival, owned>>

\* sweep_exhausted.
\* Mutant: rows a worker may still hold are swept as well.
Exhausted_verifying(m) ==
    /\ Is(m, {"received", "retry", "verifying"})
    /\ rows[m].attempts >= MaxAttempts
    /\ ~rows[m].locked
Exhausted(m) ==
    /\ Is(m, {"received", "retry"})
    /\ rows[m].attempts >= MaxAttempts
    /\ ~rows[m].locked

sweep_exhausted(w) ==
    /\ phase[w] = "sweep"
    /\ rows' = [m \in Manifests |->
                  IF Exhausted(m)
                  THEN [rows[m] EXCEPT !.status = "rejected", !.locked = FALSE,
                                       !.due = TRUE]
                  ELSE rows[m]]
    /\ phase' = [phase EXCEPT ![w] = "idle"]
    /\ UNCHANGED <<arrival, batch, owned, aborts>>

\* Deadlines pass.
LeaseLapses(m) ==
    /\ rows[m] # NONE /\ rows[m].locked
    /\ rows' = [rows EXCEPT ![m].locked = FALSE]
    /\ UNCHANGED <<arrival, phase, batch, owned, aborts>>

RetryDue(m) ==
    /\ rows[m] # NONE /\ ~rows[m].due
    /\ rows' = [rows EXCEPT ![m].due = TRUE]
    /\ UNCHANGED <<arrival, phase, batch, owned, aborts>>

\* A coldkey is remapped or the generator redeployed with other parameters.
Disowned(m) ==
    /\ m \in owned
    /\ owned' = owned \ {m}
    /\ UNCHANGED <<rows, arrival, phase, batch, aborts>>

\* process_batch and the loop around it.
TickStep(w) == claim_batch(w) \/ verify_one(w) \/ sweep_exhausted(w)
Deadline(m) == LeaseLapses(m) \/ RetryDue(m)

ManifestNext ==
    \/ \E m \in Manifests :
          \/ \E inline \in BOOLEAN : admit_manifest(m, inline)
          \/ Deadline(m)
          \/ Disowned(m)
    \/ \E w \in Verifiers : TickStep(w) \/ TickAborts(w)

ManifestSpec == ManifestInit /\ [][ManifestNext]_manifestVars

----------------------------------------------------------------------------
ManifestTypeOK ==
    /\ rows \in [Manifests -> ManifestRow \cup {NONE}]
    /\ arrival \in Seq(Manifests)
    /\ phase \in [Verifiers -> {"idle", "verify", "sweep"}]
    /\ batch \in [Verifiers -> SUBSET (1..Len(arrival))]
    /\ owned \subseteq Manifests
    /\ aborts \in 0..MaxAborts

\* A sound solution whose bytes were kept at admission is not rejected while the
\* challenge is still its miner's: not by a blob store that lost the bytes, not
\* by aborted batches that use up its attempts, not by a worker that comes late.
SoundInlineNeverRejected ==
    \A m \in Sound \cap owned : rows[m] # NONE /\ rows[m].inline =>
        rows[m].status # "rejected"

\* The manifest queue: types, and a manifest whose inline copy is sound is never
\* rejected (verify_one, sweep_exhausted).
QueueInv == ManifestTypeOK /\ SoundInlineNeverRejected

\* Out of attempts in verifying: neither claimed again nor swept.
Stranded(m) == Is(m, {"verifying"}) /\ rows[m].attempts = MaxAttempts

\* A manifest is verified, rejected or out of attempts in the end; a row a
\* dead worker left behind is taken up again, and rows that keep failing do
\* not starve the others.
ManifestSettles ==
    \A m \in Manifests :
        (rows[m] # NONE) ~> (Is(m, Terminal) \/ Stranded(m))
=============================================================================
