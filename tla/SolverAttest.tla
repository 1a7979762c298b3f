---------------------------- MODULE SolverAttest ----------------------------
(***************************************************************************)
(* Solver attestation (publisher/attest.py): one-time nonces, the checks   *)
(* of a quote against them, and the upgrade of a solve row by a            *)
(* multiplier.  A verification reads nonce, row and registrations first    *)
(* and writes in one transaction later; verifications of two processes     *)
(* interleave between the two.                                             *)
(***************************************************************************)
EXTENDS Naturals, FiniteSets, Absent

CONSTANTS
    AttestWorkers,      \* processes that verify
    Provers,        \* hotkeys
    Instances,      \* challenges
    EvalRuns,       \* rows of solves that were paid at the base rate
    RunOwner, RunInstance,  \* miner_hotkey and task_id_public of a row
    Digests,        \* solver containers
    MaxNonces, MaxAttestTime    \* bounds

ASSUME AttestConstants ==
    /\ RunOwner \in [EvalRuns -> Provers]
    /\ RunInstance \in [EvalRuns -> Instances]
    /\ {MaxNonces, MaxAttestTime} \subseteq Nat

VARIABLES
    nonces,         \* attest_nonces in the order of issue
    multiplied,     \* how often the score of a row was multiplied
    attested,       \* eval_runs.attested
    attestations,   \* the attestations table
    solvers,        \* arena_solvers
    verifying,      \* the attestation a process has checked and not written
    attestTime

attestVars == <<nonces, multiplied, attested, attestations, solvers, verifying, attestTime>>

AttestInit ==
    /\ nonces = [n \in {} |-> NONE]
    /\ multiplied = [r \in EvalRuns |-> 0]
    /\ attested = [r \in EvalRuns |-> FALSE]
    /\ attestations = {}
    /\ solvers \in SUBSET (Provers \X Digests)
    /\ verifying = [v \in AttestWorkers |-> NONE]
    /\ attestTime = 0

\* issue_nonce, for the hotkey that signed the request
issue_nonce(hk, ch) ==
    LET n == Cardinality(DOMAIN nonces) + 1
    IN  /\ n <= MaxNonces
        /\ nonces' = [i \in 1..n |-> IF i = n THEN [hk |-> hk, ch |-> ch, used |-> FALSE, expires |-> attestTime]
                                     ELSE nonces[i]]
        /\ UNCHANGED <<multiplied, attested, attestations, solvers, verifying, attestTime>>

\* What a miner posts.  A quote binds the nonce, the key, the solver and the
\* receipt (report_data); the receipt repeats the fields of the request and the
\* verifier command finds the quote genuine, or the request is refused, so a
\* payload here is one for which that holds.
AttestPayload == [signer : Provers, nonce : 1..MaxNonces, ch : Instances, run : EvalRuns, digest : Digests]

\* The nonce is issued, unused, in time and for this signer and challenge.
nonce_matches(m) ==
    LET n == nonces[m.nonce]
    IN  ~n.used /\ n.hk = m.signer /\ n.expires >= attestTime /\ n.ch = m.ch

\* The row exists at base rate, is the nonce's miner's and is of the challenge.
eval_run_matches(m) ==
    /\ ~attested[m.run]
    /\ RunOwner[m.run] = nonces[m.nonce].hk
    /\ RunInstance[m.run] = m.ch

\* An owner with registered solvers must have run one of them.
solver_matches(m) ==
    LET mine == {s \in solvers : s[1] = RunOwner[m.run]}
    IN  mine # {} => <<RunOwner[m.run], m.digest>> \in mine

verify_attestation(v, m) ==
    /\ verifying[v] = NONE
    /\ m.nonce \in DOMAIN nonces
    /\ nonce_matches(m) /\ eval_run_matches(m) /\ solver_matches(m)
    /\ verifying' = [verifying EXCEPT ![v] = m]
    /\ UNCHANGED <<nonces, multiplied, attested, attestations, solvers, attestTime>>

\* _upgrade: the row that was read is written, if no one attested it since.
\* Mutant: the row is written whatever it is now.
upgrade_guard_none(r) == TRUE
upgrade_guard(r) == ~attested[r]
upgrade(v) ==
    LET m == verifying[v]
    IN  /\ m # NONE
        /\ verifying' = [verifying EXCEPT ![v] = NONE]
        /\ IF upgrade_guard(m.run)
           THEN /\ multiplied' = [multiplied EXCEPT ![m.run] = @ + 1]
                /\ attested' = [attested EXCEPT ![m.run] = TRUE]
                /\ nonces' = [nonces EXCEPT ![m.nonce].used = TRUE]
                /\ attestations' = attestations \cup {m}
           ELSE UNCHANGED <<nonces, multiplied, attested, attestations>>
        /\ UNCHANGED <<solvers, attestTime>>

register_solver(hk, d) ==
    /\ solvers' = solvers \cup {<<hk, d>>}
    /\ UNCHANGED <<nonces, multiplied, attested, attestations, verifying, attestTime>>
AttestTick ==
    /\ attestTime < MaxAttestTime
    /\ attestTime' = attestTime + 1
    /\ UNCHANGED <<nonces, multiplied, attested, attestations, solvers, verifying>>

AttestNext ==
    \/ AttestTick
    \/ \E hk \in Provers, ch \in Instances : issue_nonce(hk, ch)
    \/ \E hk \in Provers, d \in Digests : register_solver(hk, d)
    \/ \E v \in AttestWorkers : upgrade(v) \/ \E m \in AttestPayload : verify_attestation(v, m)

AttestSpec == AttestInit /\ [][AttestNext]_attestVars

----------------------------------------------------------------------------
(* Properties                                                               *)

AttestTypeOK ==
    /\ attestations \subseteq AttestPayload
    /\ \A v \in AttestWorkers : verifying[v] \in AttestPayload \cup {NONE}

\* A score is multiplied at most once, by an attestation of its own miner and
\* challenge with a nonce of that pair, also when several processes verify
\* attestations of one row at the same time (verify_attestation, _upgrade).
MultipliedOnce ==
    \A r \in EvalRuns :
        LET of == {m \in attestations : m.run = r}
        IN  /\ Cardinality(of) = multiplied[r] /\ multiplied[r] <= 1
            /\ \A m \in of : nonces[m.nonce].hk = RunOwner[r] /\ nonces[m.nonce].ch = RunInstance[r]

\* Attestations: types, and one multiplier per row.
AttestInv == AttestTypeOK /\ MultipliedOnce
=============================================================================
