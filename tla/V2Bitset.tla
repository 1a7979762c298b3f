------------------------------ MODULE V2Bitset ------------------------------
(***************************************************************************)
(* The V2 per-miner bitset lane of the publisher: tokens bound to one CNF, *)
(* the thin submit handler, the asynchronous verify workers, the payout    *)
(* bridge into per_miner_solves and the results files.                     *)
(*                                                                         *)
(* A CNF text is named by the generator configuration that produced it, so *)
(* a configuration stands for the text, its sha256 and its variable count. *)
(* A submitted assignment is named by the configuration whose CNF it       *)
(* satisfies, or NONE.  Signatures, HMACs, base64 and shapes only refuse a *)
(* request before anything is stored.                                      *)
(***************************************************************************)
EXTENDS Naturals, FiniteSets, Sequences, Absent

CONSTANTS
    Hotkeys, Challenges, Identities,
    Owner,        \* the identity a challenge id is derived from
    ChEpoch,      \* the epoch in a challenge id
    Configs,      \* generator configurations a deployment may run with
    Workers, Handlers,
    BatchSize,    \* rows of one claim
    MaxPending,   \* CATHEDRAL_V2_SUBMIT_BACKPRESSURE_MAX_PENDING, 0 disables
    BridgeOn,     \* pm_payout_bridge_enabled
    MaxEpoch, MaxChanges, MaxFails      \* bounds of the model

ASSUME V2Constants ==
    /\ Owner \in [Challenges -> Identities]
    /\ ChEpoch \in [Challenges -> Nat]
    /\ BatchSize \in Nat \ {0}
    /\ {MaxPending, MaxEpoch, MaxChanges, MaxFails} \subseteq Nat
    /\ BridgeOn \in BOOLEAN
    /\ NONE \notin Configs
    /\ IsFiniteSet(Hotkeys) /\ IsFiniteSet(Challenges)

Keys == Hotkeys \X Challenges      \* idempotency_key: one row per miner and challenge

Row == [status : {"received", "verified", "rejected"},
        cnf    : Configs,                  \* cnf_sha256 of the token
        wit    : Configs \cup {NONE},      \* assignment_b64
        locked : BOOLEAN]                  \* locked_until_iso in the future

Token == [hk : Hotkeys, ch : Challenges, cnf : Configs]
Job == [verdict : {"undecided", "verified", "rejected"}, at : 0..MaxEpoch]
Paid == [proto : {"v1", "v2"}, at : 0..MaxEpoch]
Result == [hk : Hotkeys \cup {NONE}, epoch : (0..MaxEpoch) \cup {NONE}]

\* A row that is not there, a job that is not held and a miner who is not paid.
ASSUME NoRowIsNone == NONE \notin Row \cup Job \cup Paid

VARIABLES
    now,        \* pm.current_epoch()
    config,     \* the environment the generator reads
    ident,      \* coldkey_map: the scoring identity of a hotkey
    cnfStore,   \* v2_cnf_store
    tokens,     \* submit tokens that have not expired
    events,     \* v2_submit_events
    queue,      \* its keys in received_at order
    ledger,     \* per_miner_solves
    files,      \* results/<hotkey>.json: the rows shown as verified
    handlers,   \* requests between their reads and the admit
    jobs,       \* rows a worker has claimed and not finished
    results,    \* result dictionaries of the worker's tick
    changes, fails

env == <<now, config, ident, changes>>
bitsetVars == <<now, config, ident, cnfStore, tokens, events, queue, ledger, files,
          handlers, jobs, results, changes, fails>>

BitsetInit ==
    /\ now = 0
    /\ config \in Configs
    /\ ident \in [Hotkeys -> Identities]
    /\ cnfStore = [c \in Challenges |-> NONE]
    /\ tokens = {}
    /\ events = [k \in Keys |-> NONE]
    /\ queue = <<>>
    /\ ledger = [k \in Keys |-> NONE]
    /\ files = [h \in Hotkeys |-> {}]
    /\ handlers = [a \in Handlers |-> NONE]
    /\ jobs = [w \in Workers |-> [k \in Keys |-> NONE]]
    /\ results = [w \in Workers |-> {}]
    /\ changes = 0 /\ fails = 0

----------------------------------------------------------------------------
(* The environment *)

EpochRolls ==
    /\ now < MaxEpoch
    /\ now' = now + 1
    /\ UNCHANGED <<config, ident, cnfStore, tokens, events, queue, ledger, files,
                   handlers, jobs, results, changes, fails>>

\* A redeploy with other CATHEDRAL_V2_PERMINER_* values.
ConfigDrifts ==
    /\ changes < MaxChanges
    /\ config' \in Configs \ {config}
    /\ changes' = changes + 1
    /\ UNCHANGED <<now, ident, cnfStore, tokens, events, queue, ledger, files,
                   handlers, jobs, results, fails>>

\* The metagraph poller rewrites a coldkey_map row.
Remap(h) ==
    /\ changes < MaxChanges
    /\ \E i \in Identities \ {ident[h]} : ident' = [ident EXCEPT ![h] = i]
    /\ changes' = changes + 1
    /\ UNCHANGED <<now, config, cnfStore, tokens, events, queue, ledger, files,
                   handlers, jobs, results, fails>>

ExpireToken(t) ==
    /\ tokens' = tokens \ {t}
    /\ UNCHANGED <<env, cnfStore, events, queue, ledger, files, handlers, jobs,
                   results, fails>>

\* purge_older_than; the retention clamp is not relied on.
purge_older_than(c) ==
    /\ cnfStore[c] # NONE
    /\ cnfStore' = [cnfStore EXCEPT ![c] = NONE]
    /\ UNCHANGED <<env, tokens, events, queue, ledger, files, handlers, jobs,
                   results, fails>>

----------------------------------------------------------------------------
(* v2_cnf_store *)

\* get: the stored text, unless it does not hash to the expected value.
\* Mutant: the stored text is trusted.
get_ungated(c, expected) == cnfStore[c]
get(c, expected) ==
    IF expected = NONE \/ cnfStore[c] = expected THEN cnfStore[c] ELSE NONE

\* put: INSERT OR IGNORE.
put(c, text) == [cnfStore EXCEPT ![c] = IF @ = NONE THEN text ELSE @]

----------------------------------------------------------------------------
(* Tokens and the submit handler *)

InWindow(c) == now \in {ChEpoch[c], ChEpoch[c] + 1}
Owns(h, c) == ident[h] = Owner[c]

\* v2_per_miner_challenges and v2_per_miner_cnf: the CNF served and the token
\* minted for it.
\* Mutant: a miss in the store is not regenerated.
mint_submit_token_store_only(h, c) ==
    LET text == get(c, NONE)
    IN /\ InWindow(c)
       /\ Owns(h, c)
       /\ tokens' = tokens \cup {[hk |-> h, ch |-> c, cnf |-> text]}
       /\ cnfStore' = put(c, text)
       /\ UNCHANGED <<env, events, queue, ledger, files, handlers, jobs,
                      results, fails>>
mint_submit_token(h, c) ==
    LET text == IF get(c, NONE) # NONE THEN get(c, NONE) ELSE config
    IN /\ InWindow(c)
       /\ Owns(h, c)
       /\ tokens' = tokens \cup {[hk |-> h, ch |-> c, cnf |-> text]}
       /\ cnfStore' = put(c, text)
       /\ UNCHANGED <<env, events, queue, ledger, files, handlers, jobs,
                      results, fails>>

Pending == {k \in Keys : events[k] # NONE /\ events[k].status = "received"}

\* _v2_submit_backpressure_snapshot.
Backpressure == MaxPending > 0 /\ Cardinality(Pending) >= MaxPending

\* submit_bitset_v2 up to the hand-over to the executor: the token is checked,
\* an existing receipt or backpressure answers the request.
submit_bitset_v2(a, t, wit) ==
    /\ handlers[a] = NONE
    /\ t \in tokens
    /\ events[<<t.hk, t.ch>>] = NONE
    /\ ~Backpressure
    /\ handlers' = [handlers EXCEPT ![a] = [tok |-> t, wit |-> wit]]
    /\ UNCHANGED <<env, cnfStore, tokens, events, queue, ledger, files, jobs,
                   results, fails>>

\* _admit_received and admit_received_event: epoch and ownership once more, then
\* INSERT OR IGNORE on the idempotency key.
admit_received_event(a) ==
    LET t == handlers[a].tok
        k == <<t.hk, t.ch>>
        fresh == InWindow(t.ch) /\ Owns(t.hk, t.ch) /\ events[k] = NONE
    IN /\ handlers[a] # NONE
       /\ handlers' = [handlers EXCEPT ![a] = NONE]
       /\ events' = IF fresh
                    THEN [events EXCEPT ![k] =
                             [status |-> "received", cnf |-> t.cnf,
                              wit |-> handlers[a].wit, locked |-> FALSE]]
                    ELSE events
       /\ queue' = IF fresh THEN Append(queue, k) ELSE queue
       /\ UNCHANGED <<env, cnfStore, tokens, ledger, files, jobs, results, fails>>

\* The V1 accept path records the same identity-derived challenge.
record_perminer_solve(h, c) ==
    /\ InWindow(c)
    /\ Owns(h, c)
    /\ ledger[<<h, c>>] = NONE
    /\ ledger' = [ledger EXCEPT ![<<h, c>>] = [proto |-> "v1", at |-> now]]
    /\ UNCHANGED <<env, cnfStore, tokens, events, queue, files, handlers, jobs,
                   results, fails>>

----------------------------------------------------------------------------
(* The verify worker *)

Busy(w) == \E k \in Keys : jobs[w][k] # NONE

Claimable(k) == events[k].status = "received" /\ ~events[k].locked

\* claim_bitset_batch: oldest first, expired locks included.
claim_bitset_batch(w) ==
    LET open == {i \in 1..Len(queue) : Claimable(queue[i])}
        picked == {queue[i] : i \in {j \in open :
                                        Cardinality({h \in open : h < j}) < BatchSize}}
    IN /\ ~Busy(w)
       /\ results[w] = {}
       /\ picked # {}
       /\ events' = [k \in Keys |-> IF k \in picked
                                    THEN [events[k] EXCEPT !.locked = TRUE]
                                    ELSE events[k]]
       /\ jobs' = [jobs EXCEPT ![w] = [k \in Keys |->
                      IF k \in picked THEN [verdict |-> "undecided", at |-> 0]
                      ELSE NONE]]
       /\ UNCHANGED <<env, cnfStore, tokens, queue, ledger, files, handlers,
                      results, fails>>

\* Time passes locked_until_iso while the worker is still at the row.
LockLapses(k) ==
    /\ events[k] # NONE
    /\ events[k].locked
    /\ events' = [events EXCEPT ![k].locked = FALSE]
    /\ UNCHANGED <<env, cnfStore, tokens, queue, ledger, files, handlers, jobs,
                   results, fails>>

\* The CNF the witness is checked against: the stored text of that hash, else
\* the regenerated one; NONE when regeneration gives another text.
CheckedCnf(k) ==
    LET text == get(k[2], events[k].cnf)
    IN IF text # NONE THEN text
       ELSE IF config = events[k].cnf THEN config ELSE NONE

\* verify_bitset_one up to the call of _finish.
\* Mutant: the epoch gate is left to the admit.
Verdict_no_epoch_gate(k) ==
    IF /\ Owns(k[1], k[2])
       /\ CheckedCnf(k) # NONE
       /\ events[k].wit = CheckedCnf(k)
    THEN "verified" ELSE "rejected"
Verdict(k) ==
    IF /\ InWindow(k[2])
       /\ Owns(k[1], k[2])
       /\ CheckedCnf(k) # NONE
       /\ events[k].wit = CheckedCnf(k)
    THEN "verified" ELSE "rejected"

Undecided(w, k) == jobs[w][k] # NONE /\ jobs[w][k].verdict = "undecided"
Decided(w, k) == jobs[w][k] # NONE /\ jobs[w][k].verdict # "undecided"

verify_bitset_one(w, k) ==
    /\ Undecided(w, k)
    /\ jobs' = [jobs EXCEPT ![w][k] = [verdict |-> Verdict(k), at |-> now]]
    /\ cnfStore' = IF InWindow(k[2]) /\ Owns(k[1], k[2]) /\ CheckedCnf(k) # NONE
                   THEN put(k[2], CheckedCnf(k)) ELSE cnfStore
    /\ UNCHANGED <<env, tokens, events, queue, ledger, files, handlers, results,
                   fails>>

\* What verify_bitset_one returns for the results file: the verified dictionary
\* names the miner and no epoch, the rejected one neither.
ResultOf(k, verdict) ==
    [hk |-> IF verdict = "verified" THEN k[1] ELSE NONE, epoch |-> NONE]

\* _finish: the ledger insert and the terminal status in one transaction, with
\* no test of the row's status or lock.
\* Mutant: the payout is a transaction of its own, lost with a failure.
finish_two_txns(w, k) ==
    LET j == jobs[w][k]
    IN /\ Decided(w, k)
       /\ events' = [events EXCEPT ![k].status = j.verdict, ![k].locked = FALSE]
       /\ \/ ledger' = IF j.verdict = "verified" /\ BridgeOn /\ ledger[k] = NONE
                       THEN [ledger EXCEPT ![k] = [proto |-> "v2", at |-> j.at]]
                       ELSE ledger
          \/ UNCHANGED ledger
       /\ jobs' = [jobs EXCEPT ![w][k] = NONE]
       /\ results' = [results EXCEPT ![w] = @ \cup {ResultOf(k, j.verdict)}]
       /\ UNCHANGED <<env, cnfStore, tokens, queue, files, handlers, fails>>
\* Mutant: the rejecting UPDATE writes NULLs into NOT NULL columns and fails.
finish_null_reject(w, k) ==
    LET j == jobs[w][k]
    IN /\ Decided(w, k)
       /\ events' = IF j.verdict = "verified"
                    THEN [events EXCEPT ![k].status = j.verdict, ![k].locked = FALSE]
                    ELSE [events EXCEPT ![k].locked = FALSE]
       /\ ledger' = IF j.verdict = "verified" /\ BridgeOn /\ ledger[k] = NONE
                    THEN [ledger EXCEPT ![k] = [proto |-> "v2", at |-> j.at]]
                    ELSE ledger
       /\ jobs' = [jobs EXCEPT ![w][k] = NONE]
       /\ results' = [results EXCEPT ![w] = @ \cup {ResultOf(k, j.verdict)}]
       /\ UNCHANGED <<env, cnfStore, tokens, queue, files, handlers, fails>>
finish(w, k) ==
    LET j == jobs[w][k]
    IN /\ Decided(w, k)
       /\ events' = [events EXCEPT ![k].status = j.verdict, ![k].locked = FALSE]
       /\ ledger' = IF j.verdict = "verified" /\ BridgeOn /\ ledger[k] = NONE
                    THEN [ledger EXCEPT ![k] = [proto |-> "v2", at |-> j.at]]
                    ELSE ledger
       /\ jobs' = [jobs EXCEPT ![w][k] = NONE]
       /\ results' = [results EXCEPT ![w] = @ \cup {ResultOf(k, j.verdict)}]
       /\ UNCHANGED <<env, cnfStore, tokens, queue, files, handlers, fails>>

\* The exception path: the lock is dropped, whoever holds it by now.
verify_error(w, k) ==
    /\ jobs[w][k] # NONE
    /\ fails < MaxFails
    /\ fails' = fails + 1
    /\ events' = [events EXCEPT ![k].locked = FALSE]
    /\ jobs' = [jobs EXCEPT ![w][k] = NONE]
    /\ results' = [results EXCEPT ![w] = @ \cup {[hk |-> NONE, epoch |-> NONE]}]
    /\ UNCHANGED <<env, cnfStore, tokens, queue, ledger, files, handlers>>

\* The process dies with its batch.
WorkerDies(w) ==
    /\ Busy(w)
    /\ fails < MaxFails
    /\ fails' = fails + 1
    /\ jobs' = [jobs EXCEPT ![w] = [k \in Keys |-> NONE]]
    /\ results' = [results EXCEPT ![w] = {}]
    /\ UNCHANGED <<env, cnfStore, tokens, events, queue, ledger, files, handlers>>

\* publish_miner_results: the file of a hotkey is rebuilt for one epoch.
publish_miner_results(h, e) ==
    {k \in Keys : /\ k[1] = h /\ ChEpoch[k[2]] = e
                  /\ events[k] # NONE /\ events[k].status = "verified"}

\* publish_changed_miners: a result without hotkey or epoch is skipped; the
\* last epoch published for a hotkey is the one its file shows.
publish_changed_miners(w) ==
    LET named == {r \in results[w] : r.hk # NONE /\ r.epoch # NONE}
    IN /\ ~Busy(w)
       /\ results[w] # {}
       /\ \E pick \in [Hotkeys -> named \cup {NONE}] :
            /\ \A h \in Hotkeys :
                 IF \E r \in named : r.hk = h THEN pick[h] # NONE /\ pick[h].hk = h
                 ELSE pick[h] = NONE
            /\ files' = [h \in Hotkeys |->
                            IF pick[h] = NONE THEN files[h]
                            ELSE publish_miner_results(h, pick[h].epoch)]
       /\ results' = [results EXCEPT ![w] = {}]
       /\ UNCHANGED <<env, cnfStore, tokens, events, queue, ledger, handlers,
                      jobs, fails>>

----------------------------------------------------------------------------
BitsetNext ==
    \/ EpochRolls
    \/ ConfigDrifts
    \/ \E h \in Hotkeys : Remap(h)
    \/ \E t \in tokens : ExpireToken(t)
    \/ \E c \in Challenges : purge_older_than(c)
    \/ \E h \in Hotkeys, c \in Challenges :
          mint_submit_token(h, c) \/ record_perminer_solve(h, c)
    \/ \E a \in Handlers, t \in tokens, wit \in Configs \cup {NONE} :
          submit_bitset_v2(a, t, wit)
    \/ \E a \in Handlers : admit_received_event(a)
    \/ \E k \in Keys : LockLapses(k)
    \/ \E w \in Workers :
          \/ claim_bitset_batch(w)
          \/ publish_changed_miners(w)
          \/ WorkerDies(w)
          \/ \E k \in Keys : \/ verify_bitset_one(w, k)
                             \/ finish(w, k)
                             \/ verify_error(w, k)

BitsetSpec == BitsetInit /\ [][BitsetNext]_bitsetVars

----------------------------------------------------------------------------
(* Properties *)

\* Every variable has the shape of its table, file or local variable.
BitsetTypeOK ==
    /\ now \in 0..MaxEpoch
    /\ config \in Configs
    /\ ident \in [Hotkeys -> Identities]
    /\ cnfStore \in [Challenges -> Configs \cup {NONE}]
    /\ tokens \subseteq Token
    /\ events \in [Keys -> Row \cup {NONE}]
    /\ queue \in Seq(Keys)
    /\ ledger \in [Keys -> Paid \cup {NONE}]
    /\ files \in [Hotkeys -> SUBSET Keys]
    /\ handlers \in [Handlers ->
          [tok : Token, wit : Configs \cup {NONE}] \cup {NONE}]
    /\ jobs \in [Workers -> [Keys -> Job \cup {NONE}]]
    /\ results \in [Workers -> SUBSET Result]
    /\ changes \in 0..MaxChanges /\ fails \in 0..MaxFails

\* What the bridge pays satisfies the very CNF the miner's token was bound to,
\* whatever the CNF store held and however the configuration drifted.
PaidWitnessChecked ==
    \A k \in Keys : ledger[k] # NONE /\ ledger[k].proto = "v2" =>
        events[k] # NONE /\ events[k].wit = events[k].cnf

\* solved_at of a bridged row lies in the challenge's epoch or the grace epoch:
\* work that slipped past the admit is not paid late.
SolvedInWindow ==
    \A k \in Keys : ledger[k] # NONE =>
        ledger[k].at \in {ChEpoch[k[2]], ChEpoch[k[2]] + 1}

\* A verified receipt is a paid one: the bridge writes both or neither.
VerifiedIsPaid ==
    BridgeOn => \A k \in Keys :
        events[k] # NONE /\ events[k].status = "verified" => ledger[k] # NONE

\* A received event is verified or rejected in the end.
EventResolved ==
    \A k \in Keys :
        (events[k] # NONE /\ events[k].status = "received")
            ~> (events[k] # NONE /\ events[k].status # "received")

\* The bitset lane: types, paid work was checked, in its window and recorded.
BitsetInv == BitsetTypeOK /\ PaidWitnessChecked /\ SolvedInWindow /\ VerifiedIsPaid
=============================================================================
