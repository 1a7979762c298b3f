----------------------------- MODULE BoardRefill -----------------------------
(***************************************************************************)
(* The public challenge board: the refill loop that retires and mints, the *)
(* generator service it leases instances from, the pre-generation thread,  *)
(* the CNF bodies served from memory or a bucket, and the cached board.    *)
(*                                                                         *)
(* Sources: refill.py, cnf_store.py, board_cache.py and seed_challenge of  *)
(* app.py.  A challenge id is <<hour, tier, sequence>>: mint_challenge_id  *)
(* is a keyed hash of exactly these.  A body is a value that tells two     *)
(* DIMACS files apart: the one the id's own seed generates, one of the     *)
(* pre-generation thread (its seeds follow a private counter), or one of   *)
(* the generator service.                                                  *)
(***************************************************************************)
EXTENDS Absent, Naturals, Sequences, FiniteSets, Functions, SequencesExt

CONSTANTS
    BoardTiers,       \* the configured tiers, in order (_DEFAULT_TARGETS)
    Target,           \* target_for
    MintCap,          \* MINT_CAP_FORK, or generator_max_mints; without a fork it is one
    Saturated,        \* retire_after_distinct_solvers
    PregenSize,       \* _PREGEN_QUEUE_SIZE
    CacheSize,        \* _CNF_MEM_CACHE_SIZE
    BoardServers,     \* publisher processes that serve the board
    Refiller,         \* the one of them that holds the refill lock
    BoardConfs,       \* deployments: [generator, fallback, bucket]
    MaxHour,          \* bound on the clock, in hours (RETIRE_AFTER is one)
    MaxRows,          \* bound on challenges before the last pass
    MaxMints,         \* bound on bodies generated
    MaxBoardFaults    \* bound on failed calls and restarts

ASSUME BoardAssumption ==
    /\ Refiller \in BoardServers
    /\ BoardTiers # <<>> /\ BoardTiers \in Seq(Range(BoardTiers))
    /\ {Target, MintCap, Saturated, CacheSize} \subseteq Nat \ {0}
    /\ {PregenSize, MaxHour, MaxRows, MaxMints, MaxBoardFaults} \subseteq Nat
    /\ BoardConfs \subseteq [generator : {"off", "on", "unconfigured"},
                            fallback : BOOLEAN, bucket : BOOLEAN]

VARIABLES
    boardConf,   \* the environment of this deployment
    rows,        \* lane_challenges: id -> [status, body, created, solvers]
    hour,        \* the wall clock
    refiller,    \* the refill task: [pc, tiers, work, id, at, cap, body, retired],
                 \* work the ids planned, id the one being minted
    pregen,      \* tier -> queue of pre-generated bodies
    forkOk,      \* _FORK_OK
    leases,      \* the generator's leases: id -> [state, body]
    objects,     \* bucket objects: id -> body
    memory,      \* per process, the LRU of CNF bodies, oldest first
    snapshot,    \* the refilling process's cached board: [ids, dirty, lapsed, thread,
                 \* missed]; missed (history): a retirement was not announced
    bodies,      \* bodies generated so far
    boardFaults  \* failures so far

boardVars == <<boardConf, rows, hour, refiller, pregen, forkOk, leases,
               objects, memory, snapshot, bodies, boardFaults>>

Blank == "blank"        \* cnf_text = ''
Resting == [pc |-> "idle", tiers |-> <<>>, work |-> {}, id |-> NONE, at |-> 0,
            cap |-> 0, body |-> NONE, retired |-> FALSE]
Cold == [ids |-> NONE, dirty |-> TRUE, lapsed |-> FALSE, thread |-> "none",
         missed |-> FALSE]

Active(tier) == {i \in DOMAIN rows : i[2] = tier /\ rows[i].status = "active"}
ActiveBoard == {i \in DOMAIN rows : rows[i].status = "active"}
Tier == Head(refiller.tiers)
Fault == boardFaults < MaxBoardFaults /\ boardFaults' = boardFaults + 1

(* Every mutation of the active set drops the snapshot of its own process  *)
(* only: snapshot is that one; the other replicas keep theirs until the    *)
(* TTL lapses.                                                             *)
invalidate_all(snap) == [snap EXCEPT !.dirty = TRUE]

-----------------------------------------------------------------------------
(* Bodies.                                                                 *)

(* The id's own seed always generates the same body; a fork that fails     *)
(* turns forking off for good and the same body is generated in process.   *)
seeded(id) == <<"seed", id>>

gen_cnf_fork(id) ==
    /\ forkOk
    /\ refiller' = [refiller EXCEPT !.pc = "commit", !.body = seeded(id)]
    /\ UNCHANGED <<forkOk, boardFaults>>

gen_cnf(id) ==
    \/ gen_cnf_fork(id)
    \/ /\ IF forkOk THEN Fault ELSE UNCHANGED boardFaults
       /\ forkOk' = FALSE
       /\ refiller' = [refiller EXCEPT !.pc = "commit", !.body = seeded(id)]

(* The pre-generation thread of a tier: started by the first refill of a   *)
(* process whose generator is not on, idle while forking is off or full.      *)
pregen_worker(tier) ==
    /\ boardConf.generator # "on"
    /\ forkOk /\ Len(pregen[tier]) < PregenSize /\ bodies < MaxMints
    /\ bodies' = bodies + 1
    /\ pregen' = [pregen EXCEPT ![tier] = Append(@, <<"pregen", bodies>>)]
    /\ UNCHANGED <<boardConf, rows, hour, refiller, forkOk, leases, objects,
                   memory, snapshot, boardFaults>>

-----------------------------------------------------------------------------
(* The refill pass: for each tier retire, plan, then mint one by one.  The *)
(* hour of the ids and the cap of the mints are read before anything else. *)

refill_tier(tiers) ==
    [Resting EXCEPT !.pc = "age", !.tiers = tiers, !.at = hour,
                    !.cap = IF boardConf.generator = "on" \/ forkOk THEN MintCap ELSE 1]

refill_once_async ==
    /\ refiller.pc = "idle" /\ Cardinality(DOMAIN rows) < MaxRows
    /\ refiller' = refill_tier(BoardTiers)
    /\ UNCHANGED <<boardConf, rows, hour, pregen, forkOk, leases, objects,
                   memory, snapshot, bodies, boardFaults>>

(* retire_ready: first by age since creation, then by distinct solvers;    *)
(* two writes, and a retired row loses its body.  A failed write ends the  *)
(* pass, and then what the first write retired is not announced to the     *)
(* cached board.                                                           *)
retire(ready, next) ==
    \/ /\ rows' = [i \in DOMAIN rows |->
                     IF i \in ready THEN [rows[i] EXCEPT !.status = "retired", !.body = Blank]
                     ELSE rows[i]]
       /\ refiller' = [refiller EXCEPT !.pc = next, !.retired = @ \/ ready # {}]
       /\ UNCHANGED <<snapshot, boardFaults>>
    \/ /\ Fault
       /\ refiller' = Resting
       /\ snapshot' = [snapshot EXCEPT !.missed = @ \/ refiller.retired]
       /\ UNCHANGED rows

RetireAged ==
    /\ refiller.pc = "age"
    /\ retire({i \in Active(Tier) : rows[i].created < hour}, "solved")
    /\ UNCHANGED <<boardConf, hour, pregen, forkOk, leases, objects, memory, bodies>>

RetireSolved ==
    /\ refiller.pc = "solved"
    /\ retire({i \in Active(Tier) : rows[i].solvers >= Saturated},
              IF refiller.retired \/ \E i \in Active(Tier) : rows[i].solvers >= Saturated
              THEN "announce" ELSE "plan")
    /\ UNCHANGED <<boardConf, hour, pregen, forkOk, leases, objects, memory, bodies>>

(* Mutant: the plan trusts the row count and does not look for the id.     *)
fresh_ids_counted(tier, at, cap) ==
    LET count == Cardinality({i \in DOMAIN rows : i[2] = tier})
    IN  {<<at, tier, n>> : n \in count..(count + cap - 1)}

(* The ids of a plan: sequence numbers start at the number of rows the     *)
(* tier ever had, ids that exist are skipped, and the walk gives up after  *)
(* 4 * target + 8 numbers.  Planning does not change the active count, so  *)
(* a tier one short of its target plans a whole cap of mints.              *)
fresh_ids(tier, at, cap) ==
    LET count == Cardinality({i \in DOMAIN rows : i[2] = tier})
        new   == {<<at, tier, n>> : n \in count..(count + Target * 4 + 7)} \ DOMAIN rows
    IN  {i \in new : Cardinality({j \in new : j[3] < i[3]}) < cap}

plan_tier ==
    /\ refiller.pc = "plan"
    /\ refiller' = [refiller EXCEPT !.pc = "mint",
          !.work = IF Cardinality(Active(Tier)) >= Target THEN {}
                   ELSE fresh_ids(Tier, refiller.at, refiller.cap)]
    /\ UNCHANGED <<boardConf, rows, hour, pregen, forkOk, leases, objects,
                   memory, snapshot, bodies, boardFaults>>

TierDone ==
    /\ refiller.pc = "mint" /\ refiller.work = {}
    /\ refiller' = IF Len(refiller.tiers) = 1 THEN Resting
                   ELSE refill_tier(Tail(refiller.tiers))
    /\ UNCHANGED <<boardConf, rows, hour, pregen, forkOk, leases, objects,
                   memory, snapshot, bodies, boardFaults>>

(* The counts before the plan and after the mints are queries: one that    *)
(* fails ends the pass.                                                    *)
PassFails ==
    /\ refiller.pc = "plan" \/ (refiller.pc = "mint" /\ refiller.work = {})
    /\ Fault
    /\ refiller' = Resting
    /\ UNCHANGED <<boardConf, rows, hour, pregen, forkOk, leases, objects,
                   memory, snapshot, bodies>>

Next1 == [refiller EXCEPT !.pc = "mint", !.id = NONE, !.body = NONE]

(* The local sources: the pre-generated queue first, else the id's seed.   *)
get_pregen_cnf(id) ==
    IF pregen[Tier] = <<>>
    THEN gen_cnf(id) /\ UNCHANGED pregen
    ELSE /\ refiller' = [refiller EXCEPT !.pc = "commit", !.body = Head(pregen[Tier])]
         /\ pregen' = [pregen EXCEPT ![Tier] = Tail(@)]
         /\ UNCHANGED <<forkOk, boardFaults>>

(* The planned id of the least number.  A generator that is switched on    *)
(* without url and token fails every mint.                                 *)
mint_one ==
    /\ refiller.pc = "mint"
    /\ \E id \in refiller.work :
         /\ \A other \in refiller.work : id[3] <= other[3]
         /\ refiller' = [refiller EXCEPT !.work = @ \ {id},
               !.id = IF boardConf.generator = "unconfigured" THEN NONE ELSE id,
               !.pc = CASE boardConf.generator = "on"  -> "lease"
                        [] boardConf.generator = "off" -> "local"
                        [] OTHER -> "mint"]
    /\ UNCHANGED <<boardConf, rows, hour, pregen, forkOk, leases, objects,
                   memory, snapshot, bodies, boardFaults>>

LocalMint ==
    /\ refiller.pc = "local"
    /\ get_pregen_cnf(refiller.id)
    /\ UNCHANGED <<boardConf, rows, hour, leases, objects, memory, snapshot, bodies>>

(* A generator call failed: without the local fallback the mint is given   *)
(* up, with it the local sources are tried for the same id.                *)
GeneratorFailed ==
    /\ refiller.pc = "failed"
    /\ refiller' = IF boardConf.fallback THEN [refiller EXCEPT !.pc = "local"] ELSE Next1
    /\ UNCHANGED <<boardConf, rows, hour, pregen, forkOk, leases, objects,
                   memory, snapshot, bodies, boardFaults>>

(* Leasing: the id is the idempotency key, so an id that still holds a     *)
(* lease gets the same instance again.                                     *)
generator_lease ==
    /\ refiller.pc = "lease"
    /\ LET id == refiller.id
           held == id \in DOMAIN leases /\ leases[id].state # "released"
       IN  \/ /\ held
              /\ refiller' = [refiller EXCEPT !.pc = "fetch"]
              /\ UNCHANGED <<leases, bodies, boardFaults>>
           \/ /\ ~held /\ bodies < MaxMints
              /\ bodies' = bodies + 1
              /\ leases' = [x \in DOMAIN leases \cup {id} |->
                   IF x = id THEN [state |-> "leased", body |-> <<"generator", bodies>>]
                   ELSE leases[x]]
              /\ refiller' = [refiller EXCEPT !.pc = "fetch"]
              /\ UNCHANGED boardFaults
           \/ Fault /\ refiller' = [refiller EXCEPT !.pc = "failed"]
              /\ UNCHANGED <<leases, bodies>>
    /\ UNCHANGED <<boardConf, rows, hour, pregen, forkOk, objects, memory, snapshot>>

(* The fetched text must have the hash the lease promised.                 *)
generator_text(body, leased) == body = leased

release_generator_lease(id) ==
    \/ leases' = [leases EXCEPT ![id].state = "released"]
    \/ UNCHANGED leases

(* Fetch, hash check and confirm; any failure releases the lease (and a    *)
(* release that fails is only logged).  A confirmation whose answer is     *)
(* lost has still been applied when the release arrives.                   *)
FetchAndConfirm ==
    /\ refiller.pc = "fetch"
    /\ LET id == refiller.id
       IN  \/ \E text \in {leases[id].body, <<"damaged", id>>} :
                /\ generator_text(text, leases[id].body)
                /\ leases' = [leases EXCEPT ![id].state = "confirmed"]
                /\ refiller' = [refiller EXCEPT !.pc = "commit", !.body = text]
                /\ UNCHANGED boardFaults
           \/ /\ Fault
              /\ release_generator_lease(id)
              /\ refiller' = [refiller EXCEPT !.pc = "failed"]
    /\ UNCHANGED <<boardConf, rows, hour, pregen, forkOk, objects, memory,
                   snapshot, bodies>>

(* _commit_challenge: seed_challenge upserts the row under its id and      *)
(* drops the cached board.  A failed write fails the mint.                 *)
seed_challenge(id, body) ==
    /\ rows' = [x \in DOMAIN rows \cup {id} |->
         IF x = id THEN [status |-> "active", body |-> body, created |-> hour,
                         solvers |-> IF id \in DOMAIN rows THEN rows[id].solvers ELSE 0]
         ELSE rows[x]]

CommitFails ==
    refiller' = IF refiller.body[1] = "generator"
                THEN [refiller EXCEPT !.pc = "failed", !.body = NONE] ELSE Next1

commit_challenge ==
    /\ refiller.pc = "commit"
    /\ \/ /\ seed_challenge(refiller.id, refiller.body)
          /\ refiller' = [refiller EXCEPT !.pc = "written"]
          /\ UNCHANGED boardFaults
       \/ Fault /\ CommitFails /\ UNCHANGED rows
    /\ UNCHANGED <<boardConf, hour, pregen, forkOk, leases, objects, memory,
                   snapshot, bodies>>

(* invalidate() takes the lock a rebuild holds.                            *)
Invalidate ==
    /\ refiller.pc \in {"announce", "written"}
    /\ snapshot.thread # "building"
    /\ snapshot' = invalidate_all(snapshot)
    /\ refiller' = [refiller EXCEPT !.pc = IF @ = "written" THEN "put" ELSE "plan",
                                    !.retired = FALSE]
    /\ UNCHANGED <<boardConf, rows, hour, pregen, forkOk, leases, objects,
                   memory, bodies, boardFaults>>

(* The bucket upload happens once, after the row is active; a failed       *)
(* upload is only logged and is never repeated.                            *)
cnf_put_on_mint ==
    /\ refiller.pc = "put"
    /\ \/ /\ boardConf.bucket
          /\ objects' = [x \in DOMAIN objects \cup {refiller.id} |->
                           IF x = refiller.id THEN refiller.body ELSE objects[x]]
          /\ UNCHANGED boardFaults
       \/ boardConf.bucket /\ Fault /\ UNCHANGED objects
       \/ ~boardConf.bucket /\ UNCHANGED <<objects, boardFaults>>
    /\ refiller' = [refiller EXCEPT !.pc = "stamp"]
    /\ UNCHANGED <<boardConf, rows, hour, pregen, forkOk, leases, memory,
                   snapshot, bodies>>

(* The second write of _commit_challenge stamps updated_at.  When it fails *)
(* the mint counts as failed although the challenge is on the board, and a *)
(* generator mint with the local fallback is repeated under the same id.   *)
StampUpdatedAt ==
    /\ refiller.pc = "stamp"
    /\ \/ refiller' = Next1 /\ UNCHANGED boardFaults
       \/ Fault /\ CommitFails
    /\ UNCHANGED <<boardConf, rows, hour, pregen, forkOk, leases, objects,
                   memory, snapshot, bodies>>

-----------------------------------------------------------------------------
(* Serving.                                                                *)

(* The in-memory LRU is keyed by challenge id and never invalidated.       *)
cache_key(id) == id

LruHas(m, id) == \E k \in DOMAIN m : m[k][1] = cache_key(id)
LruBody(m, id) == m[CHOOSE k \in DOMAIN m : m[k][1] = cache_key(id)][2]

lru_get(m, id) ==
    LET hit == CHOOSE k \in DOMAIN m : m[k][1] = cache_key(id)
    IN  Append(RemoveAt(m, hit), m[hit])

lru_put(m, id, body) ==
    LET all == Append(m, <<cache_key(id), body>>)
    IN  IF Len(all) > CacheSize THEN Tail(all) ELSE all

(* What a token holder is given for an id.                                 *)
served(s, id) ==
    CASE boardConf.bucket -> IF id \in DOMAIN objects THEN objects[id] ELSE NONE
      [] ~boardConf.bucket /\ LruHas(memory[s], id) -> LruBody(memory[s], id)
      [] OTHER -> IF rows[id].body = Blank THEN NONE ELSE rows[id].body

serve(s, id) ==
    /\ ~boardConf.bucket /\ id \in DOMAIN rows
    /\ memory' = [memory EXCEPT ![s] =
          IF LruHas(@, id) THEN lru_get(@, id)
          ELSE IF rows[id].body = Blank THEN @ ELSE lru_put(@, id, rows[id].body)]
    /\ UNCHANGED <<boardConf, rows, hour, refiller, pregen, forkOk, leases,
                   objects, snapshot, bodies, boardFaults>>

(* A verified witness adds a distinct solver to an active challenge.       *)
Solve(id) ==
    /\ id \in ActiveBoard /\ rows[id].solvers < Saturated
    /\ rows' = [rows EXCEPT ![id].solvers = @ + 1]
    /\ UNCHANGED <<boardConf, hour, refiller, pregen, forkOk, leases, objects,
                   memory, snapshot, bodies, boardFaults>>

(* Board reads: fresh payload from memory; a stale one is served while one *)
(* thread rebuilds; a cold cache is rebuilt by the reader itself.          *)
is_fresh(c) == c.ids # NONE /\ ~c.dirty /\ ~c.lapsed

BoardRead ==
    /\ ~is_fresh(snapshot) /\ snapshot.thread = "none"
    /\ snapshot' = [snapshot EXCEPT !.thread = "started"]
    /\ UNCHANGED <<boardConf, rows, hour, refiller, pregen, forkOk, leases,
                   objects, memory, bodies, boardFaults>>

(* Mutant: the builder runs before the lock is taken, so an invalidation   *)
(* between the query and the store is lost.                                *)
rebuild_locked_late(c) == [c EXCEPT !.thread = "queried"]

(* The rebuild queries the database and stores the payload with the lock   *)
(* held.                                                                   *)
rebuild_locked(c) == [c EXCEPT !.thread = "building"]

StartRebuild ==
    /\ snapshot.thread = "started"
    /\ snapshot' =
         IF is_fresh(snapshot) THEN [snapshot EXCEPT !.thread = "none"]
         ELSE [rebuild_locked(snapshot) EXCEPT !.ids = ActiveBoard, !.missed = FALSE]
    /\ UNCHANGED <<boardConf, rows, hour, refiller, pregen, forkOk, leases,
                   objects, memory, bodies, boardFaults>>

EndRebuild ==
    /\ snapshot.thread \in {"building", "queried"}
    /\ snapshot' = [snapshot EXCEPT !.dirty = FALSE, !.lapsed = FALSE,
                                    !.thread = "none"]
    /\ UNCHANGED <<boardConf, rows, hour, refiller, pregen, forkOk, leases,
                   objects, memory, bodies, boardFaults>>

BoardTtlLapses ==
    /\ is_fresh(snapshot)
    /\ snapshot' = [snapshot EXCEPT !.lapsed = TRUE]
    /\ UNCHANGED <<boardConf, rows, hour, refiller, pregen, forkOk, leases,
                   objects, memory, bodies, boardFaults>>

HourPasses ==
    /\ hour < MaxHour
    /\ hour' = hour + 1
    /\ UNCHANGED <<boardConf, rows, refiller, pregen, forkOk, leases, objects,
                   memory, snapshot, bodies, boardFaults>>

(* A restart of the refilling process: memory, queue and flags are lost.   *)
BoardRestart ==
    /\ Fault
    /\ refiller' = Resting
    /\ pregen' = [t \in Range(BoardTiers) |-> <<>>]
    /\ forkOk' = TRUE
    /\ memory' = [memory EXCEPT ![Refiller] = <<>>]
    /\ snapshot' = Cold
    /\ UNCHANGED <<boardConf, rows, hour, leases, objects, bodies>>

BoardInit ==
    /\ boardConf \in BoardConfs
    /\ rows = << >> /\ hour = 0 /\ refiller = Resting
    /\ pregen = [t \in Range(BoardTiers) |-> <<>>]
    /\ forkOk = TRUE /\ leases = << >> /\ objects = << >>
    /\ memory = [s \in BoardServers |-> <<>>]
    /\ snapshot = Cold
    /\ bodies = 0 /\ boardFaults = 0

BoardNext ==
    \/ refill_once_async \/ RetireAged \/ RetireSolved \/ plan_tier \/ TierDone
    \/ PassFails \/ mint_one \/ LocalMint \/ GeneratorFailed \/ generator_lease \/ FetchAndConfirm
    \/ commit_challenge \/ Invalidate \/ cnf_put_on_mint \/ StampUpdatedAt
    \/ \E t \in Range(BoardTiers) : pregen_worker(t)
    \/ BoardRead \/ StartRebuild \/ EndRebuild \/ BoardTtlLapses
    \/ \E s \in BoardServers, i \in DOMAIN rows : serve(s, i)
    \/ \E i \in DOMAIN rows : Solve(i)
    \/ HourPasses \/ BoardRestart

-----------------------------------------------------------------------------
(* Types of the board's state.                                             *)
BoardTypeOK ==
    /\ boardConf \in BoardConfs /\ hour \in 0..MaxHour
    /\ \A i \in DOMAIN rows : rows[i].status \in {"active", "retired"}
    /\ \A i \in DOMAIN leases : leases[i].state \in {"leased", "confirmed", "released"}
    /\ forkOk \in BOOLEAN /\ bodies \in 0..MaxMints
    /\ boardFaults \in 0..MaxBoardFaults
    /\ \A s \in BoardServers : Len(memory[s]) <= CacheSize

(* A CNF body is immutable: whatever a process still serves for an active  *)
(* challenge - from its never-invalidated memory or from the bucket - is   *)
(* the body the verifier reads from the row, after failed mints, restarts, *)
(* retirements and plans repeated within the hour.  A missing body is not  *)
(* a wrong one.  The exception is a generator with the local fallback,     *)
(* which mints an id again when only its second write failed.              *)
MintsTwice == boardConf.generator = "on" /\ boardConf.fallback
ServedIsVerified ==
    ~MintsTwice => \A s \in BoardServers : \A i \in ActiveBoard :
                      served(s, i) \in {NONE, rows[i].body}

(* The process that mints and retires never takes its own stale board for  *)
(* a fresh one: when no mutation is between its write and its              *)
(* invalidation, and no failed retirement pass skipped that, a snapshot    *)
(* that would be served as fresh lists exactly the active challenges.      *)
FreshBoardIsCurrent ==
    (is_fresh(snapshot) /\ snapshot.thread # "building"
       /\ refiller.pc \notin {"announce", "written"} /\ ~refiller.retired
       /\ ~snapshot.missed)
    => snapshot.ids = ActiveBoard

(* The board: types, served bodies are the verified ones, no stale board   *)
(* passes for a fresh one.                                                 *)
BoardInv == BoardTypeOK /\ ServedIsVerified /\ FreshBoardIsCurrent
=============================================================================
