----------------------------- MODULE ReadCaches -----------------------------
(***************************************************************************)
(* The caches in front of the publisher's read routes: the soft-TTL cache  *)
(* of the explain and summary routes, the timer-built board, leaderboard   *)
(* and dashboard snapshots, the top cache that processes rebuild under one *)
(* advisory lock, and the cached answer whether a verify worker is alive.  *)
(*                                                                         *)
(* Source: app.py (_SoftTtlCache, routes, _async_worker_ready),            *)
(* materialized_snapshot.py, dashboard_snapshot.py, top_cache.py.          *)
(* A payload is the time it was finished; what the builders compute is     *)
(* left out.  Time is counted in ticks, and a step takes none.             *)
(***************************************************************************)
EXTENDS Absent, Integers, FiniteSets

CONSTANTS
    Ttl,            \* ttl_secs
    Backoff,        \* retry_backoff_secs
    MaxInflight,    \* max_inflight_secs
    MaxStale,       \* SNAPSHOT_MAX_STALE_SECS, max_stale_secs()
    Threads,        \* builder threads of the soft cache that may exist at a time
    SnapshotNames,  \* "board", "top", "dashboard"
    TopProcesses,   \* processes with a top cache
    WorkerStale,    \* submit_async_worker_stale_secs
    ReadyCache,     \* submit_async_worker_ready_cache_secs
    MaxCacheTime    \* bound on the clock

ASSUME CacheAssumption ==
    /\ {Ttl, MaxStale, WorkerStale, MaxCacheTime} \subseteq Nat
    /\ {Backoff, ReadyCache} \subseteq Nat \ {0} /\ MaxInflight >= Backoff

\* What the soft cache may keep under its key, beside nothing.
Entries == [done : 0..MaxCacheTime, refreshing : BOOLEAN, attempted : 0..MaxCacheTime,
            started : 0..MaxCacheTime, failures : {0, 1}, ok : BOOLEAN]

ASSUME NoEntryIsNone == \A e \in Entries : e # NONE

VARIABLES
    coldAsync,   \* visibility_cold_async
    cacheNow,    \* time.monotonic()
    entry,       \* the soft cache's entry: [done, refreshing, attempted, started, failures, ok]
    building,    \* thread -> NONE or [began, sync], a builder running
    failedAt,    \* the last failed refresh with no success since, or NONE
    hung,        \* a refresh was given up as hung at some time
    snaps,       \* name -> [made, done, building]: the payload, its built_at, its timer thread
    tops,        \* process -> its top cache, likewise
    topLock,     \* the process that holds the top-cache advisory lock, or NONE
    beat,        \* the last heartbeat a verify worker wrote
    ready,       \* submit_async_worker_cache: [until, ready]
    shown        \* the last answer: [from, age]

cacheVars == <<coldAsync, cacheNow, entry, building, failedAt, hung, snaps, tops, topLock,
               beat, ready, shown>>

softVars == <<entry, building, failedAt, hung>>
timerVars == <<snaps, tops, topLock>>
readyVars == <<beat, ready>>

Unbuilt == [made |-> NONE, done |-> NONE, building |-> FALSE]
Built == [made |-> cacheNow, done |-> cacheNow, building |-> FALSE]
Show(route, age) == shown' = [from |-> route, age |-> age]

----------------------------------------------------------------------------
(* The soft-TTL cache.                                                     *)

Running == {t \in Threads : building[t] # NONE /\ ~building[t].sync}
Spare == {t \in Threads : building[t] = NONE}
Spawn(sync) ==
    \E t \in Spare : building' = [building EXCEPT ![t] = [began |-> cacheNow, sync |-> sync]]

(* Mutant: a failed refresh is retried at the next request.                *)
may_spawn_now(e) == ~e.refreshing \/ cacheNow - e.started >= MaxInflight

(* No refresh beside one in flight, unless that one counts as hung, and    *)
(* none within the backoff of a failure.                                   *)
may_spawn(e) ==
    /\ ~e.refreshing \/ cacheNow - e.started >= MaxInflight
    /\ e.failures = 0 \/ cacheNow - e.attempted >= Backoff

IsFresh(e) == e.ok /\ (Ttl = 0 \/ cacheNow - e.done <= Ttl)

(* A hit; or the value as it is, with a refresh started when one may be;   *)
(* or, with no entry, a placeholder and a first build in the background,   *)
(* or the build in the request itself.                                     *)
soft_get ==
    \/ /\ entry # NONE /\ IsFresh(entry)
       /\ Show("hit", 0)
       /\ UNCHANGED softVars
    \/ /\ entry # NONE /\ ~IsFresh(entry)
       /\ IF may_spawn(entry)
          THEN /\ Spawn(FALSE)
               /\ entry' = [entry EXCEPT !.refreshing = TRUE, !.attempted = cacheNow,
                                         !.started = cacheNow]
               /\ hung' = (hung \/ entry.refreshing)
          ELSE UNCHANGED <<entry, building, hung>>
       /\ Show(IF entry'.refreshing THEN (IF entry.ok THEN "stale" ELSE "warming")
               ELSE "degraded", 0)
       /\ UNCHANGED failedAt
    \/ /\ entry = NONE /\ coldAsync
       /\ Spawn(FALSE)
       /\ entry' = [done |-> 0, refreshing |-> TRUE, attempted |-> cacheNow,
                    started |-> cacheNow, failures |-> 0, ok |-> FALSE]
       /\ Show("warming", 0)
       /\ UNCHANGED <<failedAt, hung>>
    \/ /\ entry = NONE /\ ~coldAsync
       /\ Spawn(TRUE)
       /\ UNCHANGED <<entry, failedAt, hung, shown>>

SoftGet == soft_get /\ UNCHANGED <<coldAsync, cacheNow, timerVars, readyVars>>

(* A build returns: its value replaces the entry, whoever wrote it last.   *)
RefreshReturns(t) ==
    /\ building[t] # NONE
    /\ building' = [building EXCEPT ![t] = NONE]
    /\ entry' = [done |-> cacheNow, refreshing |-> FALSE, attempted |-> cacheNow, started |-> 0,
                 failures |-> 0, ok |-> TRUE]
    /\ failedAt' = NONE
    /\ UNCHANGED <<coldAsync, cacheNow, hung, timerVars, readyVars, shown>>

(* A build fails: a background one keeps the value and stamps the attempt; *)
(* in the request it fails the request.                                    *)
RefreshFails(t) ==
    /\ building[t] # NONE
    /\ building' = [building EXCEPT ![t] = NONE]
    /\ IF building[t].sync THEN UNCHANGED <<entry, failedAt>>
       ELSE /\ entry' = [entry EXCEPT !.refreshing = FALSE, !.attempted = cacheNow,
                                      !.failures = IF @ = 0 THEN 1 ELSE @]
            /\ failedAt' = cacheNow
    /\ UNCHANGED <<coldAsync, cacheNow, hung, timerVars, readyVars, shown>>

----------------------------------------------------------------------------
(* Snapshots and the top cache, each with one timer thread.                *)

TimerFires(n) ==
    /\ ~snaps[n].building
    /\ snaps' = [snaps EXCEPT ![n].building = TRUE]
    /\ UNCHANGED <<coldAsync, cacheNow, softVars, tops, topLock, readyVars, shown>>

(* Mutant: a failed build renews the age of the payload that is kept.      *)
kept_restamped(s) == [s EXCEPT !.done = IF @ = NONE THEN NONE ELSE cacheNow,
                               !.building = FALSE]
kept(s) == [s EXCEPT !.building = FALSE]

(* The payload is swapped in whole with its time, or the last one is kept. *)
refresh_once(n) ==
    /\ snaps[n].building
    /\ \/ snaps' = [snaps EXCEPT ![n] = Built]
       \/ snaps' = [snaps EXCEPT ![n] = kept(@)]
    /\ UNCHANGED <<coldAsync, cacheNow, softVars, tops, topLock, readyVars, shown>>

Usable(s) == s.done # NONE /\ (MaxStale = 0 \/ cacheNow - s.done <= MaxStale)

(* The board and the leaderboard fall back to their live path, the         *)
(* dashboard answers that it has nothing.                                  *)
snapshot_get(n) ==
    /\ Show(IF Usable(snaps[n]) THEN "snapshot" ELSE IF n = "dashboard" THEN "none" ELSE "live",
            IF Usable(snaps[n]) THEN cacheNow - snaps[n].made ELSE 0)
    /\ UNCHANGED <<coldAsync, cacheNow, softVars, timerVars, readyVars>>

(* The processes build their rankings under one advisory lock; one that    *)
(* does not get it keeps what it has.                                      *)
TopFires(p) ==
    /\ ~tops[p].building
    /\ topLock = NONE /\ topLock' = p /\ tops' = [tops EXCEPT ![p].building = TRUE]
    /\ UNCHANGED <<coldAsync, cacheNow, softVars, snaps, readyVars, shown>>

TopBuilt(p) ==
    /\ tops[p].building
    /\ topLock' = NONE
    /\ \/ tops' = [tops EXCEPT ![p] = Built]
       \/ tops' = [tops EXCEPT ![p].building = FALSE]
    /\ UNCHANGED <<coldAsync, cacheNow, softVars, snaps, readyVars, shown>>

----------------------------------------------------------------------------
(* The worker-readiness answer.                                            *)

WorkerBeats ==
    /\ beat' = cacheNow
    /\ UNCHANGED <<coldAsync, cacheNow, softVars, timerVars, ready, shown>>

(* The cached answer until it expires; then the database's, which counts   *)
(* workers whose heartbeat is recent, cached in its turn.                  *)
async_worker_ready ==
    LET live == beat # NONE /\ cacheNow - beat <= WorkerStale
    IN  IF cacheNow < ready.until THEN ready
        ELSE [until |-> cacheNow + ReadyCache, ready |-> live]

require_async_worker_ready ==
    /\ ready' = async_worker_ready
    /\ IF ready'.ready THEN Show("admitted", cacheNow - beat) ELSE Show("unavailable", 0)
    /\ UNCHANGED <<coldAsync, cacheNow, softVars, timerVars, beat>>

----------------------------------------------------------------------------
CacheTick ==
    /\ cacheNow < MaxCacheTime
    /\ cacheNow' = cacheNow + 1
    /\ UNCHANGED <<coldAsync, softVars, timerVars, readyVars, shown>>

CacheInit ==
    /\ coldAsync \in BOOLEAN
    /\ cacheNow = 0
    /\ entry = NONE /\ building = [t \in Threads |-> NONE] /\ failedAt = NONE /\ hung = FALSE
    /\ snaps = [n \in SnapshotNames |-> Unbuilt]
    /\ tops = [p \in TopProcesses |-> Unbuilt] /\ topLock = NONE
    /\ beat = NONE /\ ready = [until |-> 0, ready |-> FALSE]
    /\ shown = [from |-> "none", age |-> 0]

SoftNext == SoftGet \/ (\E t \in Threads : RefreshReturns(t) \/ RefreshFails(t)) \/ CacheTick
TimerNext ==
    \/ \E n \in SnapshotNames : TimerFires(n) \/ refresh_once(n) \/ snapshot_get(n)
    \/ \E p \in TopProcesses : TopFires(p) \/ TopBuilt(p)
    \/ CacheTick
ReadyNext == WorkerBeats \/ require_async_worker_ready \/ CacheTick

----------------------------------------------------------------------------
CacheTypeOK ==
    /\ cacheNow \in 0..MaxCacheTime /\ coldAsync \in BOOLEAN
    /\ \A t \in Threads : building[t] = NONE \/ building[t].began \in 0..cacheNow
    /\ failedAt \in 0..cacheNow \cup {NONE} /\ beat \in 0..cacheNow \cup {NONE}
    /\ \A n \in SnapshotNames : snaps[n].done \in 0..cacheNow \cup {NONE}
    /\ topLock \in TopProcesses \cup {NONE}
    /\ shown.age \in Nat

(* Requests never build a storm: as long as no refresh was given up as     *)
(* hung, at most one background refresh runs per key, and one that runs    *)
(* after a failure began a whole backoff after it.  Not so with            *)
(* synchronous first builds: a second one that ends late erases the        *)
(* in-flight flag of a refresh started since.                              *)
RefreshesPaced ==
    coldAsync /\ ~hung =>
             /\ Cardinality(Running) <= 1
             /\ \A t \in Running : failedAt = NONE \/ building[t].began >= failedAt + Backoff

(* What is served is recent, whatever failed: a snapshot's payload was     *)
(* built within the staleness ceiling, and a submission is admitted while  *)
(* a worker's heartbeat is within its window plus the cached answer's life.*)
ServedIsRecent ==
    /\ shown.from = "snapshot" /\ MaxStale > 0 => shown.age <= MaxStale
    /\ shown.from = "admitted" => shown.age < WorkerStale + ReadyCache

(* Read caches: types, paced refreshes, recent answers.                    *)
CacheInv == CacheTypeOK /\ RefreshesPaced /\ ServedIsRecent
=============================================================================
