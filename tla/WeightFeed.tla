----------------------------- MODULE WeightFeed -----------------------------
(***************************************************************************)
(* Publication of the signed weight vector (publisher/weights.py): refresh *)
(* attempts under an advisory lock, the version a build takes, the durable *)
(* row, and the cache each process serves from.  What a vector says is     *)
(* ScoreBuild's; here it is the state of the data it was composed from.    *)
(***************************************************************************)
EXTENDS Naturals, Absent

CONSTANTS
    Replicas,       \* publisher processes on one database
    SnapshotReplicas,   \* those that serve the snapshot route, which may build as well
    Postgres,       \* the backends explored: TRUE is Postgres, FALSE SQLite
    MaxData, MaxFeedDeaths, MaxVersion  \* bounds

ASSUME FeedConstants ==
    /\ Postgres \subseteq BOOLEAN
    /\ Replicas # {} /\ SnapshotReplicas \subseteq Replicas
    /\ {MaxData, MaxFeedDeaths, MaxVersion} \subseteq Nat

VARIABLES
    postgres,   \* SQLite has one process
    dataVersion,    \* how often scores, reports or metagraph rows changed
    policyVersion,  \* weight_policy_state
    persisted,  \* signed_weight_vectors
    winners,    \* every vector that was ever the persisted one
    vectorCache,    \* _vector_cache of each process
    attempt,    \* the refresh attempts: one of the loop, one of a caller
    waiting,    \* the loop of the process waits for its attempt
    buildLock,  \* the attempt whose session holds the advisory lock
    feedDeaths

feedVars == <<postgres, dataVersion, policyVersion, persisted, winners, vectorCache, attempt,
              waiting, buildLock, feedDeaths>>
servedVars == <<policyVersion, persisted, winners, vectorCache>>
hostVars == <<postgres, feedDeaths>>

Threads == (Replicas \X {"loop"}) \cup (SnapshotReplicas \X {"caller"})
Vectors == [version : 1..MaxVersion, asOf : 0..MaxData]

Attempts ==
    [pc : {"lock", "compose", "version", "persist", "returned", "raised"},
     asOf : 0..MaxData, version : 0..MaxVersion, vector : Vectors \cup {NONE}]
ASSUME NoVectorIsNone == NONE \notin Vectors \cup Attempts \cup Threads

FreshAttempt == [pc |-> "lock", asOf |-> 0, version |-> 0, vector |-> NONE]

FeedInit ==
    /\ postgres \in Postgres
    /\ dataVersion = 0 /\ policyVersion = 0
    /\ persisted = NONE /\ winners = {}
    /\ vectorCache = [p \in Replicas |-> NONE]
    /\ attempt = [t \in Threads |-> NONE]
    /\ waiting = [p \in Replicas |-> FALSE]
    /\ buildLock = NONE
    /\ feedDeaths = 0

----------------------------------------------------------------------------
(* A refresh attempt                                                        *)

AttemptAt(t, pc) == attempt[t] # NONE /\ attempt[t].pc = pc
Moved(t, a) == attempt' = [attempt EXCEPT ![t] = a]
Went(t, pc) == [attempt[t] EXCEPT !.pc = pc]

\* store.advisory_lock: SQLite always grants it.
\* Mutant: Postgres does too.
advisory_lock_granted(t) == TRUE
advisory_lock(t) == postgres => buildLock = NONE
Unlocked(t) == buildLock' = IF buildLock = t THEN NONE ELSE buildLock

\* _refresh_once: whoever does not get the lock takes the persisted vector.
refresh_once(t) ==
    /\ AttemptAt(t, "lock")
    /\ IF advisory_lock(t)
       THEN /\ Moved(t, Went(t, "compose"))
            /\ buildLock' = IF postgres THEN t ELSE NONE
       ELSE /\ Moved(t, [Went(t, "returned") EXCEPT !.vector = persisted])
            /\ UNCHANGED buildLock
    /\ UNCHANGED <<dataVersion, servedVars, waiting>>

\* build_signed_vector reads the data, or raises; the lock is released.
build_vector(t) ==
    /\ AttemptAt(t, "compose")
    /\ \/ Moved(t, [Went(t, "version") EXCEPT !.asOf = dataVersion]) /\ UNCHANGED buildLock
       \/ Moved(t, Went(t, "raised")) /\ Unlocked(t)
    /\ UNCHANGED <<dataVersion, servedVars, waiting>>

\* next_policy_version, one transaction: stored + 1, or the time in
\* milliseconds if that is greater.
next_policy_version(t) ==
    /\ AttemptAt(t, "version")
    /\ policyVersion < MaxVersion
    /\ policyVersion' = policyVersion + 1
    /\ Moved(t, [Went(t, "persist") EXCEPT !.version = policyVersion'])
    /\ UNCHANGED <<dataVersion, persisted, winners, vectorCache, waiting, buildLock>>

Signed(a) == [version |-> a.version, asOf |-> a.asOf]

\* _persist_vector: the greater version stays, and the caller gets what stays.
\* Mutant: the caller gets its own.
persist_vector_own(t, vec) ==
    /\ persisted' = IF persisted = NONE \/ vec.version > persisted.version THEN vec ELSE persisted
    /\ winners' = winners \cup {persisted'}
    /\ Moved(t, [Went(t, "returned") EXCEPT !.vector = vec])
persist_vector(t, vec) ==
    /\ persisted' = IF persisted = NONE \/ vec.version > persisted.version THEN vec ELSE persisted
    /\ winners' = winners \cup {persisted'}
    /\ Moved(t, [Went(t, "returned") EXCEPT !.vector = persisted'])
persist(t) ==
    /\ AttemptAt(t, "persist")
    /\ persist_vector(t, Signed(attempt[t]))
    /\ Unlocked(t)
    /\ UNCHANGED <<dataVersion, policyVersion, vectorCache, waiting>>

BuildStep(t) ==
    /\ refresh_once(t) \/ build_vector(t) \/ next_policy_version(t) \/ persist(t)
    /\ UNCHANGED hostVars

Running == IF postgres THEN Replicas ELSE {CHOOSE p \in Replicas : SnapshotReplicas # {} => p \in SnapshotReplicas}

----------------------------------------------------------------------------
(* Publication: the background loop, the callers and the cache              *)

\* _cache_write: an older vector is not adopted.
cache_write(p, vec) ==
    vectorCache' = [vectorCache EXCEPT ![p] =
        IF vec = NONE \/ (@ # NONE /\ vec.version <= @.version) THEN @ ELSE vec]

Caching(p, vec) ==
    /\ cache_write(p, vec)
    /\ UNCHANGED <<dataVersion, policyVersion, persisted, winners, buildLock>>

\* _run_refresh_cycle starts an attempt unless the last one is still alive.
StartAttempt(p) ==
    LET t == <<p, "loop">>
    IN  /\ ~waiting[p] /\ attempt[t] = NONE
        /\ Moved(t, FreshAttempt)
        /\ waiting' = [waiting EXCEPT ![p] = TRUE]
        /\ UNCHANGED <<dataVersion, servedVars, buildLock>>

\* The attempt ends; the loop takes its vector only while it waits for it.
JoinAttempt(p) ==
    LET t == <<p, "loop">>
    IN  /\ AttemptAt(t, "returned") \/ AttemptAt(t, "raised")
        /\ Moved(t, NONE)
        /\ waiting' = [waiting EXCEPT ![p] = FALSE]
        /\ Caching(p, IF waiting[p] /\ AttemptAt(t, "returned") THEN attempt[t].vector ELSE NONE)

\* _RefreshTimeout: the wait is given up, or a new cycle finds the old attempt
\* alive; either way the persisted vector is adopted if it can be read.
try_adopt_persisted(p) == \E read \in BOOLEAN : Caching(p, IF read THEN persisted ELSE NONE)
RefreshTimeout(p) ==
    /\ attempt[<<p, "loop">>] # NONE
    /\ try_adopt_persisted(p)
    /\ waiting' = [waiting EXCEPT ![p] = FALSE]
    /\ UNCHANGED attempt

\* cached_vector on the request path: a cold process loads, it never builds.
cached_vector(p) ==
    /\ vectorCache[p] = NONE /\ persisted # NONE
    /\ Caching(p, persisted)
    /\ UNCHANGED <<attempt, waiting>>

\* current_vector builds when neither cache nor table has a vector; it is not
\* ready when the lock is taken too.
current_vector(p) ==
    LET t == <<p, "caller">>
    IN  /\ p \in SnapshotReplicas /\ attempt[t] = NONE
        /\ vectorCache[p] = NONE /\ persisted = NONE
        /\ Moved(t, FreshAttempt)
        /\ UNCHANGED <<dataVersion, servedVars, waiting, buildLock>>
current_vector_returns(p) ==
    LET t == <<p, "caller">>
    IN  /\ p \in SnapshotReplicas
        /\ AttemptAt(t, "returned") \/ AttemptAt(t, "raised")
        /\ Moved(t, NONE)
        /\ Caching(p, IF AttemptAt(t, "returned") THEN attempt[t].vector ELSE NONE)
        /\ UNCHANGED waiting

\* The process dies; its sessions and their locks go with it.
Dies(p) ==
    /\ attempt' = [t \in Threads |-> IF t[1] = p THEN NONE ELSE attempt[t]]
    /\ vectorCache' = [vectorCache EXCEPT ![p] = NONE]
    /\ waiting' = [waiting EXCEPT ![p] = FALSE]
    /\ buildLock' = IF buildLock # NONE /\ buildLock[1] = p THEN NONE ELSE buildLock
    /\ UNCHANGED <<dataVersion, policyVersion, persisted, winners>>

FeedFault ==
    /\ feedDeaths < MaxFeedDeaths
    /\ feedDeaths' = feedDeaths + 1
    /\ \E p \in Running : Dies(p)
    /\ UNCHANGED postgres
DataChanges ==
    /\ dataVersion < MaxData
    /\ dataVersion' = dataVersion + 1
    /\ UNCHANGED <<hostVars, servedVars, attempt, waiting, buildLock>>
FeedLoop(p) ==
    /\ StartAttempt(p) \/ JoinAttempt(p) \/ RefreshTimeout(p)
    /\ UNCHANGED hostVars
FeedCall(p) ==
    /\ cached_vector(p) \/ current_vector(p) \/ current_vector_returns(p)
    /\ UNCHANGED hostVars

FeedNext ==
    \/ DataChanges \/ FeedFault
    \/ \E t \in Threads : BuildStep(t)
    \/ \E p \in Running : FeedLoop(p) \/ FeedCall(p)

----------------------------------------------------------------------------
(* Properties                                                               *)

\* Vectors and locks have the shape of their rows.
FeedTypeOK ==
    /\ persisted \in Vectors \cup {NONE}
    /\ \A p \in Replicas : vectorCache[p] \in Vectors \cup {NONE}
    /\ buildLock \in Threads \cup {NONE}

\* With Postgres a vector replaces only vectors that were composed from older
\* data: a revocation that was published is not undone by a slower build
\* (next_policy_version is taken at the end of a build, under the lock of
\* _refresh_once, whose session lives as long as the build).
VersionFollowsData ==
    [][(/\ postgres
        /\ persisted # NONE /\ persisted' # persisted)
           => persisted'.asOf >= persisted.asOf]_feedVars

\* A process serves only vectors that were the persisted one, and its cache
\* never goes back: an attempt that lost the race to persist, an orphan or a
\* caller cannot put an older vector into it (_persist_vector, _cache_write).
ServedWasDurable ==
    [][\A p \in Replicas :
          /\ vectorCache'[p] # NONE => vectorCache'[p] \in winners'
          /\ (vectorCache[p] # NONE /\ vectorCache'[p] # NONE)
                => vectorCache'[p].version >= vectorCache[p].version]_feedVars

\* The published feed only moves forward, in the data it was composed from and
\* in what each process serves.
FeedMovesForward == VersionFollowsData /\ ServedWasDurable
=============================================================================
