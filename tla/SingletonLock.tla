--------------------------- MODULE SingletonLock ---------------------------
(***************************************************************************)
(* The singleton worker of the publisher: one Postgres advisory lock, held *)
(* by an otherwise idle session for as long as the worker loop runs; a     *)
(* heartbeat row the loop writes at the top of every tick; and the         *)
(* take-over of a lock whose holder looks dead.                            *)
(*                                                                         *)
(* The lock session runs no statement after the one that took the lock, so *)
(* its idle time counts from there.  A process keeps looping when its      *)
(* session is terminated: nothing on the loop's path uses that session.    *)
(* A batch and a pause have no limit, and a batch writes no heartbeat.     *)
(***************************************************************************)
EXTENDS Naturals, Absent

CONSTANTS
    Processes,
    StealIdleSecs,     \* CATHEDRAL_V2_LOCK_STEAL_IDLE_SECS
    MaxDeaths          \* bound of the model: deaths, shutdowns, cut sessions

ASSUME LockConstants ==
    /\ {StealIdleSecs, MaxDeaths} \subseteq Nat
    /\ NONE \notin Processes

VARIABLES
    holder,    \* the process whose session holds the lock
    idle,      \* time since that session took it
    beat,      \* age of the v2_worker_heartbeat row
    up,        \* where a process is
    deaths,
    quiet,     \* history: time since a looping process took the lock or last
               \* got its heartbeat written
    lost       \* history: looping processes whose lock was freed under them,
               \* their heartbeat overdue or their session cut

lockVars == <<holder, idle, beat, up, deaths, quiet, lost>>

Ages == 0..(StealIdleSecs + 1)      \* an age past the limit stays there
Older(a) == IF a > StealIdleSecs THEN a ELSE a + 1

LockInit ==
    /\ holder = NONE
    /\ idle = 0
    /\ beat = StealIdleSecs + 1
    /\ up = [p \in Processes |-> "waiting"]
    /\ deaths = 0
    /\ quiet = [p \in Processes |-> 0]
    /\ lost = {}

InLoop(p) == up[p] \in {"pause", "batch"}

\* The thread of a cancelled batch works on; the loop around it has ended.
Working(p) == InLoop(p) \/ up[p] = "draining"

Overdue(p) == InLoop(p) /\ quiet[p] > StealIdleSecs

Goto(p, where) == up' = [up EXCEPT ![p] = where]
Quiet(p, age) == quiet' = [quiet EXCEPT ![p] = age]

LeaveLoop(p, where) ==
    /\ Goto(p, where)
    /\ Quiet(p, 0)
    /\ lost' = lost \ {p}

----------------------------------------------------------------------------
\* pg_try_advisory_lock; the loop starts with the lock.
advisory_lock(p) ==
    /\ up[p] = "waiting"
    /\ holder = NONE
    /\ holder' = p
    /\ idle' = 0
    /\ Goto(p, "pause")
    /\ Quiet(p, 0)
    /\ UNCHANGED <<beat, deaths, lost>>

FreeLock ==
    /\ holder' = NONE
    /\ UNCHANGED <<idle, beat, up, deaths, quiet>>

\* Both guardrails: the holder's session idle for long, the heartbeat old or
\* absent.  The next try of any process finds the lock free.
\* Mutant: the idle time of the session is not asked for.
steal_stale_advisory_lock_no_idle(p) ==
    /\ up[p] = "waiting"
    /\ holder \notin {NONE, p}
    /\ beat > StealIdleSecs
    /\ lost' = lost \cup {q \in {holder} : Overdue(q)}
    /\ FreeLock
\* Mutant: the query matches half of the key and so no backend.
steal_stale_advisory_lock_half_key(p) ==
    /\ up[p] = "waiting"
    /\ holder \notin {NONE, p}
    /\ idle > StealIdleSecs
    /\ beat > StealIdleSecs
    /\ UNCHANGED lockVars
steal_stale_advisory_lock(p) ==
    /\ up[p] = "waiting"
    /\ holder \notin {NONE, p}
    /\ idle > StealIdleSecs
    /\ beat > StealIdleSecs
    /\ lost' = lost \cup {q \in {holder} : Overdue(q)}
    /\ FreeLock

\* The top of a tick: the heartbeat, then the batch in a thread.  A write that
\* fails is swallowed: the row keeps its age and the batch starts all the same.
write_v2_worker_heartbeat(p) ==
    /\ up[p] = "pause"
    /\ Goto(p, "batch")
    /\ \/ beat' = 0 /\ Quiet(p, 0)
       \/ UNCHANGED <<beat, quiet>>
    /\ UNCHANGED <<holder, idle, deaths, lost>>

\* The batch is done, or its exception logged.
BatchEnds(p) ==
    /\ up[p] = "batch"
    /\ Goto(p, "pause")
    /\ UNCHANGED <<holder, idle, beat, deaths, quiet, lost>>

\* A cancellation leaves the with-block, which unlocks; a batch it interrupts
\* is in a thread, which it does not stop.
Shutdown(p) ==
    /\ InLoop(p)
    /\ deaths < MaxDeaths
    /\ deaths' = deaths + 1
    /\ holder' = IF holder = p THEN NONE ELSE holder
    /\ LeaveLoop(p, IF up[p] = "batch" THEN "draining" ELSE "dead")
    /\ UNCHANGED <<idle, beat>>

\* The process waits for its threads before it exits.
ThreadEnds(p) ==
    /\ up[p] = "draining"
    /\ Goto(p, "dead")
    /\ UNCHANGED <<holder, idle, beat, deaths, quiet, lost>>

\* The process is gone before any cleanup; its backend keeps the lock.
Die(p) ==
    /\ up[p] # "dead"
    /\ deaths < MaxDeaths
    /\ deaths' = deaths + 1
    /\ LeaveLoop(p, "dead")
    /\ UNCHANGED <<holder, idle, beat>>

\* The server notices the broken connection of a dead process, in its own time.
SessionEnds(p) ==
    /\ holder = p
    /\ up[p] = "dead"
    /\ FreeLock
    /\ UNCHANGED lost

\* The connection of a live holder breaks; its loop does not notice.
SessionCut(p) ==
    /\ holder = p
    /\ InLoop(p)
    /\ deaths < MaxDeaths
    /\ deaths' = deaths + 1
    /\ holder' = NONE
    /\ lost' = lost \cup {p}
    /\ UNCHANGED <<idle, beat, up, quiet>>

\* The deployment starts the process again; while the session of its last life
\* is still there, another member of Processes stands for it.
Restart(p) ==
    /\ up[p] = "dead"
    /\ holder # p
    /\ Goto(p, "waiting")
    /\ UNCHANGED <<holder, idle, beat, deaths, quiet, lost>>

Clock ==
    /\ idle' = Older(idle)
    /\ beat' = Older(beat)
    /\ quiet' = [p \in Processes |-> IF InLoop(p) THEN Older(quiet[p]) ELSE 0]
    /\ UNCHANGED <<holder, up, deaths, lost>>

\* _run_v2_singleton_background: retry for the lock, then tick.
LoopStep(p) ==
    \/ advisory_lock(p)
    \/ steal_stale_advisory_lock(p)
    \/ write_v2_worker_heartbeat(p)
    \/ BatchEnds(p)

LockNext ==
    \/ Clock
    \/ \E p \in Processes :
          \/ LoopStep(p)
          \/ Shutdown(p)
          \/ ThreadEnds(p)
          \/ Die(p)
          \/ SessionEnds(p)
          \/ SessionCut(p)
          \/ Restart(p)

LockSpec == LockInit /\ [][LockNext]_lockVars

----------------------------------------------------------------------------
LockTypeOK ==
    /\ holder \in Processes \cup {NONE}
    /\ idle \in Ages /\ beat \in Ages
    /\ up \in [Processes -> {"waiting", "pause", "batch", "draining", "dead"}]
    /\ deaths \in 0..MaxDeaths
    /\ quiet \in [Processes -> Ages]
    /\ lost \in SUBSET Processes

\* The singleton worker works in one process at a time, through deaths,
\* cancellations, failed heartbeats and take-overs (_run_v2_singleton_background),
\* with three exceptions.  A process whose lock was taken over when it had gone
\* longer than StealIdleSecs without a heartbeat that was written - one long
\* batch is enough, or writes that failed - loops on beside its successor,
\* although "a lock whose heartbeat is fresh is never touched" and the heartbeat
\* "is what proves the *worker*, not just the connection, is actually gone"
\* (steal_stale_advisory_lock).  So does one whose session broke.  And the
\* thread of a cancelled batch works on after the lock was released.
OneLoop ==
    \A p, q \in Processes :
        Working(p) /\ Working(q) =>
            \/ p = q
            \/ {p, q} \cap lost # {}
            \/ "draining" \in {up[p], up[q]}

\* A lock left behind by a dead holder does not stop the work for good: while
\* some process waits, a loop is running again and again.
LoopRecovers ==
    \A p \in Processes :
        (up[p] = "waiting") ~> (up[p] = "dead" \/ \E q \in Processes : InLoop(q))

\* Why a loop that is not overdue keeps its lock: the lock session is no older
\* than its silence, or the heartbeat row is not.
HolderLooksAlive ==
    \A p \in Processes :
        InLoop(p) /\ holder = p => idle <= quiet[p] \/ beat <= quiet[p]

\* A running loop has its lock, or lost it in one of the ways named above.
LoopHoldsLock == \A p \in Processes : InLoop(p) => holder = p \/ p \in lost
=============================================================================
