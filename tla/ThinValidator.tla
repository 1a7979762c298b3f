--------------------------- MODULE ThinValidator ---------------------------
(***************************************************************************)
(* The thin SAT validator (cathedral_thin/validator.py, core.py,           *)
(* score_classes.py): one state file under a lease, a tick that turns peer *)
(* answers and a signed external report into a weight vector, and a        *)
(* pending vector that survives restarts until the chain has answered.     *)
(*                                                                         *)
(* One external class with an owner registration stands for the classes of *)
(* a policy.  A vector is what its digest covers: round, UID holders,      *)
(* registration and report.  EMA scores, confirmed digests and attempt     *)
(* counts steer nothing here and are left out; a retry that is not due yet *)
(* changes nothing, so a retry comes at any later time.                    *)
(***************************************************************************)
EXTENDS Naturals, Sequences, Absent

CONSTANTS
    Hosts,          \* processes started on one state file
    Owners,         \* owners of the source subnet
    Founder,        \* the first of them
    Reports,        \* signed reports: [owner, epoch, id, prev]
    Registrations,  \* signed delegations: [owner, sequence, id, prev]
    BurnPolicy,     \* the score policy names a burn hotkey
    MaxRound, MaxCalls, MaxChurn, MaxAccepts, MaxFailures   \* bounds

ASSUME ThinConstants ==
    /\ {MaxRound, MaxCalls, MaxChurn, MaxAccepts, MaxFailures} \subseteq Nat
    /\ MaxRound > 0
    /\ BurnPolicy \in BOOLEAN
    /\ Founder \in Owners
    /\ NONE \notin Hosts \cup Owners \cup Reports \cup Registrations
    /\ \A r \in Reports : r.epoch \in Nat

VARIABLES
    round,      \* block // round_blocks
    seats,      \* the metagraph: which holders the UIDs have
    authority,  \* owner with a registered delegate on the target subnet, or NONE
    disk,       \* the state file
    lease,      \* whose flock is on the lock file
    place,      \* where each process is
    mem,        \* its ValidatorState
    draft,      \* the vector its tick works on
    mode,       \* its flags: a dry run, --broadcast, or --retry-ambiguous too
    calls,      \* set_weights calls in the order they were made
    churn, kills, saveFaults

thinVars == <<round, seats, authority, disk, lease, place, mem, draft, mode, calls,
              churn, kills, saveFaults>>
worldVars == <<round, seats, authority, churn>>
processVars == <<lease, mode, kills>>

Seats == 0..MaxChurn
Vector == [round : 1..MaxRound, seats : Seats, era : 0..MaxAccepts,
           registration : Registrations \cup {NONE},
           report : Reports \cup {NONE}]
\* The tick works with the authority of its first block.
Draft == [vector : Vector, owner : Owners \cup {NONE}]
Pending == [vector : Vector, ambiguous : BOOLEAN]
ThinState == [config : 0..MaxAccepts,       \* fingerprint
              last : 0..MaxRound,           \* last_completed_round
              report : Reports \cup {NONE},
              registration : Registrations \cup {NONE},
              pending : Pending \cup {NONE}]
Call == [vector : Vector, optIn : BOOLEAN,
         answer : {"none", "ok", "rejected", "unknown", "lost"}]

\* No state file, nothing loaded and nothing pending are no values of these.
ASSUME NoStateIsNone == NONE \notin ThinState \cup Pending

Modes == {"dry_run", "broadcast", "retry_ambiguous"}

Fresh(c) == [config |-> c, last |-> 0, report |-> NONE, registration |-> NONE,
             pending |-> NONE]

ThinInit ==
    /\ round = 1
    /\ seats = 0
    /\ authority = Founder
    /\ disk = NONE /\ lease = NONE
    /\ place = [h \in Hosts |-> "off"]
    /\ mem = [h \in Hosts |-> NONE]
    /\ draft = [h \in Hosts |-> NONE]
    /\ mode = [h \in Hosts |-> NONE]
    /\ calls = <<>>
    /\ churn = 0 /\ kills = 0 /\ saveFaults = 0

----------------------------------------------------------------------------
(* Signed inputs against the high-water marks                               *)

\* enforce_checkpoint.  What a mirror serves inside its windows is any signed
\* report; two reports of one epoch are an equivocation.
Extends(report, mark) ==
    \/ mark = NONE
    \/ report = mark
    \/ report.epoch = mark.epoch + 1 /\ report.prev = mark.id
    \/ report.epoch > mark.epoch + 1

\* enforce_registration_checkpoint: a new owner starts a new chain.
RegistrationExtends(registration, mark) ==
    \/ mark = NONE
    \/ mark.owner # registration.owner
    \/ registration = mark
    \/ registration.sequence = mark.sequence + 1 /\ registration.prev = mark.id
    \/ registration.sequence > mark.sequence + 1

\* verify_owner_registration: signed by the present owner, whose delegate is
\* registered.  Times, windows, URLs and canonical bytes only refuse.
OwnerSigned(registration, owner) == registration.owner = owner

\* verify_report: signed with a key the registration delegates.
DelegateSigned(report, registration) == report.owner = registration.owner

\* load_best_owner_registration and load_best_report: the newest the mirrors
\* agree on, which is any that extends the mark.
LoadableRegistrations(owner, mark) ==
    {r \in Registrations : OwnerSigned(r, owner) /\ RegistrationExtends(r, mark)}
LoadableReports(registration, mark) ==
    {r \in Reports : DelegateSigned(r, registration) /\ Extends(r, mark)}

----------------------------------------------------------------------------
(* The process and its state file                                           *)

\* store.save, the end of a step: a temporary file and a rename.  An exception
\* leaves the tick and not the memory it meant to save.
Save(h, state, next) ==
    /\ mem' = [mem EXCEPT ![h] = state]
    /\ \/ /\ disk' = state
          /\ place' = [place EXCEPT ![h] = next]
          /\ UNCHANGED saveFaults
       \/ /\ kills + saveFaults < MaxFailures
          /\ saveFaults' = saveFaults + 1
          /\ place' = [place EXCEPT ![h] = "loop"]
          /\ UNCHANGED disk

\* The tick raises; its local variables are gone.
Raises(h) ==
    /\ draft' = [draft EXCEPT ![h] = NONE]
    /\ place' = [place EXCEPT ![h] = "loop"]
    /\ UNCHANGED <<mem, disk, saveFaults>>

Moves(h, next) ==
    /\ place' = [place EXCEPT ![h] = next]
    /\ UNCHANGED <<mem, disk, saveFaults>>

\* An accepted configuration change starts rounds anew and keeps the marks.
\* Mutant: it starts with an empty state.
Reconfigured_empty(state, c) == Fresh(c)
Reconfigured(state, c) == [state EXCEPT !.config = c, !.last = 0]

\* load_or_create
Loaded(c, accept) ==
    IF disk = NONE THEN {Fresh(c)}
    ELSE IF disk.config = c THEN {disk}
    ELSE {Reconfigured(s, c) : s \in {d \in {disk} : accept /\ d.pending = NONE}}

\* flock with LOCK_EX | LOCK_NB
\* Mutant: the lock is shared.
StateLease_shared(h) == lease' = h
StateLease(h) == lease = NONE /\ lease' = h

\* async_main: the lease, then the state.  A process that gets neither exits.  A
\* changed configuration is a new number.
async_main(h, accept) ==
    /\ place[h] = "off"
    /\ StateLease(h)
    /\ \E c \in IF disk = NONE THEN {0} ELSE {disk.config, disk.config + 1} :
          /\ c <= MaxAccepts
          /\ \E state \in Loaded(c, accept) :
                mem' = [mem EXCEPT ![h] = state] /\ disk' = state
    /\ \E m \in Modes : mode' = [mode EXCEPT ![h] = m]
    /\ place' = [place EXCEPT ![h] = "loop"]
    /\ UNCHANGED <<worldVars, draft, calls, kills, saveFaults>>

----------------------------------------------------------------------------
(* tick, with nothing pending                                               *)

\* The metagraph and the block are read; the peers are evaluated after that.
tick(h) ==
    /\ place[h] = "loop"
    /\ mem[h].pending = NONE
    /\ round > mem[h].last
    /\ draft' = [draft EXCEPT ![h] =
          [vector |-> [round |-> round, seats |-> seats, era |-> mem[h].config,
                       registration |-> NONE, report |-> NONE],
           owner |-> authority]]
    /\ Moves(h, "registration")
    /\ UNCHANGED <<worldVars, processVars, calls>>

\* _load_owner_registrations.  Without one the tick fails closed, unless the
\* policy can revoke the class to its burn hotkey.
load_owner_registrations(h) ==
    /\ place[h] = "registration"
    /\ \/ \E r \in LoadableRegistrations(draft[h].owner, mem[h].registration) :
             /\ draft' = [draft EXCEPT ![h].vector.registration = r]
             /\ Moves(h, "report")
       \/ BurnPolicy /\ Moves(h, "commit") /\ UNCHANGED draft
       \/ Raises(h)
    /\ UNCHANGED <<worldVars, processVars, calls>>

load_external(h) ==
    /\ place[h] = "report"
    /\ \/ \E r \in LoadableReports(draft[h].vector.registration, mem[h].report) :
             /\ draft' = [draft EXCEPT ![h].vector.report = r]
             /\ Moves(h, "commit")
       \/ BurnPolicy /\ Moves(h, "commit") /\ UNCHANGED draft
       \/ Raises(h)
    /\ UNCHANGED <<worldVars, processVars, calls>>

\* The round is complete; a loaded class moves its marks, a revoked one keeps them.
\* Mutant: the mark is one round ahead.
Completed_next_round(h, pending) ==
    [mem[h] EXCEPT !.last = draft[h].vector.round + 1, !.pending = pending]
Completed(h, pending) ==
    LET d == draft[h].vector IN
    [mem[h] EXCEPT !.last = d.round,
                   !.report = IF d.report = NONE THEN @ ELSE d.report,
                   !.registration = IF d.report = NONE THEN @ ELSE d.registration,
                   !.pending = pending]

\* External, local and composed weights: a vector, or no positive weight.
Composed(h) == {NONE, [vector |-> draft[h].vector, ambiguous |-> FALSE]}

\* Composition, chain constraints and the decision record may still refuse, and a
\* dry run stops here.  No positive weight completes the round with no vector.
mark_pending_vector(h) ==
    /\ place[h] = "commit"
    /\ \/ /\ mode[h] # "dry_run"
          /\ draft' = [draft EXCEPT ![h] = NONE]
          /\ \E pending \in Composed(h) :
                Save(h, Completed(h, pending),
                     IF pending = NONE THEN "loop" ELSE "submit")
       \/ Raises(h)
    /\ UNCHANGED <<worldVars, processVars, calls>>

----------------------------------------------------------------------------
(* _submit_pending: retries check identity and authority again              *)

Vec(h) == mem[h].pending.vector
Cancelled(h) == [mem[h] EXCEPT !.pending = NONE]

\* note_submission_failure after a failed refresh: nothing was sent.
\* Mutant: the refresh forgets that an earlier outcome is unknown.
NotSent_forgets(h) == [mem[h] EXCEPT !.pending.ambiguous = FALSE]
NotSent(h) == mem[h]

submit_pending(h) ==
    /\ place[h] = "loop"
    /\ mem[h].pending # NONE
    /\ mem[h].pending.ambiguous => mode[h] = "retry_ambiguous"
    /\ mode[h] # "dry_run"
    /\ \/ Save(h, NotSent(h), "loop")           \* the metagraph was not read
       \/ seats # Vec(h).seats /\ Save(h, Cancelled(h), "loop")
       \/ /\ seats = Vec(h).seats
          /\ Moves(h, IF Vec(h).registration = NONE THEN "submit" ELSE "recheck")
    /\ UNCHANGED <<worldVars, processVars, calls, draft>>

\* The same with require_same_authority, at the current block.
recheck_authority(h) ==
    /\ place[h] = "recheck"
    /\ LET mark == mem[h].registration
           moved == mark # NONE /\ mark.owner # authority
       IN  \/ moved /\ Save(h, Cancelled(h), "loop")
           \/ Save(h, NotSent(h), "loop")      \* the owner or the mirrors were not read
           \/ /\ ~moved
              /\ \E r \in LoadableRegistrations(authority, mark) :
                    IF r = Vec(h).registration
                    THEN Moves(h, "submit") ELSE Save(h, Cancelled(h), "loop")
           \/ Moves(h, "loop")
    /\ UNCHANGED <<worldVars, processVars, calls, draft>>

submit_weights(h) ==
    /\ place[h] = "submit"
    /\ Len(calls) < MaxCalls
    /\ calls' = Append(calls, [vector |-> Vec(h), optIn |-> mode[h] = "retry_ambiguous",
                               answer |-> "none"])
    /\ Moves(h, "await")
    /\ UNCHANGED <<worldVars, processVars, draft>>

\* The answer of the call in flight, and what is saved of it.
Answered(h, answer, state) ==
    /\ calls' = [calls EXCEPT ![Len(calls)].answer = answer]
    /\ Save(h, state, "loop")

\* set_weights waits for finalization: a success is on chain, a rejection with a
\* receipt is not, and of the rest nothing is known.
note_submission(h) ==
    /\ place[h] = "await"
    /\ LET failed(unknown) == [mem[h] EXCEPT !.pending.ambiguous = unknown]
       IN  \/ Answered(h, "ok", Cancelled(h))
           \/ Answered(h, "rejected", failed(FALSE))
           \/ Answered(h, "unknown", failed(TRUE))
    /\ UNCHANGED <<worldVars, processVars, draft>>

----------------------------------------------------------------------------
(* Around the process                                                       *)

NextRound ==
    /\ round < MaxRound
    /\ round' = round + 1
    /\ UNCHANGED <<seats, authority, churn, processVars, disk, place, mem, draft,
                   calls, saveFaults>>

\* Registrations of UIDs and delegates, and ownership of the source subnet, move.
Churn ==
    /\ churn < MaxChurn
    /\ churn' = churn + 1
    /\ seats' \in 0..churn'
    /\ authority' \in Owners \cup {NONE}
    /\ UNCHANGED <<round, processVars, disk, place, mem, draft, calls, saveFaults>>

\* The process stops at any point; the kernel releases its flock.
Killed(h) ==
    /\ place[h] # "off"
    /\ kills + saveFaults < MaxFailures
    /\ kills' = kills + 1
    /\ place' = [place EXCEPT ![h] = "off"]
    /\ lease' = IF lease = h THEN NONE ELSE lease
    /\ calls' = IF place[h] = "await"
                THEN [calls EXCEPT ![Len(calls)].answer = "lost"] ELSE calls
    /\ mem' = [mem EXCEPT ![h] = NONE]
    /\ draft' = [draft EXCEPT ![h] = NONE]
    /\ mode' = [mode EXCEPT ![h] = NONE]
    /\ UNCHANGED <<worldVars, disk, saveFaults>>

ThinNext ==
    \/ NextRound \/ Churn
    \/ \E h \in Hosts :
          \/ \E accept \in BOOLEAN : async_main(h, accept)
          \/ tick(h) \/ load_owner_registrations(h) \/ load_external(h)
          \/ mark_pending_vector(h)
          \/ submit_pending(h) \/ recheck_authority(h)
          \/ submit_weights(h) \/ note_submission(h)
          \/ Killed(h)

ThinSpec == ThinInit /\ [][ThinNext]_thinVars

----------------------------------------------------------------------------
\* The type invariant: what the file and each process hold is a state the loader
\* accepts, and no round is complete that has not begun.
ThinTypeOK ==
    /\ round \in 1..MaxRound /\ seats \in Seats
    /\ authority \in Owners \cup {NONE}
    /\ disk \in ThinState \cup {NONE}
    /\ lease \in Hosts \cup {NONE}
    /\ place \in [Hosts -> {"off", "loop", "registration", "report", "commit",
                            "recheck", "submit", "await"}]
    /\ mem \in [Hosts -> ThinState \cup {NONE}]
    /\ draft \in [Hosts -> Draft \cup {NONE}]
    /\ mode \in [Hosts -> Modes \cup {NONE}]
    /\ calls \in Seq(Call)
    /\ \A h \in Hosts : mem[h] # NONE => mem[h].last <= round
    /\ churn \in 0..MaxChurn
    /\ kills \in 0..MaxFailures /\ saveFaults \in 0..MaxFailures

\* The call before call j of the same vector.
Earlier(i, j) ==
    /\ i < j /\ calls[i].vector = calls[j].vector
    /\ \A k \in (i + 1)..(j - 1) : calls[k].vector # calls[j].vector

\* No process died after a save of its failed: its memory went on for the file.
NothingForgotten == saveFaults = 0 \/ kills = 0

\* Unless something was forgotten, a round yields one vector, whichever processes worked on
\* it and wherever they stopped: a restart sends the same vector or none.
OneVectorPerRound ==
    NothingForgotten =>
        \A i, j \in 1..Len(calls) :
            (calls[i].vector.round = calls[j].vector.round
               /\ calls[i].vector.era = calls[j].vector.era)
            => calls[i].vector = calls[j].vector

\* Unless something was forgotten, the reports behind successive calls never go
\* back and never show two versions of an epoch, across restarts, owners and
\* configurations.
SourceNeverRollsBack ==
    NothingForgotten =>
        \A i, j \in 1..Len(calls) :
            LET a == calls[i].vector.report
                b == calls[j].vector.report
            IN  (i < j /\ a # NONE /\ b # NONE) =>
                    a.epoch <= b.epoch /\ (a.epoch = b.epoch => a = b)

\* Unless something was forgotten, a call is repeated after a rejection, with the
\* operator's opt-in, or after the process died before it could note the outcome
\* (docs/THIN_SUBNET_DESIGN.md 198 knows no such exception).
UnknownIsHeld ==
    NothingForgotten =>
        \A i, j \in 1..Len(calls) :
            Earlier(i, j) => calls[j].optIn \/ calls[i].answer \in {"rejected", "lost"}

\* The thin validator: types, one vector per round, sources that never roll back, an
\* unknown outcome is held.
ThinInv == ThinTypeOK /\ OneVectorPerRound /\ SourceNeverRollsBack /\ UnknownIsHeld
=============================================================================
