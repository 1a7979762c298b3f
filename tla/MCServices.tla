----------------------------- MODULE MCServices -----------------------------
(* Services whose progress is checked, for TLC: the singleton lock, the V2  *)
(* manifest queue and the rotation operator.  They share nothing with one   *)
(* another: each behaviour runs one of them, the others stay initial.       *)
EXTENDS SingletonLock, V2Manifests, HotkeyRotation

VARIABLE service

vars == <<lockVars, manifestVars, rotationVars, service>>

Init ==
    /\ LockInit /\ ManifestInit /\ RotationInit
    /\ service \in {"lock", "manifests", "rotation"}

Lock(step) ==
    service = "lock" /\ step /\ UNCHANGED <<manifestVars, rotationVars, service>>
Queue(step) ==
    service = "manifests" /\ step /\ UNCHANGED <<lockVars, rotationVars, service>>
Rotation(step) ==
    service = "rotation" /\ step /\ UNCHANGED <<lockVars, manifestVars, service>>

Next == Lock(LockNext) \/ Queue(ManifestNext) \/ Rotation(RotationNext)

\* Time passes, deadlines with it, and blocks are finalized.  Loops go on;
\* neither a restart nor the database's own clean-up is relied on, and no
\* submit is owed.  An operator who was told NOT_PROVEN reconciles again, and a
\* node that is asked again and again answers.
FairSpec ==
    /\ Init /\ [][Next]_vars
    /\ WF_vars(Lock(Clock))
    /\ \A p \in Processes : WF_vars(Lock(LoopStep(p)))
    /\ \A w \in Verifiers : WF_vars(Queue(TickStep(w)))
    /\ \A m \in Manifests : WF_vars(Queue(Deadline(m)))
    /\ WF_vars(Rotation(FinalizeBlock))
    /\ \A o \in Operators :
          /\ WF_vars(Rotation(ToolStep(o)))
          /\ SF_vars(Rotation(validate_pending_attempt(o)))
          /\ SF_vars(Rotation(historical_rotation_receipt(o) /\ op'[o].pc = "receipt"))
          /\ SF_vars(Rotation(post_rotation_proof(o) /\ op'[o].pc = "finish"))

\* SingletonLock: a waiting process sees a loop run again, or dies.
\* V2Manifests: every admitted manifest is verified, rejected or out of attempts.
WorkersRecover ==
    /\ service = "lock" => LoopRecovers
    /\ service = "manifests" => ManifestSettles

\* HotkeyRotation: a swap that executed as approved ends in a finalized record.
SwapRecorded == service = "rotation" => RotationCompletes
=============================================================================
