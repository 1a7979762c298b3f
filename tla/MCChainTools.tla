---------------------------- MODULE MCChainTools ----------------------------
(* The two programs that write to the chain beside the relay, for TLC: each *)
(* behaviour runs one of them, the other stays in its initial state.        *)
EXTENDS HotkeyRotation, ThinValidator, TLC

CONSTANTS
    u1, u2,     \* subnet owners
    MaxUpsets   \* bound: deaths and drifts of a rotation together

VARIABLE program

Init ==
    /\ RotationInit
    /\ ThinInit
    /\ program \in {"rotation", "thin"}

Next ==
    \/ /\ program = "rotation" /\ RotationNext /\ UNCHANGED <<thinVars, program>>
       /\ faults' + world' <= MaxUpsets
    \/ program = "thin" /\ ThinNext /\ UNCHANGED <<rotationVars, program>>

Spec == Init /\ [][Next]_<<rotationVars, thinVars, program>>

\* Two reports of one epoch, and a successor of the first.
TheReports ==
    {[owner |-> u1, epoch |-> 1, id |-> 1, prev |-> 0],
     [owner |-> u1, epoch |-> 1, id |-> 2, prev |-> 0],
     [owner |-> u1, epoch |-> 2, id |-> 3, prev |-> 1]}

\* A delegation, its successor, and that of the next owner.
TheRegistrations ==
    {[owner |-> u1, sequence |-> 1, id |-> 1, prev |-> 0],
     [owner |-> u1, sequence |-> 2, id |-> 2, prev |-> 1],
     [owner |-> u2, sequence |-> 1, id |-> 3, prev |-> 0]}

\* Invocations, processes and replacement hotkeys are interchangeable.
ToolSymmetry ==
    Permutations(Operators \cup Hosts) \cup Permutations(NewHotkeys)
=============================================================================
