----------------------------- MODULE WeightChain -----------------------------
(***************************************************************************)
(* What a validator's submitter promises the chain, whichever process runs *)
(* it and wherever it stops: weight writes appear in an order that never   *)
(* goes back to an older (or the same) policy, the relay ("thin") lane      *)
(* never writes again after the authority lane has, the one launch write   *)
(* is unique, and the authority lane takes over from a relay lane only      *)
(* after a launch that succeeded.                                          *)
(***************************************************************************)
EXTENDS Naturals, Sequences

CONSTANTS Versions   \* policy versions and source epochs

VARIABLE writes      \* the account's set_mechanism_weights calls, in chain order

Write == [lane : {"thin", "authority"}, ver : Versions, launch : BOOLEAN,
          ok : BOOLEAN]

Newest(w) ==
    \A i \in 1..Len(writes) : writes[i].lane = w.lane => writes[i].ver < w.ver

OneWay(w) ==
    w.lane = "thin" => \A i \in 1..Len(writes) : writes[i].lane = "thin"

LaunchOnce(w) ==
    w.launch => /\ w.lane = "thin"
                /\ \A i \in 1..Len(writes) : ~writes[i].launch

Handoff(w) ==
    w.lane = "authority" =>
        \E i \in 1..Len(writes) : writes[i].launch /\ writes[i].ok

Init == writes = <<>>

Append1(w) ==
    /\ Newest(w)
    /\ OneWay(w)
    /\ LaunchOnce(w)
    /\ Handoff(w)
    /\ writes' = Append(writes, w)

Next == \E w \in Write : Append1(w)

Spec == Init /\ [][Next]_writes
=============================================================================
