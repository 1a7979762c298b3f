----------------------------- MODULE MCV2Bitset -----------------------------
(* A small instance of V2Bitset for TLC.                                    *)
EXTENDS V2Bitset

CONSTANTS h1, c1, i1, i2

\* Every challenge belongs to one identity and to the first epoch.
OneOwner == [c \in Challenges |-> i1]
FirstEpoch == [c \in Challenges |-> 0]

\* The worker loop ticks for ever and a lock is a deadline in time; no request
\* and no change of the environment is owed.
FairSpec ==
    /\ BitsetInit /\ [][BitsetNext]_bitsetVars
    /\ \A w \in Workers :
          /\ WF_bitsetVars(claim_bitset_batch(w))
          /\ WF_bitsetVars(publish_changed_miners(w))
          /\ \A k \in Keys : /\ WF_bitsetVars(verify_bitset_one(w, k))
                             /\ WF_bitsetVars(finish(w, k))
    /\ \A k \in Keys : WF_bitsetVars(LockLapses(k))
=============================================================================
