----------------------- MODULE MCValidatorSubmission -----------------------
(* Small instances of ValidatorSubmission for TLC.                          *)
EXTENDS ValidatorSubmission, TLC

CONSTANTS relay1, launcher, full, auth1

\* A relay alone on its host, no launch material.
OneRelay == (relay1 :> "relay")
\* The one-shot launch, then a relay and the FULL authority.
LaunchHost ==
    (launcher :> "launch") @@ (relay1 :> "relay") @@ (full :> "authority")
LaunchBudget == (launcher :> 1) @@ (relay1 :> 0) @@ (full :> 0)
NoBudget == [p \in Procs |-> 0]

NoAuths == [a \in {} |-> {}]
NoNumbers == [a \in {} |-> 0]
BothLanes == (auth1 :> Lanes)
FromOne == (auth1 :> 1)
OneAttempt == (auth1 :> 1)
=============================================================================
