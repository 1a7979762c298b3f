---------------------------- MODULE PayoutLedger ----------------------------
(***************************************************************************)
(* What the submit path promises, whoever runs it and however often: a     *)
(* signature is spent once, a (challenge, hotkey) pair is paid once, and a *)
(* public challenge pays only while it is open.                            *)
(***************************************************************************)
CONSTANTS Requests,          \* signed submits
          Challenges,        \* everything a submit may name
          PublicChallenges   \* challenges that close

VARIABLES spent,   \* signatures that can no longer be used
          paid,    \* <<challenge, hotkey>> pairs that have been paid
          open     \* challenges that accept solves

Pair(q) == <<q.ch, q.hk>>

Init == spent = {} /\ paid = {} /\ open = Challenges

\* A signature is used up by a submit that is not paid.
Spend(q) ==
    /\ q \notin spent
    /\ spent' = spent \cup {q}
    /\ UNCHANGED <<paid, open>>

\* The one way to be paid. In winner-take-all mode the payout closes the
\* challenge.
Pay(q) ==
    /\ q \notin spent
    /\ Pair(q) \notin paid
    /\ q.ch \in PublicChallenges => q.ch \in open
    /\ spent' = spent \cup {q}
    /\ paid' = paid \cup {Pair(q)}
    /\ open' = open \/ open' = open \ {q.ch}

Close(ch) ==
    /\ ch \in open
    /\ open' = open \ {ch}
    /\ UNCHANGED <<spent, paid>>

Next ==
    \/ \E q \in Requests : Spend(q) \/ Pay(q)
    \/ \E ch \in open : Close(ch)

Spec == Init /\ [][Next]_<<spent, paid, open>>
=============================================================================
