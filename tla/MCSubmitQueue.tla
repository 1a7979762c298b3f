---------------------------- MODULE MCSubmitQueue ----------------------------
(* Small instances of SubmitQueue for TLC.                                   *)
EXTENDS SubmitQueue, TLC

CONSTANTS h1, h2, c1, p1, s1, s2, t1, t2

Req(hk, ch, sol, stamp) == [hk |-> hk, ch |-> ch, sol |-> sol, stamp |-> stamp]

\* One public challenge: one miner with two signings of a good body and one of
\* a bad one, and a second miner.
PublicRequests ==
    {Req(h1, c1, s1, t1), Req(h1, c1, s1, t2), Req(h1, c1, s2, t1),
     Req(h2, c1, s1, t1)}

\* One pm challenge, owned by one miner.
PmRequests ==
    {Req(h1, p1, s1, t1), Req(h1, p1, s1, t2), Req(h1, p1, s2, t1)}

\* The pm challenge of one miner beside a public challenge of two.
MixedRequests ==
    PmRequests \cup {Req(h1, c1, s1, t1), Req(h2, c1, s1, t1)}

GoodOf(R) == {q \in R : q.sol = s1}
GoodPublic == GoodOf(PublicRequests)
GoodMixed == GoodOf(MixedRequests)

QueueSymmetry ==
    Permutations(Receipts) \cup Permutations(Workers) \cup Permutations(Handlers)
=============================================================================
