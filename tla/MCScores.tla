------------------------------ MODULE MCScores ------------------------------
(* What decides how much is paid, for TLC: scores and the signed feed, the  *)
(* mapping to UIDs, GPU offers, the solver arena, the board and the epoch   *)
(* artifacts.  They share no state with one another: each behaviour runs    *)
(* one of them, the others stay in one initial state.                       *)
EXTENDS ScoreBuild, WeightFeed, UidMapping, TeeGpu, SolverArena, BoardRefill, V2Artifacts

CONSTANTS m1, m2, m3, ck        \* miners, and the coldkey of two of them

VARIABLE service

vars == <<scoreVars, feedVars, uidVars, gpuVars, arenaVars, boardVars, artifactVars, service>>

----------------------------------------------------------------------------
\* Scores: one coldkey with two hotkeys, the external policies, two reports of
\* the confidential source and two of another.
TheColdkeys == m1 :> ck @@ m2 :> ck
Base ==
    [mode |-> "proportional", pm |-> "off", collapse |-> FALSE, registered |-> TRUE,
     confirm |-> TRUE, supply |-> FALSE, external |-> "blend", source |-> CapSource,
     payable |-> "filter"]
TheFeedConfigs ==
    {Base,
     [Base EXCEPT !.source = "violet_audio", !.pm = "bonus", !.collapse = TRUE],
     [Base EXCEPT !.external = "confidential_primary", !.supply = TRUE, !.payable = "mark"],
     [Base EXCEPT !.mode = "row_score_recent", !.pm = "assigned_only", !.supply = TRUE],
     [Base EXCEPT !.mode = "flat_recent", !.pm = "pm_primary", !.external = "external_primary"]}
Body(i, s, e, b, c, sc) ==
    [id |-> i, source |-> s, epoch |-> e, body |-> b, complete |-> c, scores |-> sc]
ThePayloads ==
    {Body(1, CapSource, 1, 1, TRUE, m1 :> Grain @@ m3 :> Grain),
     Body(2, CapSource, 2, 2, TRUE, NoScores),
     Body(3, "violet_audio", 1, 3, TRUE, m1 :> Grain),
     Body(3, "violet_audio", 2, 4, FALSE, m3 :> Grain)}
ThePolls == {Miners, Miners \ {m3}}
TheClaims == {<<m3, 1>>, <<m1, 2>>}

\* UIDs: subnets of five and of three, in which one miner is immune or not;
\* vectors of every policy.
At(h, r) == [hk |-> h, reg |-> r]
TheSubnets ==
    {0 :> At("o", 1) @@ 1 :> At("a", r) @@ 2 :> At("c", 1) @@ 3 :> At("d", 1) @@ 4 :> At("e", 1) : r \in {3, 4}}
    \cup {0 :> At("o", 1) @@ 1 :> At("a", 1) @@ 2 :> At("c", 2)}
Pay(b, e) == [base |-> b, external |-> e]
SignedAs(p, rs, m, burn, bu, pc) ==
    [policy |-> p, rows |-> rs, mass |-> m, burn |-> burn, burnUid |-> bu, percent |-> pc, shareOf |-> 4]
TheSignedVectors ==
    {SignedAs("supply", "a" :> Pay(0, 10), 1, "o", NONE, 10),
     SignedAs("primary", "a" :> Pay(0, 5) @@ "c" :> Pay(0, 5), 1, "o", NONE, 10),
     SignedAs("primary", "x" :> Pay(0, 0), 0, "o", 0, 10),
     SignedAs("primary", "a" :> Pay(0, 3) @@ "x" :> Pay(0, 3), 1, "o", 0, 10),
     SignedAs("v3", "a" :> Pay(3, 1) @@ "x" :> Pay(3, 1), 1, NONE, 0, 10),
     SignedAs("legacy", "a" :> Pay(3, 0) @@ "c" :> Pay(3, 0), 1, NONE, NONE, 0)}

\* The arena: a slow solver that is right and a fast one that is sometimes
\* wrong, a batch of two instances, and breaker instances of two rounds, of a
\* task the slow one runs out of time on and of one it solves.
Outcome(c, g, l, w) == [claim |-> c, genuine |-> g, late |-> l, wall |-> w]
TheBehaviours ==
    "slow" :> ("p" :> Outcome("sat", TRUE, FALSE, 9) @@ "q" :> Outcome("sat", TRUE, TRUE, 10)
               @@ "x" :> Outcome("unsat", TRUE, TRUE, 10))
 @@ "fast" :> ("p" :> Outcome("sat", TRUE, FALSE, 1) @@ "q" :> Outcome("sat", FALSE, FALSE, 2)
               @@ "x" :> Outcome("unsat", TRUE, FALSE, 4))
TheBatches == <<{"p", "q"}>>
Breaker(t, r) == [owner |-> "a", task |-> t, round |-> r, body |-> TRUE]
TheBreakers == {Breaker("x", 2), Breaker("x", 3), Breaker("p", 3)}
ThePublications == {<<"slow", "a">>, <<"fast", "b">>}
TheRunners ==
    {[contained |-> TRUE, command |-> "safe", bin |-> FALSE],
     [contained |-> TRUE, command |-> "none", bin |-> TRUE]}

\* The board: pre-generation off, on with and without a bucket, unconfigured.
Deployment(g, b) == [generator |-> g, fallback |-> FALSE, bucket |-> b]
TheBoardConfs ==
    {Deployment("off", FALSE), Deployment("on", TRUE), Deployment("on", FALSE),
     [Deployment("on", TRUE) EXCEPT !.fallback = TRUE], Deployment("unconfigured", FALSE)}
OneTier == <<1>>

\* Artifacts: two identities in one list.
TheLists == {<<"a", "b">>}

----------------------------------------------------------------------------
Init ==
    /\ FeedInit /\ ScoreInit /\ UidInit /\ GpuInit /\ ArenaInit /\ BoardInit /\ ArtifactInit
    /\ service \in {"feed", "score", "work", "uid", "gpu", "arena", "board", "artifacts"}
    /\ service # "score" => feedConf = Base
    /\ service # "feed" => postgres
    /\ service # "uid" => /\ pinned = NONE /\ announced = << >>
                          /\ subnet = CHOOSE s \in TheSubnets : TRUE
    /\ service # "gpu" => gpuPolicy = "none" /\ replicas = GpuProcesses /\ capacity = NONE
    /\ service # "arena" => runner = CHOOSE r \in Runners : TRUE
    /\ service # "board" => boardConf = CHOOSE c \in BoardConfs : TRUE
    /\ service # "artifacts" => bucket = << >>

Only(name, step, rest) == service = name /\ step /\ UNCHANGED <<rest, service>>

Next ==
    \/ Only("feed", FeedNext, <<scoreVars, uidVars, gpuVars, arenaVars, boardVars, artifactVars>>)
    \/ Only("score", ScoreNext, <<feedVars, uidVars, gpuVars, arenaVars, boardVars, artifactVars>>)
    \/ Only("work", WorkNext, <<feedVars, uidVars, gpuVars, arenaVars, boardVars, artifactVars>>)
    \/ Only("uid", UidNext, <<scoreVars, feedVars, gpuVars, arenaVars, boardVars, artifactVars>>)
    \/ Only("gpu", GpuNext, <<scoreVars, feedVars, uidVars, arenaVars, boardVars, artifactVars>>)
    \/ Only("arena", ArenaNext, <<scoreVars, feedVars, uidVars, gpuVars, boardVars, artifactVars>>)
    \/ Only("board", BoardNext, <<scoreVars, feedVars, uidVars, gpuVars, arenaVars, artifactVars>>)
    \/ Only("artifacts", ArtifactNext, <<scoreVars, feedVars, uidVars, gpuVars, arenaVars, boardVars>>)

Spec == Init /\ [][Next]_vars

\* The invariants of ScoreBuild and WeightFeed, looked at where they can change:
\* the share of the confidential source is exact and mirrored hotkeys earn
\* nothing (weights.py).
ScoresSound ==
    /\ service \in {"score", "work"} => ScoreInv
    /\ service = "feed" => FeedTypeOK

\* refill.py and board_cache.py: served bodies verify against their rows and a
\* fresh board is current.
BoardSound == service = "board" => BoardInv
=============================================================================
