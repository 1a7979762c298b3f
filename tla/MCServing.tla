----------------------------- MODULE MCServing -----------------------------
(* What miners and readers meet, and the lanes that feed the weights, for   *)
(* TLC: the mechanism lanes, attestations, the lean ingress, the request    *)
(* gates, the read caches, solution blobs, seeding, real instances and the  *)
(* miner of the thin subnet.                                                *)
(* They share no state with one another: each behaviour runs one of them,   *)
(* the others stay in one initial state.                                    *)
EXTENDS Mechanisms, SolverAttest, LeanIngress, RequestGates, ReadCaches, V2Blobs,
        ChallengeSources, ThinMiner, TLC

VARIABLE service

vars == <<mechVars, attestVars, ingressVars, gateVars, cacheVars, blobVars, seedVars,
          corpusVars, minerVars, service>>

----------------------------------------------------------------------------
\* Lanes: two documents of one epoch and a successor, with CyberGym on or off;
\* a metagraph in which a UID changes hands.
Doc(e, t, sc) == [epoch |-> e, at |-> t, complete |-> TRUE, scores |-> sc]
TheDocs == {Doc(1, 1, "a" :> 1 @@ "b" :> 2), Doc(1, 1, "a" :> 1), Doc(2, 2, "b" :> 1)}
LaneOf(e, o) == [enabled |-> e, fraction |-> 12, owner |-> "o", ownerUid |-> o]
TheLaneConfigs ==
    {("cybergym_v0" :> LaneOf(on, NONE)) @@ ("posted" :> LaneOf(TRUE, 2)) @@ ("sat_v2" :> LaneOf(TRUE, NONE))
        : on \in BOOLEAN}
TheSat == "a" :> 1
TheUidMaps == {("z" :> 0) @@ ("a" :> 1) @@ ("b" :> 2), ("z" :> 0) @@ ("b" :> 1)}
ThePosts == {[owner |-> "o", vec |-> 1 :> 1, at |-> 1]}

\* Attestations: two runs of one miner, one of another.
TheOwners == 1 :> "a" @@ 2 :> "a" @@ 3 :> "b"
TheInstances == 1 :> "x" @@ 2 :> "y" @@ 3 :> "x"

\* Ingress: good and bad requests of two hotkeys for one challenge.
Sends(h, b, t, w) == [hotkey |-> h, challenge |-> "x", bits |-> b, token |-> t, wrong |-> w]
TheSends ==
    {Sends("a", 1, 1, NONE), Sends("a", 2, 2, NONE), Sends("a", 2, 1, "token"),
     Sends("b", 1, 3, NONE), Sends("b", 1, 3, "signature")}

\* Gates: two peers, forged headers, and deployments with each kind of limit.
Call(p, s, b, h, ro) == [peer |-> p, sent |-> s, bare |-> b, hk |-> h, route |-> ro]
TheCalls ==
    {Call("p", <<>>, FALSE, "a", "submit"), Call("p", <<"q">>, FALSE, NONE, "board"),
     Call("p", <<"x">>, FALSE, NONE, "board"), Call("q", <<>>, FALSE, "a", "pm_read"),
     Call("q", <<>>, TRUE, NONE, "poll")}
Web(ro, im, ho, rpm, ip, ac, bu, wt) ==
    [role |-> ro, ipMode |-> im, hops |-> ho, rpm |-> rpm, ipRpm |-> ip, actorRpm |-> ac,
     burst |-> bu, refill |-> 1, cap |-> 1, wait |-> wt]
TheWebs ==
    {Web("all", "railway", 1, 1, 0, 0, 0, TRUE), Web("submit", "railway", 2, 0, 2, 1, 0, FALSE),
     Web("all", "headers", 1, 0, 2, 0, 1, FALSE), Web("read", "socket", 1, 2, 0, 0, 0, TRUE),
     Web("worker", "socket", 1, 2, 0, 0, 0, TRUE)}

\* Seeding: pages that end inside one time stamp, rows without a key or without
\* another column.
W(r, i, k) == [ran |-> r, id |-> i, kind |-> k]
TheRows ==
    {W(1, 1, "sound"), W(1, 3, "sound"), W(1, 4, "nokey"), W(2, 1, "sound"), W(2, 2, "sound"),
     W(4, 1, "sound"), W(5, 1, "partial"), W(5, 2, "sound")}
TheBoards == {{"c1"}, {"c1", "c2"}}

----------------------------------------------------------------------------
Init ==
    /\ MechInit /\ AttestInit /\ IngressInit /\ GateInit /\ CacheInit /\ BlobInit /\ SeedInit
    /\ CorpusInit /\ MinerInit
    /\ service \in {"lanes", "attest", "ingress", "gates", "soft", "timer", "ready", "blobs",
                    "seed", "corpus", "miner"}
    /\ service # "lanes" => /\ specs = CHOOSE c \in LaneConfigs : TRUE
                            /\ graph["a"] # NONE
    /\ service # "attest" => solvers = {}
    /\ service # "gates" => gateConf = CHOOSE c \in GateConfs : TRUE
    /\ service # "soft" => coldAsync

Only(name, step, rest) == service = name /\ step /\ UNCHANGED <<rest, service>>

Next ==
    \/ Only("lanes", MechNext, <<attestVars, ingressVars, gateVars, cacheVars, blobVars, seedVars, corpusVars, minerVars>>)
    \/ Only("attest", AttestNext, <<mechVars, ingressVars, gateVars, cacheVars, blobVars, seedVars, corpusVars, minerVars>>)
    \/ Only("ingress", IngressNext, <<mechVars, attestVars, gateVars, cacheVars, blobVars, seedVars, corpusVars, minerVars>>)
    \/ Only("gates", GateNext, <<mechVars, attestVars, ingressVars, cacheVars, blobVars, seedVars, corpusVars, minerVars>>)
    \/ Only("soft", SoftNext, <<mechVars, attestVars, ingressVars, gateVars, blobVars, seedVars, corpusVars, minerVars>>)
    \/ Only("timer", TimerNext, <<mechVars, attestVars, ingressVars, gateVars, blobVars, seedVars, corpusVars, minerVars>>)
    \/ Only("ready", ReadyNext, <<mechVars, attestVars, ingressVars, gateVars, blobVars, seedVars, corpusVars, minerVars>>)
    \/ Only("blobs", BlobNext, <<mechVars, attestVars, ingressVars, gateVars, cacheVars, seedVars, corpusVars, minerVars>>)
    \/ Only("seed", SeedNext, <<mechVars, attestVars, ingressVars, gateVars, cacheVars, blobVars, corpusVars, minerVars>>)
    \/ Only("corpus", CorpusNext, <<mechVars, attestVars, ingressVars, gateVars, cacheVars, blobVars, seedVars, minerVars>>)
    \/ Only("miner", MinerNext, <<mechVars, attestVars, ingressVars, gateVars, cacheVars, blobVars, seedVars, corpusVars>>)

Spec == Init /\ [][Next]_vars

\* What is let in.  RequestGates, ChallengeSources and ThinMiner: a permit comes
\* back once and a flood is bounded, a resumed seed pass misses no row of the feed but
\* those passed over by a watermark left half written, a minted real instance has the
\* solution it was planted with, and the miner answers what it was asked, one formula
\* per round and validator, at a bounded rate.
IntakeSound ==
    /\ service = "gates" => GateInv
    /\ service = "seed" => SeedInv
    /\ service = "corpus" => CorpusInv
    /\ service = "miner" => MinerInv

\* mechanism_router.py and cybergym_bridge.py: unproven share burns, and what
\* is paid was authenticated.
LanesSound == service = "lanes" => MechInv
=============================================================================
