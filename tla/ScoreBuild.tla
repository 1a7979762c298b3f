----------------------------- MODULE ScoreBuild -----------------------------
(***************************************************************************)
(* One build of the signed weight vector: external score reports and their *)
(* epoch fence (publisher/external_scores.py), and the composition that    *)
(* reads the database in several queries while reports and metagraph rows  *)
(* change (publisher/weights.py).  Publication is WeightFeed's.            *)
(* A score vector is a function from the hotkeys it names to naturals, in  *)
(* units of 1/Grain: the code rounds to 10^-6, Grain keeps the rounding    *)
(* and makes it coarse.                                                    *)
(***************************************************************************)
EXTENDS Integers, FiniteSets, FiniteSetsExt, Functions, Absent

CONSTANTS
    Miners,         \* hotkeys
    Challenges,     \* ids of board challenges
    HardChallenges, \* those of tier 2
    ColdkeyOf,      \* coldkey_map: a function from some hotkeys to coldkeys
    Grain,          \* units of a score of 1.0
    ShareNum, ShareDen, \* the configured external fraction, as a ratio
    FeedConfigs,    \* configurations: see FeedConfig
    Payloads,       \* report bodies a source may send: see Payload
    Polls,          \* metagraph memberships the poller may write
    FirstClaims,    \* claims on the board at the start
    MaxFeedTime, MaxFeedEvents, MaxAssigned,    \* bounds
    ReportWindow, SnapshotWindow        \* ages at which a row is stale

CapSource == "cathedral_confidential_tdx"

FeedConfig ==
    [mode : {"flat_recent", "proportional", "row_score_recent"},
     pm : {"off", "shadow", "bonus", "pm_primary", "assigned_only"},
     collapse : BOOLEAN, registered : BOOLEAN, confirm : BOOLEAN, supply : BOOLEAN,
     external : {"off", "blend", "external_primary", "confidential_primary"},
     source : {"violet_audio", CapSource},
     payable : {"off", "mark", "filter"}]

ASSUME BlendConstants ==
    /\ IsFiniteSet(Miners) /\ IsFiniteSet(Challenges) /\ HardChallenges \subseteq Challenges
    /\ DOMAIN ColdkeyOf \subseteq Miners
    /\ Grain \in Nat \ {0}
    /\ ShareDen \in Nat \ {0} /\ ShareNum \in 1..(ShareDen - 1)

\* What authentication, canonical form and the score list come to: scores are
\* in units of 1/Grain.
Payload == [id : Nat, source : {"violet_audio", CapSource}, epoch : Nat, body : Nat,
            complete : BOOLEAN, scores : UNION {[S -> 0..Grain] : S \in SUBSET Miners}]

ASSUME ScoreConstants ==
    /\ Payloads \subseteq Payload
    /\ FeedConfigs \subseteq FeedConfig
    /\ FirstClaims \subseteq Miners \X Challenges
    /\ {MaxFeedTime, MaxFeedEvents, MaxAssigned, ReportWindow, SnapshotWindow} \subseteq Nat
    /\ Polls \subseteq SUBSET Miners

----------------------------------------------------------------------------
(* The arithmetic                                                           *)

NoScores == [hk \in {} |-> 0]
Mass(scores) == SumFunctionOnSet(scores, DOMAIN scores)
Keep(scores, hks) == Restrict(scores, DOMAIN scores \cap hks)
Nearest(n, d) == (2 * n + d) \div (2 * d)
Highest(S) == Max(S \cup {0})

\* tier_weights: tier 1 is the floor, tier 2 counts three times.
tier_weights == [ch \in Challenges |-> IF ch \in HardChallenges THEN 3 ELSE 1]

\* coldkey_of.get(hk, hk) when the map is used; the hotkey otherwise.
ident(collapse) ==
    [hk \in Miners |-> IF collapse /\ hk \in DOMAIN ColdkeyOf THEN ColdkeyOf[hk] ELSE hk]

\* The split every composer ends in: an identity's total over the best total,
\* divided among the hotkeys that earned it.
Split(total, hks, id) ==
    LET top == Highest({total[id[hk]] : hk \in hks})
        members(hk) == Cardinality({h \in hks : id[h] = id[hk]})
    IN  IF top = 0 THEN NoScores
        ELSE [hk \in hks |-> Nearest(Grain * total[id[hk]], top * members(hk))]

Sums(units, id) ==
    [i \in Range(id) |-> SumFunctionOnSet(units, {hk \in Miners : id[hk] = i})]
Bests(units, id) ==
    [i \in Range(id) |-> Highest({units[hk] : hk \in {h \in Miners : id[h] = i}})]
Positive(units) == {hk \in DOMAIN units : units[hk] > 0}

----------------------------------------------------------------------------
(* Base scores                                                              *)

\* _compose_row_score_recent: attested rows add up per identity.
compose_row_score_recent(rows, id) == Split(Sums(rows, id), Positive(rows), id)

\* Proportional scoring: a challenge counts once per identity, whoever of its
\* hotkeys claimed it.  Without a map the identity is the hotkey and the
\* database does the sums (_compose_proportional_hotkey_sql).
\* Mutant: it counts once per hotkey.
compose_proportional_per_hotkey(claims, id) ==
    LET units == [hk \in Miners |->
                    SumFunctionOnSet(tier_weights, {ch \in Challenges : <<hk, ch>> \in claims})]
    IN  Split(Sums(units, id), {c[1] : c \in claims}, id)
compose_proportional(claims, id) ==
    LET solved(i) == {ch \in Challenges : \E hk \in Miners : id[hk] = i /\ <<hk, ch>> \in claims}
    IN  Split([i \in Range(id) |-> SumFunctionOnSet(tier_weights, solved(i))],
              {c[1] : c \in claims}, id)

\* flat_recent: every identity in the feed has one unit.
compose_flat(feed, id) == Split([i \in Range(id) |-> 1], feed, id)

\* _perminer_window_scores: the best hotkey of an identity counts.
perminer_window_scores(assigned, id) == Split(Bests(assigned, id), Positive(assigned), id)

\* _apply_perminer_primary with a public baseline of zero.
apply_perminer_primary(pm) ==
    LET top == Highest(Range(pm))
    IN  IF top = 0 THEN NoScores ELSE [hk \in DOMAIN pm |-> Nearest(Grain * pm[hk], top)]

\* _apply_perminer_bonus: a fifth of the assigned score, scaled between a
\* quarter and one by the identity's standing in the base vector.
apply_perminer_bonus(base, pm, mapped) ==
    LET id   == ident(mapped)
        all  == DOMAIN base \cup DOMAIN pm
        of(v, hk) == IF hk \in DOMAIN v THEN v[hk] ELSE 0
        best(v, hk) == Highest({of(v, h) : h \in {g \in all : id[g] = id[hk]}})
        top  == Highest(Range(base))
        members(hk) == Cardinality({h \in all : id[h] = id[hk]})
        bonus(hk) == IF top = 0 THEN Nearest(best(pm, hk), 5 * members(hk))
                     ELSE Nearest(best(pm, hk) * (top + 3 * best(base, hk)),
                                  20 * top * members(hk))
        sum  == [hk \in all |-> of(base, hk) + bonus(hk)]
        peak == Highest(Range(sum))
    IN  CASE pm = NoScores               -> base
          [] pm # NoScores /\ peak = 0 -> NoScores
          [] OTHER                       -> [hk \in all |-> Nearest(Grain * sum[hk], peak)]

\* compose_scores up to the external step.  pm is NONE (absent) when assigned
\* scoring is off, in shadow or without solves; board is what the queries of
\* the base step return.
compose_scores(cf, pm, pmNow, board, absent) ==
    LET id   == ident(cf.collapse)
        core == CASE cf.mode = "row_score_recent" ->
                       compose_row_score_recent(board.rows, id)
                  [] cf.mode = "proportional" /\ board.claims # {} ->
                       compose_proportional(board.claims, id)
                  [] OTHER -> compose_flat(Positive(board.rows), id)
    IN  CASE pm # absent /\ cf.pm = "assigned_only" -> pm
          [] pm # absent /\ cf.pm = "pm_primary"    -> apply_perminer_primary(pm)
          [] OTHER -> apply_perminer_bonus(core, pmNow, DOMAIN ColdkeyOf # {})

----------------------------------------------------------------------------
(* The blend.  Components keep both vectors L1-normalised exactly: over the  *)
(* common denominator, a hotkey's base part is base * mass(ext) * (1 - f).   *)

\* _identity_collapse_scores: the maximum of an identity, split.
identity_collapse(raw, id) ==
    Split(Bests([hk \in Miners |-> IF hk \in DOMAIN raw THEN raw[hk] ELSE 0], id),
          Positive(raw), id)

\* _apply_confidential_tdx_global_cap and the plain blend.
Blended(base, ext) ==
    LET part(v, hk) == IF hk \in DOMAIN v THEN v[hk] ELSE 0
    IN  [hk \in Positive(base) \cup Positive(ext) |->
           [base |-> part(base, hk) * Mass(ext) * (ShareDen - ShareNum),
            external |-> part(ext, hk) * Mass(base) * ShareNum]]
BaseOnly(base) == [hk \in DOMAIN base |-> [base |-> base[hk], external |-> 0]]
ExternalOnly(ext) == [hk \in DOMAIN ext |-> [base |-> 0, external |-> ext[hk]]]

BaseMass(v) == Mass([hk \in DOMAIN v |-> v[hk].base])
ExternalMass(v) == Mass([hk \in DOMAIN v |-> v[hk].external])

\* _validate_confidential_tdx_components: the aggregate is the fraction.
\* Mutant: it accepts any.
components_ok_any(v) == TRUE
components_ok(v) ==
    LET total == BaseMass(v) + ExternalMass(v)
    IN  total > 0 => ExternalMass(v) * ShareDen = total * ShareNum

----------------------------------------------------------------------------
VARIABLES
    feedConf,   \* the environment variables
    feedTime,
    events,     \* how many times reports or metagraph rows changed
    board,      \* lane_challenge_solves, eval_runs, per_miner_solves
    reports,    \* external_score_reports with their entries
    polled,     \* metagraph_hotkeys: when each hotkey was last seen
    build       \* the build in progress, or the vector it signed

scoreVars == <<feedConf, feedTime, events, board, reports, polled, build>>
scoreData == <<events, board, reports, polled>>

Report == [payload : Payloads, at : 0..MaxFeedTime]

IdleBuild == [pc |-> "idle", base |-> NoScores, ext |-> NoScores, weights |-> NoScores]

ScoreInit ==
    /\ feedConf \in FeedConfigs
    /\ feedTime = 0 /\ events = 0
    /\ board = [claims |-> FirstClaims, assigned |-> [hk \in Miners |-> 0],
                rows |-> [hk \in Miners |-> Cardinality({ch \in Challenges : <<hk, ch>> \in FirstClaims})]]
    /\ reports = {}
    /\ polled = [hk \in Miners |-> 0]
    /\ build = IdleBuild

----------------------------------------------------------------------------
(* The data                                                                 *)

Changes(vs) == events < MaxFeedEvents /\ events' = events + 1 /\ UNCHANGED <<vs, board>>

\* Verified work of the other components: a board solve has its feed row.
Solved(hk, ch) ==
    /\ <<hk, ch>> \notin board.claims
    /\ board' = [board EXCEPT !.claims = @ \cup {<<hk, ch>>}, !.rows[hk] = @ + 1]
Assigned(hk) ==
    /\ board.assigned[hk] < MaxAssigned
    /\ board' = [board EXCEPT !.assigned[hk] = @ + 1]

\* The metagraph poller: rows are refreshed, never removed.
Polled(hks) ==
    /\ Changes(reports)
    /\ polled' = [hk \in Miners |-> IF hk \in hks THEN feedTime ELSE polled[hk]]

OfSource(src) == {r \in reports : r.payload.source = src}
LatestOf(src) ==
    IF OfSource(src) = {} THEN NONE
    ELSE CHOOSE r \in OfSource(src) : \A q \in OfSource(src) : q.payload.epoch <= r.payload.epoch

\* _normalize_report: inside the age window, or an over-age copy of a stored
\* report; the confidential source must say complete, and only a complete
\* report may be empty.
normalize_report(m, at) ==
    /\ m.complete \/ (m.source # CapSource /\ m.scores # NoScores)
    /\ \/ feedTime - at < ReportWindow
       \/ \E r \in OfSource(m.source) : r.payload.epoch = m.epoch /\ r.payload.body = m.body

\* store_report under the source's transaction lock: the epoch fence.
epoch_fence(m) ==
    LatestOf(m.source) # NONE => m.epoch > LatestOf(m.source).payload.epoch

\* external_scores_violet: one authenticated report.  An equal report is
\* answered and not stored; the row and the entries of its id are replaced.
external_scores_violet(m, at) ==
    /\ Changes(polled)
    /\ normalize_report(m, at)
    /\ epoch_fence(m)
    /\ reports' = {r \in reports : r.payload.id # m.id} \cup {[payload |-> m, at |-> at]}

\* latest_snapshot_scores: the latest epoch, if it is fresh and complete.
latest_snapshot_scores(src) ==
    LET r == LatestOf(src)
    IN  IF r = NONE \/ feedTime - r.at >= ReportWindow \/ ~r.payload.complete
        THEN NONE ELSE Keep(r.payload.scores, Positive(r.payload.scores))

\* _load_fresh_metagraph_hotkeys: rows inside the window, NONE if there is none.
fresh_metagraph ==
    LET hks == {hk \in Miners : polled[hk] # NONE /\ feedTime - polled[hk] < SnapshotWindow}
    IN  IF hks = {} THEN NONE ELSE hks

\* _apply_payable_hotkey_policy: filters only with a fresh snapshot.
payable_policy(scores) ==
    IF feedConf.payable = "filter" /\ fresh_metagraph # NONE
    THEN Keep(scores, fresh_metagraph) ELSE scores

----------------------------------------------------------------------------
(* A build.  Each step is one query and the code up to the next one.        *)

\* external_scores_mode: the confidential source is never external_primary.
external_scores_mode ==
    IF feedConf.external = "external_primary" /\ feedConf.source = CapSource
    THEN "blend" ELSE feedConf.external
Primary == external_scores_mode = "confidential_primary"

\* validated_supply_metadata: raises unless the mode is confidential_primary.
supply_policy_ok == feedConf.supply => Primary

BuildAt(pc) == build.pc = pc
BuildTo(b) == build' = b /\ UNCHANGED <<scoreData, feedTime, feedConf>>

\* build_signed_vector begins; whatever was signed before is published.
Begin == build.pc \in {"idle", "signed", "raised"} /\ BuildTo([IdleBuild EXCEPT !.pc = "compose"])

\* _perminer_compose_scores, then the queries of the selected mode and, for
\* the bonus, the assigned solves again: these tables only grow.
base_scores ==
    LET scores == perminer_window_scores(board.assigned, ident(DOMAIN ColdkeyOf # {}))
        off    == feedConf.pm \in {"off", "shadow"}
        pm     == IF off \/ (scores = NoScores /\ feedConf.pm = "bonus") THEN NONE ELSE scores
        again  == IF off THEN NoScores ELSE perminer_window_scores(board.assigned, ident(FALSE))
    IN  compose_scores(feedConf, pm, again, board, NONE)

\* _compose_external_scores; confidential_primary asks for its source and its
\* confirmation first.
external_snapshot ==
    LET raw     == latest_snapshot_scores(feedConf.source)
        allowed == IF Primary THEN feedConf.source = CapSource /\ feedConf.confirm
                   ELSE feedConf.external # "off"
    IN  IF allowed /\ raw # NONE
        THEN identity_collapse(raw, ident(feedConf.collapse)) ELSE NoScores

\* The base vector is no source of a confidential_primary vector.
compose ==
    /\ BuildAt("compose")
    /\ BuildTo(IF ~supply_policy_ok THEN [IdleBuild EXCEPT !.pc = "raised"]
               ELSE [build EXCEPT !.pc = "registered",
                                  !.base = IF Primary THEN NoScores ELSE base_scores,
                                  !.ext = external_snapshot])

\* The registration filter: fail closed without a fresh snapshot.
registered_filter ==
    /\ BuildAt("registered")
    /\ LET must == feedConf.registered \/ (feedConf.source = CapSource /\ ~Primary)
           ext  == CASE ~must -> build.ext
                     [] must /\ fresh_metagraph = NONE -> NoScores
                     [] OTHER -> Keep(build.ext, fresh_metagraph)
       IN  BuildTo([build EXCEPT !.pc = "payable_base", !.ext = ext])

\* The payability filter of each side before the allocation (weights.py:1400).
payable_base ==
    /\ BuildAt("payable_base")
    /\ BuildTo([build EXCEPT !.pc = "payable_external",
                 !.base = IF feedConf.external = "off" THEN @ ELSE payable_policy(@)])

\* The allocation: external scores never pay alone, except as the primary.
allocate(base, ext) ==
    IF Primary THEN ExternalOnly(ext)
    ELSE CASE Positive(base) = {}                         -> NoScores
           [] Positive(base) # {} /\ Positive(ext) = {} -> BaseOnly(base)
           [] OTHER                                       -> Blended(base, ext)
payable_external ==
    /\ BuildAt("payable_external")
    /\ BuildTo([build EXCEPT !.pc = "final",
                             !.weights = allocate(build.base, payable_policy(build.ext))])

\* build_signed_vector: the final payable filter and, for a confidential
\* blend, the check that the fraction survived it.
build_signed_vector ==
    /\ BuildAt("final")
    /\ LET final  == payable_policy(build.weights)
           capped == ~Primary /\ feedConf.source = CapSource /\ ExternalMass(build.weights) > 0
       IN  \/ (capped => components_ok(final)) /\ BuildTo([IdleBuild EXCEPT !.pc = "signed", !.weights = final])
           \/ capped /\ ~components_ok(final) /\ BuildTo([IdleBuild EXCEPT !.pc = "raised"])

FeedData ==
    /\ \/ \E hks \in Polls : Polled(hks)
       \/ \E m \in Payloads, at \in 0..feedTime : external_scores_violet(m, at)
    /\ UNCHANGED <<feedTime, build, feedConf>>
FeedTick ==
    /\ feedTime < MaxFeedTime
    /\ feedTime' = feedTime + 1
    /\ UNCHANGED <<scoreData, build, feedConf>>

ScoreNext ==
    \/ Begin \/ compose \/ registered_filter \/ payable_base \/ payable_external
    \/ build_signed_vector \/ FeedData \/ FeedTick

\* Builds run on the board they start with, of which they need a vector only;
\* the boards that work can lead to are explored without one.
WorkNext ==
    /\ \E hk \in Miners : Assigned(hk) \/ \E ch \in Challenges : Solved(hk, ch)
    /\ UNCHANGED <<events, reports, polled, feedTime, feedConf, build>>

----------------------------------------------------------------------------
(* Properties                                                               *)

\* Reports and builds have the shape of their tables and variables.
ScoreTypeOK ==
    /\ feedConf \in FeedConfig
    /\ reports \subseteq Report
    /\ DOMAIN build.weights \subseteq Miners

\* What the confidential source is paid: exactly the fraction of a blend, all
\* of a confidential_primary vector and never more than that, whatever the
\* metagraph rows do between the queries of a build.
ConfidentialShare ==
    (BuildAt("signed") /\ feedConf.source = CapSource) =>
        LET a == BaseMass(build.weights)
            c == ExternalMass(build.weights)
        IN  IF Primary THEN a = 0 ELSE c > 0 => c * ShareDen = (a + c) * ShareNum

\* With coldkeys collapsed, claiming a challenge with more hotkeys of one
\* coldkey earns nothing (compose_scores): the identity's mass is that of a
\* miner who made each of its claims once, up to a rounding per hotkey.
MirroringEarnsNothing ==
    LET id     == ident(TRUE)
        rep(i) == CHOOSE hk \in Miners : id[hk] = i
        once   == {<<rep(id[c[1]]), c[2]>> : c \in board.claims}
        of(i, claims) == Mass(Keep(compose_proportional(claims, id), {hk \in Miners : id[hk] = i}))
    IN  \A i \in Range(id) :
            of(i, board.claims) \in (of(i, once) - Cardinality(Miners))..(of(i, once) + Cardinality(Miners))

\* Scores: types, the share of the confidential source, and no gain from mirrors.
ScoreInv == ScoreTypeOK /\ ConfidentialShare /\ MirroringEarnsNothing
=============================================================================
