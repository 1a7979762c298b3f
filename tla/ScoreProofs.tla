----------------------------- MODULE ScoreProofs ------------------------------
(***************************************************************************)
(* Proofs about what decides how much is paid, for any miners, coldkeys,   *)
(* challenges, replicas, tiers and bounds.  Every signed vector gives the  *)
(* confidential source its exact share, whatever moves between the queries *)
(* of a build; mirrored hotkeys earn nothing; the signed feed only moves   *)
(* forward; a served body is the one its row was minted with, and a fresh  *)
(* board is the whole current one.                                         *)
(***************************************************************************)
EXTENDS MCScores, SetSums, SequenceTheorems

----------------------------------------------------------------------------
(* Greatest elements and rounding                                            *)

LEMMA HighestFacts ==
    ASSUME NEW S \in SUBSET Nat, IsFiniteSet(S)
    PROVE  /\ Highest(S) \in Nat /\ \A y \in S : y <= Highest(S)
<1> DEFINE T == S \cup {0}
<1>1. T \in SUBSET Nat /\ IsFiniteSet(T) /\ T # {}
  BY FS_AddElement
<1> HIDE DEF T
<1>2. \E m \in T : \A y \in T : m >= y
  <2>1. PICK m \in T : \A y \in T : y <= m
    BY <1>1, GreatestOf
  <2> QED BY <1>1, <2>1
<1>3. Max(T) \in T /\ \A y \in T : Max(T) >= y
  BY <1>2 DEF Max
<1> QED BY <1>1, <1>3 DEF Highest, T

LEMMA NearestFacts ==
    ASSUME NEW n \in Nat, NEW d \in Nat \ {0}
    PROVE  /\ Nearest(n, d) \in Nat
           /\ 2 * (d * Nearest(n, d)) <= 2 * n + d
           /\ 2 * n < 2 * (d * Nearest(n, d)) + d
<1> DEFINE x == 2 * n + d
           y == 2 * d
           q == Nearest(n, d)
<1>1. x \in Nat /\ y \in Nat \ {0} /\ q = x \div y
  BY DEF Nearest
<1>2. q \in Nat /\ y * q <= x /\ x < y * q + y
  <2> HIDE DEF x, y, q
  <2> QED BY <1>1, Division
<1>3. y * q = 2 * (d * q)
  <2>1. q \in Nat
    BY <1>2
  <2> HIDE DEF q
  <2> QED BY <2>1
<1> HIDE DEF q
<1> QED BY <1>2, <1>3 DEF q

----------------------------------------------------------------------------
(* Scores                                                                   *)

IsScore(v) == DOMAIN v \subseteq Miners /\ v \in [DOMAIN v -> Nat]

LEMMA FiniteMiners == \A S \in SUBSET Miners : IsFiniteSet(S) /\ Cardinality(S) \in Nat
BY BlendConstants, FS_Subset, FS_CardinalityType

LEMMA KeepFacts ==
    ASSUME NEW v, NEW hks
    PROVE  /\ DOMAIN Keep(v, hks) = DOMAIN v \cap hks
           /\ \A hk \in DOMAIN v \cap hks : Keep(v, hks)[hk] = v[hk]
           /\ Keep(v, hks) = [hk \in DOMAIN v \cap hks |-> v[hk]]
BY DEF Keep, Restrict

LEMMA KeepScore ==
    ASSUME NEW v, NEW hks, IsScore(v) PROVE IsScore(Keep(v, hks))
<1> DEFINE S == DOMAIN v \cap hks
<1>1. S \subseteq Miners /\ \A hk \in S : v[hk] \in Nat
  BY DEF IsScore
<1>2. Keep(v, hks) = [hk \in S |-> v[hk]]
  BY KeepFacts
<1> HIDE DEF S
<1>3. IsScore([hk \in S |-> v[hk]])
  BY <1>1 DEF IsScore
<1> QED BY <1>2, <1>3

LEMMA NoScoresScore == IsScore(NoScores)
BY DEF IsScore, NoScores

LEMMA MassNat ==
    ASSUME NEW v, IsScore(v) PROVE Mass(v) \in Nat
<1>1. IsFiniteSet(DOMAIN v) /\ \A x \in DOMAIN v : v[x] \in Nat
  BY FiniteMiners DEF IsScore
<1> QED BY <1>1, SumFacts DEF Mass

LEMMA HighestOfScores ==
    ASSUME NEW S \in SUBSET Miners, NEW f, \A x \in S : f[x] \in Nat
    PROVE  Highest({f[x] : x \in S}) \in Nat /\ \A x \in S : f[x] <= Highest({f[y] : y \in S})
<1> DEFINE T == {f[x] : x \in S}
<1>1. T \in SUBSET Nat /\ \A x \in S : f[x] \in T
  OBVIOUS
<1>2. IsFiniteSet(T)
  BY FiniteMiners, Image
<1> HIDE DEF T
<1>3. Highest(T) \in Nat /\ \A y \in T : y <= Highest(T)
  BY <1>1, <1>2, HighestFacts
<1> QED BY <1>1, <1>3 DEF T

LEMMA MembersCount ==
    ASSUME NEW hks \in SUBSET Miners, NEW id, NEW hk \in hks
    PROVE  Cardinality({h \in hks : id[h] = id[hk]}) \in Nat \ {0}
<1> DEFINE M == {h \in hks : id[h] = id[hk]}
<1>1. M \in SUBSET Miners /\ hk \in M
  OBVIOUS
<1> HIDE DEF M
<1>2. IsFiniteSet(M) /\ Cardinality(M) \in Nat
  BY <1>1, FiniteMiners
<1>3. Cardinality(M) # 0
  BY <1>1, <1>2, FS_EmptySet
<1> QED BY <1>2, <1>3 DEF M

LEMMA SplitScore ==
    ASSUME NEW total, NEW hks \in SUBSET Miners, NEW id, \A hk \in hks : total[id[hk]] \in Nat
    PROVE  IsScore(Split(total, hks, id))
<1> DEFINE top == Highest({total[id[hk]] : hk \in hks})
           members(hk) == Cardinality({h \in hks : id[h] = id[hk]})
           v == [hk \in hks |-> Nearest(Grain * total[id[hk]], top * members(hk))]
<1>1. top \in Nat
  <2>1. PICK f : f = [hk \in hks |-> total[id[hk]]]
    OBVIOUS
  <2>2. {f[hk] : hk \in hks} = {total[id[hk]] : hk \in hks} /\ \A hk \in hks : f[hk] \in Nat
    BY <2>1
  <2> QED BY <2>2, HighestOfScores, ZenonT(30)
<1>2. ASSUME top # 0, NEW hk \in hks
      PROVE  Nearest(Grain * total[id[hk]], top * members(hk)) \in Nat
  <2>1. members(hk) \in Nat \ {0}
    BY MembersCount
  <2> HIDE DEF top, members
  <2>2. Grain * total[id[hk]] \in Nat /\ top * members(hk) \in Nat \ {0}
    BY <1>1, <1>2, <2>1, BlendConstants
  <2> QED BY <2>2, NearestFacts
<1>3. Split(total, hks, id) = IF top = 0 THEN NoScores ELSE v
  BY DEF Split
<1>4. top # 0 => IsScore(v)
  <2> HIDE DEF top, members
  <2> QED BY <1>2 DEF IsScore
<1> HIDE DEF top, v
<1> QED BY <1>3, <1>4, NoScoresScore

LEMMA TotalsNat ==
    ASSUME NEW units, \A hk \in Miners : units[hk] \in Nat, NEW id, DOMAIN id = Miners
    PROVE  \A hk \in Miners : Sums(units, id)[id[hk]] \in Nat /\ Bests(units, id)[id[hk]] \in Nat
<1> SUFFICES ASSUME NEW m \in Miners
             PROVE  Sums(units, id)[id[m]] \in Nat /\ Bests(units, id)[id[m]] \in Nat
  OBVIOUS
<1> DEFINE S == {hk \in Miners : id[hk] = id[m]}
<1>1. S \in SUBSET Miners /\ id[m] \in Range(id) /\ \A x \in S : units[x] \in Nat
  BY DEF Range
<1>2. Sums(units, id)[id[m]] = SumFunctionOnSet(units, S)
      /\ Bests(units, id)[id[m]] = Highest({units[hk] : hk \in S})
  BY <1>1 DEF Sums, Bests
<1> HIDE DEF S
<1>3. SumFunctionOnSet(units, S) \in Nat
  BY <1>1, FiniteMiners, SumFacts
<1>4. Highest({units[hk] : hk \in S}) \in Nat
  BY <1>1, HighestOfScores
<1> QED BY <1>2, <1>3, <1>4

LEMMA WeightsNat == tier_weights \in [Challenges -> Nat] /\
                    \A S \in SUBSET Challenges : SumFunctionOnSet(tier_weights, S) \in Nat
<1>1. tier_weights \in [Challenges -> Nat]
  BY DEF tier_weights
<1>2. ASSUME NEW S \in SUBSET Challenges PROVE SumFunctionOnSet(tier_weights, S) \in Nat
  <2>1. IsFiniteSet(S)
    BY BlendConstants, FS_Subset
  <2> QED BY <1>1, <2>1, SumFacts
<1> QED BY <1>1, <1>2

LEMMA IdentDomain == \A c : DOMAIN ident(c) = Miners
BY DEF ident

LEMMA CoreScores ==
    ASSUME NEW id, DOMAIN id = Miners, NEW units \in [Miners -> Nat],
           NEW claims \in SUBSET (Miners \X Challenges)
    PROVE  /\ IsScore(compose_row_score_recent(units, id))
           /\ IsScore(compose_proportional(claims, id))
           /\ IsScore(compose_flat(Positive(units), id))
           /\ IsScore(perminer_window_scores(units, id))
<1>1. Positive(units) \in SUBSET Miners
  BY DEF Positive
<1>2. \A hk \in Positive(units) : Sums(units, id)[id[hk]] \in Nat /\ Bests(units, id)[id[hk]] \in Nat
  BY <1>1, TotalsNat
<1>3. IsScore(compose_row_score_recent(units, id)) /\ IsScore(perminer_window_scores(units, id))
  <2>1. IsScore(Split(Sums(units, id), Positive(units), id))
    BY <1>1, <1>2, SplitScore
  <2>2. IsScore(Split(Bests(units, id), Positive(units), id))
    BY <1>1, <1>2, SplitScore
  <2> QED BY <2>1, <2>2 DEF compose_row_score_recent, perminer_window_scores
<1>4. IsScore(compose_proportional(claims, id))
  <2> DEFINE solved(i) == {ch \in Challenges : \E hk \in Miners : id[hk] = i /\ <<hk, ch>> \in claims}
             total == [i \in Range(id) |-> SumFunctionOnSet(tier_weights, solved(i))]
             hks == {c[1] : c \in claims}
  <2>1. hks \in SUBSET Miners
    OBVIOUS
  <2>2. \A hk \in hks : total[id[hk]] \in Nat
    <3>1. \A hk \in Miners : id[hk] \in Range(id)
      BY DEF Range
    <3>2. \A i : SumFunctionOnSet(tier_weights, solved(i)) \in Nat
      BY WeightsNat
    <3> HIDE DEF solved, hks
    <3> QED BY <2>1, <3>1, <3>2
  <2>3. compose_proportional(claims, id) = Split(total, hks, id)
    BY DEF compose_proportional
  <2> HIDE DEF total, hks
  <2> QED BY <2>1, <2>2, <2>3, SplitScore
<1>5. IsScore(compose_flat(Positive(units), id))
  <2> DEFINE total == [i \in Range(id) |-> 1]
  <2>1. \A hk \in Positive(units) : total[id[hk]] \in Nat
    BY <1>1 DEF Range
  <2>2. compose_flat(Positive(units), id) = Split(total, Positive(units), id)
    BY DEF compose_flat
  <2> HIDE DEF total
  <2> QED BY <1>1, <2>1, <2>2, SplitScore
<1> QED BY <1>3, <1>4, <1>5

LEMMA HighestOfRange ==
    ASSUME NEW v, IsScore(v) PROVE Highest(Range(v)) \in Nat
BY HighestOfScores DEF IsScore, Range

LEMMA PrimaryScore ==
    ASSUME NEW pm, IsScore(pm) PROVE IsScore(apply_perminer_primary(pm))
<1> DEFINE top == Highest(Range(pm))
           v == [hk \in DOMAIN pm |-> Nearest(Grain * pm[hk], top)]
<1>1. top \in Nat
  BY HighestOfRange
<1>2. apply_perminer_primary(pm) = IF top = 0 THEN NoScores ELSE v
  BY DEF apply_perminer_primary
<1> HIDE DEF top
<1>3. top # 0 => IsScore(v)
  <2> SUFFICES ASSUME top # 0 PROVE IsScore(v)
    OBVIOUS
  <2>1. \A hk \in DOMAIN pm : Grain * pm[hk] \in Nat
    BY BlendConstants DEF IsScore
  <2>2. \A hk \in DOMAIN pm : Nearest(Grain * pm[hk], top) \in Nat
    BY <1>1, <2>1, NearestFacts
  <2> QED BY <2>2 DEF IsScore
<1> HIDE DEF v
<1> QED BY <1>2, <1>3, NoScoresScore

LEMMA BonusScore ==
    ASSUME NEW base, NEW pm, IsScore(base), IsScore(pm), NEW mapped
    PROVE  IsScore(apply_perminer_bonus(base, pm, mapped))
<1> DEFINE id   == ident(mapped)
           all  == DOMAIN base \cup DOMAIN pm
           of(v, hk) == IF hk \in DOMAIN v THEN v[hk] ELSE 0
           best(v, hk) == Highest({of(v, h) : h \in {g \in all : id[g] = id[hk]}})
           top  == Highest(Range(base))
           members(hk) == Cardinality({h \in all : id[h] = id[hk]})
           bonus(hk) == IF top = 0 THEN Nearest(best(pm, hk), 5 * members(hk))
                        ELSE Nearest(best(pm, hk) * (top + 3 * best(base, hk)),
                                     20 * top * members(hk))
           sum  == [hk \in all |-> of(base, hk) + bonus(hk)]
           peak == Highest(Range(sum))
           v == [hk \in all |-> Nearest(Grain * sum[hk], peak)]
<1>1. all \in SUBSET Miners
  BY DEF IsScore
<1>2. top \in Nat
  BY HighestOfRange
<1>3. \A hk : of(base, hk) \in Nat /\ of(pm, hk) \in Nat
  BY DEF IsScore
<1>4. ASSUME NEW hk \in all PROVE best(base, hk) \in Nat /\ best(pm, hk) \in Nat
  <2> DEFINE S == {g \in all : id[g] = id[hk]}
  <2>1. S \in SUBSET Miners
    BY <1>1
  <2>2. PICK fb, fp : fb = [h \in S |-> of(base, h)] /\ fp = [h \in S |-> of(pm, h)]
    OBVIOUS
  <2> HIDE DEF S, of, id, all
  <2>3. \A h \in S : fb[h] \in Nat /\ fp[h] \in Nat /\ fb[h] = of(base, h) /\ fp[h] = of(pm, h)
    BY <1>3, <2>2
  <2>4. Highest({fb[h] : h \in S}) \in Nat /\ Highest({fp[h] : h \in S}) \in Nat
    BY <2>1, <2>3, HighestOfScores
  <2>5. {fb[h] : h \in S} = {of(base, h) : h \in S} /\ {fp[h] : h \in S} = {of(pm, h) : h \in S}
    BY <2>3
  <2> QED BY <2>4, <2>5 DEF S
<1>5. \A hk \in all : members(hk) \in Nat \ {0}
  BY <1>1, MembersCount
<1>6. \A hk \in all : bonus(hk) \in Nat
  <2> SUFFICES ASSUME NEW hk \in all PROVE bonus(hk) \in Nat
    OBVIOUS
  <2>1. best(base, hk) \in Nat /\ best(pm, hk) \in Nat /\ members(hk) \in Nat \ {0}
    BY <1>4, <1>5
  <2> HIDE DEF best, members, top
  <2>2. 5 * members(hk) \in Nat \ {0}
    BY <2>1
  <2>3. Nearest(best(pm, hk), 5 * members(hk)) \in Nat
    BY <2>1, <2>2, NearestFacts
  <2>4. ASSUME top # 0
        PROVE  Nearest(best(pm, hk) * (top + 3 * best(base, hk)), 20 * top * members(hk)) \in Nat
    <3>1. best(pm, hk) * (top + 3 * best(base, hk)) \in Nat
      BY <1>2, <2>1
    <3>2. 20 * top * members(hk) \in Nat \ {0}
      BY <1>2, <2>1, <2>4
    <3> QED BY <3>1, <3>2, NearestFacts
  <2> QED BY <2>3, <2>4
<1>7. IsScore(sum) /\ DOMAIN sum = all
  <2> HIDE DEF bonus, of, all
  <2> QED BY <1>1, <1>3, <1>6 DEF IsScore
<1>8. apply_perminer_bonus(base, pm, mapped) =
        CASE pm = NoScores -> base [] pm # NoScores /\ peak = 0 -> NoScores [] OTHER -> v
  BY DEF apply_perminer_bonus
<1> HIDE DEF sum
<1>9. peak \in Nat
  BY <1>7, HighestOfRange
<1> HIDE DEF peak
<1>10. peak # 0 => IsScore(v)
  <2> SUFFICES ASSUME peak # 0 PROVE IsScore(v)
    OBVIOUS
  <2> HIDE DEF all
  <2>1. \A hk \in all : Grain * sum[hk] \in Nat
    BY <1>7, BlendConstants DEF IsScore
  <2>2. \A hk \in all : Nearest(Grain * sum[hk], peak) \in Nat
    BY <1>9, <2>1, NearestFacts
  <2> QED BY <1>1, <2>2 DEF IsScore
<1> HIDE DEF v
<1>11. CASE pm = NoScores
  BY <1>8, <1>11
<1>12. CASE pm # NoScores /\ peak = 0
  BY <1>8, <1>12, NoScoresScore
<1>13. CASE pm # NoScores /\ peak # 0
  BY <1>8, <1>10, <1>13
<1> QED BY <1>11, <1>12, <1>13

LEMMA ComposeScore ==
    ASSUME NEW cf, NEW pm, NEW pmNow, NEW b, NEW absent,
           pm # absent => IsScore(pm), IsScore(pmNow),
           b.rows \in [Miners -> Nat], b.claims \in SUBSET (Miners \X Challenges)
    PROVE  IsScore(compose_scores(cf, pm, pmNow, b, absent))
<1> DEFINE id == ident(cf.collapse)
           core == CASE cf.mode = "row_score_recent" -> compose_row_score_recent(b.rows, id)
                     [] cf.mode = "proportional" /\ b.claims # {} -> compose_proportional(b.claims, id)
                     [] OTHER -> compose_flat(Positive(b.rows), id)
           bonus == apply_perminer_bonus(core, pmNow, DOMAIN ColdkeyOf # {})
<1>1. /\ IsScore(compose_row_score_recent(b.rows, id))
      /\ IsScore(compose_proportional(b.claims, id))
      /\ IsScore(compose_flat(Positive(b.rows), id))
  <2>1. DOMAIN id = Miners
    BY IdentDomain
  <2> HIDE DEF id
  <2> QED BY <2>1, CoreScores
<1>2. IsScore(core)
  <2> HIDE DEF id
  <2> QED BY <1>1
<1>3. compose_scores(cf, pm, pmNow, b, absent) =
        CASE pm # absent /\ cf.pm = "assigned_only" -> pm
          [] pm # absent /\ cf.pm = "pm_primary"    -> apply_perminer_primary(pm)
          [] OTHER -> bonus
  BY DEF compose_scores
<1> HIDE DEF core
<1>4. IsScore(bonus)
  BY <1>2, BonusScore
<1>5. pm # absent => IsScore(apply_perminer_primary(pm))
  BY PrimaryScore
<1> HIDE DEF bonus
<1> QED BY <1>3, <1>4, <1>5

LEMMA CollapseScore ==
    ASSUME NEW raw, IsScore(raw), NEW id, DOMAIN id = Miners
    PROVE  IsScore(identity_collapse(raw, id))
<1> DEFINE units == [hk \in Miners |-> IF hk \in DOMAIN raw THEN raw[hk] ELSE 0]
<1>1. \A hk \in Miners : units[hk] \in Nat
  BY DEF IsScore
<1>2. identity_collapse(raw, id) = Split(Bests(units, id), Positive(raw), id)
  BY DEF identity_collapse
<1> HIDE DEF units
<1>3. Positive(raw) \in SUBSET Miners
  BY DEF Positive, IsScore
<1>4. \A hk \in Positive(raw) : Bests(units, id)[id[hk]] \in Nat
  BY <1>1, <1>3, TotalsNat
<1> QED BY <1>2, <1>3, <1>4, SplitScore

----------------------------------------------------------------------------
(* Weights: what each side of the vector pays each hotkey                   *)

Pays == [base : Nat, external : Nat]
IsWeights(w) == DOMAIN w \subseteq Miners /\ w \in [DOMAIN w -> Pays]

LEMMA PartsScore ==
    ASSUME NEW w, IsWeights(w)
    PROVE  /\ IsScore([hk \in DOMAIN w |-> w[hk].base]) /\ IsScore([hk \in DOMAIN w |-> w[hk].external])
           /\ BaseMass(w) \in Nat /\ ExternalMass(w) \in Nat
<1>1. IsScore([hk \in DOMAIN w |-> w[hk].base]) /\ IsScore([hk \in DOMAIN w |-> w[hk].external])
  BY DEF IsWeights, IsScore, Pays
<1> QED BY <1>1, MassNat DEF BaseMass, ExternalMass

LEMMA NoWeights == IsWeights(NoScores)
BY DEF IsWeights, NoScores, Pays

LEMMA KeepWeights ==
    ASSUME NEW w, IsWeights(w), NEW hks
    PROVE  /\ IsWeights(Keep(w, hks))
           /\ BaseMass(w) = 0 => BaseMass(Keep(w, hks)) = 0
           /\ ExternalMass(w) = 0 => ExternalMass(Keep(w, hks)) = 0
<1> DEFINE D == DOMAIN w
           S == D \cap hks
           u == [hk \in S |-> w[hk]]
           bw == [hk \in D |-> w[hk].base]
           ew == [hk \in D |-> w[hk].external]
           bu == [hk \in S |-> w[hk].base]
           eu == [hk \in S |-> w[hk].external]
<1>1. Keep(w, hks) = u
  BY KeepFacts
<1>2. D \in SUBSET Miners /\ S \in SUBSET D /\ \A hk \in D : w[hk] \in Pays
  BY DEF IsWeights
<1>3. IsWeights(u)
  <2> HIDE DEF S, D
  <2> QED BY <1>2 DEF IsWeights
<1>4. BaseMass(w) = SumFunctionOnSet(bw, D) /\ ExternalMass(w) = SumFunctionOnSet(ew, D)
  BY DEF BaseMass, ExternalMass, Mass
<1>5. BaseMass(u) = SumFunctionOnSet(bu, S) /\ ExternalMass(u) = SumFunctionOnSet(eu, S)
  <2>1. DOMAIN u = S /\ \A hk \in S : u[hk] = w[hk]
    OBVIOUS
  <2>2. [hk \in DOMAIN u |-> u[hk].base] = bu /\ [hk \in DOMAIN u |-> u[hk].external] = eu
    BY <2>1
  <2>3. DOMAIN bu = S /\ DOMAIN eu = S
    OBVIOUS
  <2> HIDE DEF u, bu, eu, S
  <2> QED BY <2>2, <2>3 DEF BaseMass, ExternalMass, Mass
<1>6. \A hk \in D : bw[hk] \in Nat /\ ew[hk] \in Nat
  BY <1>2 DEF Pays
<1>7. \A hk \in S : bu[hk] = bw[hk] /\ eu[hk] = ew[hk]
  BY <1>2
<1> HIDE DEF u, bw, ew, bu, eu, S, D
<1>8. IsFiniteSet(D) /\ IsFiniteSet(S)
  BY <1>2, FiniteMiners
<1>9. /\ SumFunctionOnSet(bw, S) <= SumFunctionOnSet(bw, D)
      /\ SumFunctionOnSet(ew, S) <= SumFunctionOnSet(ew, D)
  BY <1>2, <1>6, <1>8, SumFacts
<1>10. \A hk \in S : bw[hk] \in Nat /\ ew[hk] \in Nat
  BY <1>2, <1>6
<1>11. /\ SumFunctionOnSet(bu, S) = SumFunctionOnSet(bw, S)
       /\ SumFunctionOnSet(eu, S) = SumFunctionOnSet(ew, S)
       /\ SumFunctionOnSet(bw, S) \in Nat /\ SumFunctionOnSet(ew, S) \in Nat
  BY <1>7, <1>8, <1>10, SumFacts
<1> QED BY <1>1, <1>3, <1>4, <1>5, <1>9, <1>11

LEMMA NothingExternal ==
    ASSUME NEW v, IsScore(v)
    PROVE  /\ IsWeights(BaseOnly(v)) /\ IsWeights(ExternalOnly(v))
           /\ BaseMass(ExternalOnly(v)) = 0
<1>1. IsWeights(BaseOnly(v)) /\ IsWeights(ExternalOnly(v))
  BY DEF IsWeights, IsScore, BaseOnly, ExternalOnly, Pays
<1>2. BaseMass(ExternalOnly(v)) = SumFunctionOnSet([hk \in DOMAIN v |-> 0], DOMAIN v)
  BY DEF BaseMass, ExternalOnly, Mass
<1>3. IsFiniteSet(DOMAIN v)
  BY FiniteMiners DEF IsScore
<1>4. SumFunctionOnSet([hk \in DOMAIN v |-> 0], DOMAIN v) = 0
  BY <1>3, SumFacts
<1> QED BY <1>1, <1>2, <1>4

LEMMA BlendedWeights ==
    ASSUME NEW v, NEW e, IsScore(v), IsScore(e) PROVE IsWeights(Blended(v, e))
<1> DEFINE part(s, hk) == IF hk \in DOMAIN s THEN s[hk] ELSE 0
           all == Positive(v) \cup Positive(e)
<1>1. Mass(v) \in Nat /\ Mass(e) \in Nat
  BY MassNat
<1>2. \A hk : part(v, hk) \in Nat /\ part(e, hk) \in Nat
  BY DEF IsScore
<1>3. all \subseteq Miners
  BY DEF Positive, IsScore
<1>4. Blended(v, e) = [hk \in all |-> [base |-> part(v, hk) * Mass(e) * (ShareDen - ShareNum),
                                       external |-> part(e, hk) * Mass(v) * ShareNum]]
  BY DEF Blended
<1> HIDE DEF part, all
<1>5. ShareDen - ShareNum \in Nat /\ ShareNum \in Nat
  BY BlendConstants
<1>6. \A hk : /\ part(v, hk) * Mass(e) * (ShareDen - ShareNum) \in Nat
              /\ part(e, hk) * Mass(v) * ShareNum \in Nat
  <2> SUFFICES ASSUME NEW hk
               PROVE  /\ part(v, hk) * Mass(e) * (ShareDen - ShareNum) \in Nat
                      /\ part(e, hk) * Mass(v) * ShareNum \in Nat
    OBVIOUS
  <2>1. \A i \in Nat, j \in Nat, k \in Nat : i * j * k \in Nat
    OBVIOUS
  <2> QED BY <1>1, <1>2, <1>5, <2>1
<1> QED BY <1>3, <1>4, <1>6 DEF IsWeights, Pays

----------------------------------------------------------------------------
(* Mirrors                                                                  *)

LEMMA Evenly ==
    ASSUME NEW n \in Nat, NEW d \in Nat \ {0}, NEW m \in Nat \ {0}, NEW k \in Nat, m <= k
    PROVE  m * Nearest(n, d * m) \in (1 * Nearest(n, d * 1) - k)..(1 * Nearest(n, d * 1) + k)
<1> DEFINE a == Nearest(n, d * m)
           b == Nearest(n, d * 1)
           p == d * (m * a)
           r == d * b
<1>1. d * m \in Nat \ {0} /\ d * 1 = d
  OBVIOUS
<1>2. a \in Nat /\ 2 * ((d * m) * a) <= 2 * n + d * m /\ 2 * n < 2 * ((d * m) * a) + d * m
  BY <1>1, NearestFacts
<1>3. b \in Nat /\ 2 * (d * b) <= 2 * n + d /\ 2 * n < 2 * (d * b) + d
  BY <1>1, NearestFacts
<1> HIDE DEF a, b
<1>4. (d * m) * a = p
  BY <1>2
<1>5. d * m >= d /\ m * a \in Nat
  BY <1>2
<1>6. p \in Nat /\ r \in Nat /\ d * m \in Nat
  BY <1>2, <1>3
<1>7. p - r <= d * m /\ r - p <= d * m
  <2> DEFINE x == d * m
             y == (d * m) * a
  <2>1. 2 * y <= 2 * n + x /\ 2 * n < 2 * y + x /\ y = p
    BY <1>2, <1>4
  <2>2. 2 * r <= 2 * n + d /\ 2 * n < 2 * r + d
    BY <1>3
  <2>3. x \in Nat /\ d <= x /\ p \in Nat /\ r \in Nat
    BY <1>5, <1>6
  <2> HIDE DEF p, r, x, y
  <2>4. p - r <= x /\ r - p <= x
    BY <2>1, <2>2, <2>3
  <2> QED BY <2>4 DEF x
<1>8. p - r = d * (m * a - b) /\ r - p = d * (b - m * a)
  BY <1>2, <1>3, <1>5
<1>9. \A i \in Int : d * i <= d * m => i <= m
  OBVIOUS
<1>10. m * a - b <= m /\ b - m * a <= m
  BY <1>3, <1>5, <1>7, <1>8, <1>9
<1> QED BY <1>3, <1>5, <1>10 DEF a, b

TopOf(total, hks, id) == Highest({total[id[hk]] : hk \in hks})
Among(hks, id, i) == {h \in hks : id[h] = i}
PaidTo(scores, id, i) == Mass(Keep(scores, {hk \in Miners : id[hk] = i}))

LEMMA SplitMass ==
    ASSUME NEW total, NEW hks \in SUBSET Miners, NEW id, \A hk \in hks : total[id[hk]] \in Nat,
           NEW i
    PROVE  LET top == TopOf(total, hks, id)
               m == Cardinality(Among(hks, id, i))
           IN  /\ top \in Nat
               /\ PaidTo(Split(total, hks, id), id, i) =
                    IF top = 0 \/ Among(hks, id, i) = {} THEN 0
                    ELSE m * Nearest(Grain * total[i], top * m)
<1> DEFINE top == TopOf(total, hks, id)
           M == Among(hks, id, i)
           members(hk) == Cardinality({h \in hks : id[h] = id[hk]})
           v == [hk \in hks |-> Nearest(Grain * total[id[hk]], top * members(hk))]
           mine == {hk \in Miners : id[hk] = i}
           c == Nearest(Grain * total[i], top * Cardinality(M))
<1>1. top \in Nat
  <2>1. PICK f : f = [hk \in hks |-> total[id[hk]]]
    OBVIOUS
  <2>2. {f[hk] : hk \in hks} = {total[id[hk]] : hk \in hks} /\ \A hk \in hks : f[hk] \in Nat
    BY <2>1
  <2> QED BY <2>2, HighestOfScores, ZenonT(30) DEF TopOf
<1>2. Split(total, hks, id) = IF top = 0 THEN NoScores ELSE v
  BY DEF Split, TopOf
<1>3. M \in SUBSET Miners /\ M = hks \cap mine /\ \A h : h \in M <=> h \in hks /\ id[h] = i
  BY DEF Among
<1>0. PaidTo(Split(total, hks, id), id, i) = Mass(Keep(Split(total, hks, id), mine))
  BY DEF PaidTo
<1> SUFFICES Mass(Keep(Split(total, hks, id), mine)) =
               IF top = 0 \/ M = {} THEN 0
               ELSE Cardinality(M) * Nearest(Grain * total[i], top * Cardinality(M))
  BY <1>0, <1>1
<1> HIDE DEF top, M
<1>4. IsFiniteSet(M)
  BY <1>3, FiniteMiners
<1>5. CASE top = 0
  <2>1. Keep(NoScores, mine) = [hk \in DOMAIN NoScores \cap mine |-> NoScores[hk]]
    BY KeepFacts
  <2>2. DOMAIN NoScores = {}
    BY DEF NoScores
  <2>3. DOMAIN Keep(NoScores, mine) = {}
    BY <2>1, <2>2
  <2> HIDE DEF mine
  <2>4. SumFunctionOnSet(Keep(NoScores, mine), {}) = 0
    BY SumFacts, FS_EmptySet
  <2>5. Mass(Keep(NoScores, mine)) = 0
    BY <2>3, <2>4 DEF Mass
  <2> QED BY <1>2, <1>5, <2>5
<1>6. CASE top # 0
  <2> DEFINE u == Keep(v, mine)
  <2>1. DOMAIN u = M
    <3>1. DOMAIN v = hks
      OBVIOUS
    <3> HIDE DEF v, mine
    <3> QED BY <1>3, <3>1, KeepFacts
  <2>2. \A hk \in M : u[hk] = c
    <3> SUFFICES ASSUME NEW hk \in M PROVE u[hk] = c
      OBVIOUS
    <3>1. hk \in hks /\ id[hk] = i
      BY <1>3
    <3>2. {h \in hks : id[h] = id[hk]} = M
      BY <1>3, <3>1
    <3>3. v[hk] = c
      BY <3>1, <3>2
    <3>4. hk \in DOMAIN v \cap mine
      BY <3>1
    <3> HIDE DEF v, mine, c
    <3>5. Keep(v, mine) = [h \in DOMAIN v \cap mine |-> v[h]]
      BY KeepFacts
    <3>6. Keep(v, mine)[hk] = v[hk]
      BY <3>4, <3>5
    <3> QED BY <3>3, <3>6
  <2> HIDE DEF u, v, mine
  <2>3. CASE M = {}
    <3>1. SumFunctionOnSet(u, {}) = 0
      BY SumFacts, FS_EmptySet
    <3>2. Mass(u) = 0
      BY <2>1, <2>3, <3>1 DEF Mass
    <3> HIDE DEF c
    <3> QED BY <1>2, <1>6, <2>3, <3>2 DEF u
  <2>4. CASE M # {}
    <3>1. PICK hk \in M : TRUE
      BY <2>4
    <3>2. hk \in hks /\ id[hk] = i
      BY <1>3, <3>1
    <3>3. Cardinality(M) \in Nat \ {0}
      BY <1>4, <2>4, FS_EmptySet, FS_CardinalityType
    <3>4. Grain * total[i] \in Nat /\ top * Cardinality(M) \in Nat \ {0}
      BY <1>1, <1>6, <3>2, <3>3, BlendConstants
    <3>5. c \in Nat
      BY <3>4, NearestFacts
    <3> HIDE DEF c
    <3>6. SumFunctionOnSet(u, M) = Cardinality(M) * c
      BY <1>4, <2>2, <3>5, SumFacts
    <3>7. Mass(u) = Cardinality(M) * c
      BY <2>1, <3>6 DEF Mass
    <3> QED BY <1>2, <1>6, <2>4, <3>7 DEF u, c
  <2> QED BY <2>3, <2>4
<1> QED BY <1>5, <1>6

\* Two sets of claims in which every identity has solved the same challenges
\* pay each identity the same, up to a rounding per hotkey.
SolvedBy(claims, id, i) == {ch \in Challenges : \E hk \in Miners : id[hk] = i /\ <<hk, ch>> \in claims}
TotalOf(claims, id) == [i \in Range(id) |-> SumFunctionOnSet(tier_weights, SolvedBy(claims, id, i))]

LEMMA ProportionalSplit ==
    \A claims, id : compose_proportional(claims, id) = Split(TotalOf(claims, id), {c[1] : c \in claims}, id)
BY DEF compose_proportional, TotalOf, SolvedBy

ClaimantsOf(claims) == {c[1] : c \in claims}

LEMMA Claimants ==
    ASSUME NEW claims \in SUBSET (Miners \X Challenges), NEW id
    PROVE  /\ ClaimantsOf(claims) \in SUBSET Miners
           /\ \A j : Among(ClaimantsOf(claims), id, j) = {} <=> SolvedBy(claims, id, j) = {}
<1>1. \A hk : hk \in ClaimantsOf(claims) <=> \E ch \in Challenges : hk \in Miners /\ <<hk, ch>> \in claims
  <2>1. ASSUME NEW c \in claims PROVE c[1] \in Miners /\ c[2] \in Challenges /\ <<c[1], c[2]>> \in claims
    OBVIOUS
  <2>2. ASSUME NEW hk, NEW ch, <<hk, ch>> \in claims PROVE \E c \in claims : hk = c[1]
    <3>1. <<hk, ch>>[1] = hk
      OBVIOUS
    <3> QED BY <2>2, <3>1
  <2> QED BY <2>1, <2>2 DEF ClaimantsOf
<1>2. ASSUME NEW j
      PROVE  Among(ClaimantsOf(claims), id, j) = {} <=> SolvedBy(claims, id, j) = {}
  BY <1>1 DEF Among, SolvedBy
<1> QED BY <1>1, <1>2

LEMMA SameWork ==
    ASSUME NEW id, DOMAIN id = Miners, NEW i \in Range(id),
           NEW a \in SUBSET (Miners \X Challenges), NEW b \in SUBSET (Miners \X Challenges),
           \A j \in Range(id) : SolvedBy(a, id, j) = SolvedBy(b, id, j),
           Cardinality(Among(ClaimantsOf(b), id, i)) <= 1,
           NEW pa, pa = PaidTo(compose_proportional(a, id), id, i),
           NEW pb, pb = PaidTo(compose_proportional(b, id), id, i),
           NEW K, K = Cardinality(Miners)
    PROVE  pa \in (pb - K)..(pb + K)
<1> DEFINE ha == ClaimantsOf(a)
           hb == ClaimantsOf(b)
           Ma == Among(ha, id, i)
           Mb == Among(hb, id, i)
           total == TotalOf(a, id)
           top == TopOf(total, ha, id)
<1>1. ha \in SUBSET Miners /\ hb \in SUBSET Miners
  BY Claimants
<1>2. TotalOf(b, id) = total
  BY DEF TotalOf
<1>3. \A hk \in Miners : id[hk] \in Range(id) /\ total[id[hk]] \in Nat
  <2>1. \A hk \in Miners : id[hk] \in Range(id)
    BY DEF Range
  <2>2. \A j : SumFunctionOnSet(tier_weights, SolvedBy(a, id, j)) \in Nat
    BY WeightsNat DEF SolvedBy
  <2> QED BY <2>1, <2>2 DEF TotalOf
<1>4. \A j \in Range(id) : Among(ha, id, j) = {} <=> Among(hb, id, j) = {}
  BY Claimants
<1>5. TopOf(total, hb, id) = top
  <2>1. {total[id[hk]] : hk \in ha} = {total[id[hk]] : hk \in hb}
    <3>1. \A h \in ha : \E g \in hb : id[g] = id[h]
      <4> SUFFICES ASSUME NEW h \in ha PROVE \E g \in hb : id[g] = id[h]
        OBVIOUS
      <4>1. h \in Among(ha, id, id[h]) /\ id[h] \in Range(id)
        BY <1>1, <1>3 DEF Among
      <4> QED BY <1>4, <4>1 DEF Among
    <3>2. \A h \in hb : \E g \in ha : id[g] = id[h]
      <4> SUFFICES ASSUME NEW h \in hb PROVE \E g \in ha : id[g] = id[h]
        OBVIOUS
      <4>1. h \in Among(hb, id, id[h]) /\ id[h] \in Range(id)
        BY <1>1, <1>3 DEF Among
      <4> QED BY <1>4, <4>1 DEF Among
    <3> HIDE DEF ha, hb, total
    <3> QED BY <3>1, <3>2
  <2> HIDE DEF ha, hb, total
  <2> QED BY <2>1 DEF TopOf
<1>6. /\ pa = PaidTo(Split(total, ha, id), id, i)
      /\ pb = PaidTo(Split(total, hb, id), id, i)
  BY ProportionalSplit, <1>2 DEF ClaimantsOf
<1> HIDE DEF total, ha, hb
<1>7. /\ top \in Nat
      /\ pa = IF top = 0 \/ Ma = {} THEN 0
              ELSE Cardinality(Ma) * Nearest(Grain * total[i], top * Cardinality(Ma))
  BY <1>1, <1>3, <1>6, SplitMass
<1>8. pb = IF top = 0 \/ Mb = {} THEN 0
           ELSE Cardinality(Mb) * Nearest(Grain * total[i], top * Cardinality(Mb))
  BY <1>1, <1>3, <1>5, <1>6, SplitMass
<1>9. Ma = {} <=> Mb = {}
  BY <1>4 DEF ha, hb
<1>10. Cardinality(Mb) <= 1
  BY DEF hb
<1>11. Ma \in SUBSET Miners /\ Mb \in SUBSET Miners
  BY <1>1 DEF Among
<1>12. K \in Nat
  BY FiniteMiners
<1> HIDE DEF Ma, Mb, top
<1>13. IsFiniteSet(Ma) /\ IsFiniteSet(Mb) /\ Cardinality(Ma) <= K
  BY <1>11, FiniteMiners, FS_Subset, BlendConstants
<1>14. CASE top = 0 \/ Ma = {}
  <2>1. pa = 0 /\ pb = 0
    BY <1>7, <1>8, <1>9, <1>14
  <2> QED BY <1>12, <2>1
<1>15. CASE top # 0 /\ Ma # {}
  <2>1. Cardinality(Ma) \in Nat \ {0} /\ Cardinality(Mb) \in Nat \ {0}
    BY <1>9, <1>13, <1>15, FS_EmptySet, FS_CardinalityType
  <2>2. Cardinality(Mb) = 1
    BY <1>10, <2>1
  <2>3. Grain * total[i] \in Nat
    <3>1. PICK h \in Miners : id[h] = i
      BY DEF Range
    <3>2. total[i] \in Nat
      BY <1>3, <3>1
    <3> QED BY <3>2, BlendConstants
  <2>4. pa = Cardinality(Ma) * Nearest(Grain * total[i], top * Cardinality(Ma))
    BY <1>7, <1>15
  <2>5. pb = 1 * Nearest(Grain * total[i], top * 1)
    BY <1>8, <1>9, <1>15, <2>2
  <2>6. top \in Nat \ {0}
    BY <1>7, <1>15
  <2> DEFINE n == Grain * total[i]
             m == Cardinality(Ma)
  <2>7. n \in Nat /\ m \in Nat \ {0} /\ m <= K
    BY <1>13, <2>1, <2>3
  <2>8. pa = m * Nearest(n, top * m) /\ pb = 1 * Nearest(n, top * 1)
    BY <2>4, <2>5
  <2> HIDE DEF n, m
  <2>9. m * Nearest(n, top * m) \in (1 * Nearest(n, top * 1) - K)..(1 * Nearest(n, top * 1) + K)
    BY <1>12, <2>6, <2>7, Evenly
  <2> QED BY <2>8, <2>9
<1> QED BY <1>14, <1>15

LEMMA Mirrors ==
    ASSUME board.claims \in SUBSET (Miners \X Challenges) PROVE MirroringEarnsNothing
<1> DEFINE id == ident(TRUE)
           rep(i) == CHOOSE hk \in Miners : id[hk] = i
           once == {<<rep(id[c[1]]), c[2]>> : c \in board.claims}
           of(i, claims) == Mass(Keep(compose_proportional(claims, id), {hk \in Miners : id[hk] = i}))
<1>1. DOMAIN id = Miners
  BY IdentDomain
<1> HIDE DEF id
<1>2. \A hk \in Miners : rep(id[hk]) \in Miners /\ id[rep(id[hk])] = id[hk]
  OBVIOUS
<1> HIDE DEF rep
<1>3. once \in SUBSET (Miners \X Challenges)
  BY <1>2
<1>4. ASSUME NEW j PROVE SolvedBy(board.claims, id, j) = SolvedBy(once, id, j)
  <2>1. ASSUME NEW ch \in Challenges, NEW hk \in Miners, id[hk] = j, <<hk, ch>> \in board.claims
        PROVE  \E h \in Miners : id[h] = j /\ <<h, ch>> \in once
    <3>1. <<rep(id[hk]), ch>> \in once
      BY <2>1
    <3> QED BY <1>2, <2>1, <3>1
  <2>2. ASSUME NEW ch \in Challenges, NEW hk \in Miners, id[hk] = j, <<hk, ch>> \in once
        PROVE  \E h \in Miners : id[h] = j /\ <<h, ch>> \in board.claims
    <3>1. PICK c \in board.claims : <<hk, ch>> = <<rep(id[c[1]]), c[2]>>
      BY <2>2
    <3>2. c = <<c[1], c[2]>> /\ c[1] \in Miners
      OBVIOUS
    <3>3. id[c[1]] = j /\ <<c[1], ch>> \in board.claims
      BY <1>2, <2>2, <3>1, <3>2
    <3> QED BY <3>2, <3>3
  <2> HIDE DEF once
  <2> QED BY <2>1, <2>2 DEF SolvedBy
<1>5. ASSUME NEW j PROVE Cardinality(Among(ClaimantsOf(once), id, j)) <= 1
  <2>1. \A h \in ClaimantsOf(once) : h = rep(id[h])
    <3> SUFFICES ASSUME NEW c \in board.claims PROVE rep(id[c[1]]) = rep(id[rep(id[c[1]])])
      BY DEF ClaimantsOf
    <3> QED BY <1>2
  <2> DEFINE M == Among(ClaimantsOf(once), id, j)
  <2>2. M \subseteq {rep(j)}
    BY <2>1 DEF Among
  <2> HIDE DEF M
  <2>3. Cardinality({rep(j)}) = 1 /\ IsFiniteSet({rep(j)})
    BY FS_Singleton
  <2>4. Cardinality(M) <= 1
    BY <2>2, <2>3, FS_Subset
  <2> QED BY <2>4 DEF M
<1> HIDE DEF once
<1>6. \A i \in Range(id) :
        of(i, board.claims) \in (of(i, once) - Cardinality(Miners))..(of(i, once) + Cardinality(Miners))
  <2> SUFFICES ASSUME NEW i \in Range(id)
               PROVE  of(i, board.claims) \in (of(i, once) - Cardinality(Miners))..(of(i, once) + Cardinality(Miners))
    OBVIOUS
  <2>1. \A claims : of(i, claims) = PaidTo(compose_proportional(claims, id), id, i)
    BY DEF PaidTo
  <2> HIDE DEF of
  <2> QED BY <1>1, <1>3, <1>4, <1>5, <2>1, SameWork
<1> QED BY <1>6 DEF MirroringEarnsNothing, id, rep, once

\* The inductive invariant of a build.
BoardFits ==
    /\ board = [claims |-> board.claims, assigned |-> board.assigned, rows |-> board.rows]
    /\ board.claims \in SUBSET (Miners \X Challenges)
    /\ board.assigned \in [Miners -> Nat] /\ board.rows \in [Miners -> Nat]
ReportsFit == reports \in SUBSET Report /\ IsFiniteSet(reports)
BuildFits ==
    /\ build = [pc |-> build.pc, base |-> build.base, ext |-> build.ext, weights |-> build.weights]
    /\ IsScore(build.base) /\ IsScore(build.ext) /\ IsWeights(build.weights)
FinalShare == (BuildAt("final") /\ Primary) => BaseMass(build.weights) = 0
ScoreIInv ==
    /\ feedConf \in FeedConfig /\ feedTime \in 0..MaxFeedTime
    /\ BoardFits /\ ReportsFit /\ BuildFits
    /\ FinalShare /\ ConfidentialShare

LEMMA PayloadFacts ==
    \A r \in Report : /\ r.payload \in Payloads /\ r.payload \in Payload /\ r.payload.epoch \in Nat
                      /\ IsScore(r.payload.scores)
<1> SUFFICES ASSUME NEW r \in Report
             PROVE  /\ r.payload \in Payloads /\ r.payload \in Payload /\ r.payload.epoch \in Nat
                    /\ IsScore(r.payload.scores)
  OBVIOUS
<1>1. r.payload \in Payloads /\ r.payload \in Payload
  BY ScoreConstants DEF Report
<1>2. r.payload.epoch \in Nat /\ r.payload.scores \in UNION {[S -> 0..Grain] : S \in SUBSET Miners}
  BY <1>1 DEF Payload
<1>3. PICK S \in SUBSET Miners : r.payload.scores \in [S -> 0..Grain]
  BY <1>2
<1>4. IsScore(r.payload.scores)
  <2>1. 0..Grain \subseteq Nat
    BY BlendConstants
  <2> QED BY <1>3, <2>1 DEF IsScore
<1> QED BY <1>1, <1>2, <1>4

LEMMA LatestReport ==
    ASSUME ReportsFit, NEW src, LatestOf(src) # NONE
    PROVE  LatestOf(src) \in Report
<1> DEFINE R == OfSource(src)
           E == {r.payload.epoch : r \in R}
<1>1. R \in SUBSET Report /\ R \in SUBSET reports /\ R # {}
  BY DEF ReportsFit, OfSource, LatestOf
<1>2. IsFiniteSet(R)
  BY <1>1, FS_Subset DEF ReportsFit
<1> HIDE DEF R
<1>3. E \in SUBSET Nat /\ E # {}
  BY <1>1, PayloadFacts
<1>4. IsFiniteSet(E)
  <2>1. PICK f : f = [r \in R |-> r.payload.epoch]
    OBVIOUS
  <2>2. E = {f[r] : r \in R}
    BY <2>1
  <2> HIDE DEF E
  <2> QED BY <1>2, <2>2, Image
<1> HIDE DEF E
<1>5. PICK e \in E : \A y \in E : y <= e
  BY <1>3, <1>4, GreatestOf
<1>6. PICK r \in R : r.payload.epoch = e
  BY <1>5 DEF E
<1>7. \A q \in R : q.payload.epoch <= r.payload.epoch
  BY <1>5, <1>6 DEF E
<1>8. LatestOf(src) \in R
  BY <1>1, <1>6, <1>7 DEF LatestOf, R
<1> QED BY <1>1, <1>8

LEMMA SnapshotScore ==
    ASSUME ReportsFit, NEW src, latest_snapshot_scores(src) # NONE
    PROVE  IsScore(latest_snapshot_scores(src))
<1> DEFINE r == LatestOf(src)
<1>1. /\ r # NONE
      /\ latest_snapshot_scores(src) = Keep(r.payload.scores, Positive(r.payload.scores))
  BY DEF latest_snapshot_scores
<1>2. IsScore(r.payload.scores)
  BY <1>1, LatestReport, PayloadFacts
<1> HIDE DEF r
<1> QED BY <1>1, <1>2, KeepScore

LEMMA PayableFacts ==
    /\ \A v : IsScore(v) => IsScore(payable_policy(v))
    /\ \A w : IsWeights(w) =>
          /\ IsWeights(payable_policy(w))
          /\ BaseMass(w) = 0 => BaseMass(payable_policy(w)) = 0
          /\ ExternalMass(w) = 0 => ExternalMass(payable_policy(w)) = 0
<1>1. ASSUME NEW v
      PROVE  payable_policy(v) = v \/ payable_policy(v) = Keep(v, fresh_metagraph)
  BY DEF payable_policy
<1>2. ASSUME NEW v, IsScore(v) PROVE IsScore(payable_policy(v))
  BY <1>1, <1>2, KeepScore
<1>3. ASSUME NEW w, IsWeights(w)
      PROVE  /\ IsWeights(payable_policy(w))
             /\ BaseMass(w) = 0 => BaseMass(payable_policy(w)) = 0
             /\ ExternalMass(w) = 0 => ExternalMass(payable_policy(w)) = 0
  <2>1. CASE payable_policy(w) = w
    BY <1>3, <2>1
  <2>2. CASE payable_policy(w) = Keep(w, fresh_metagraph)
    BY <1>3, <2>2, KeepWeights
  <2> QED BY <1>1, <2>1, <2>2
<1> QED BY <1>2, <1>3

LEMMA BaseScores ==
    ASSUME BoardFits PROVE IsScore(base_scores)
<1> DEFINE scores == perminer_window_scores(board.assigned, ident(DOMAIN ColdkeyOf # {}))
           off    == feedConf.pm \in {"off", "shadow"}
           pm     == IF off \/ (scores = NoScores /\ feedConf.pm = "bonus") THEN NONE ELSE scores
           again  == IF off THEN NoScores ELSE perminer_window_scores(board.assigned, ident(FALSE))
<1>1. IsScore(scores) /\ IsScore(again)
  <2>1. \A c : IsScore(perminer_window_scores(board.assigned, ident(c)))
    BY IdentDomain, CoreScores DEF BoardFits
  <2> QED BY <2>1, NoScoresScore
<1>2. base_scores = compose_scores(feedConf, pm, again, board, NONE)
  BY DEF base_scores
<1> HIDE DEF scores, again, off
<1>3. pm # NONE => IsScore(pm)
  BY <1>1
<1> HIDE DEF pm
<1> QED BY <1>1, <1>2, <1>3, ComposeScore DEF BoardFits

LEMMA ExternalScore ==
    ASSUME ReportsFit PROVE IsScore(external_snapshot)
<1> DEFINE raw     == latest_snapshot_scores(feedConf.source)
           got     == identity_collapse(raw, ident(feedConf.collapse))
<1>1. raw # NONE => IsScore(got)
  BY SnapshotScore, IdentDomain, CollapseScore
<1>2. external_snapshot = NoScores \/ (raw # NONE /\ external_snapshot = got)
  BY DEF external_snapshot
<1> HIDE DEF raw, got
<1> QED BY <1>1, <1>2, NoScoresScore

LEMMA Allocated ==
    ASSUME NEW v, NEW e, IsScore(v), IsScore(e)
    PROVE  /\ IsWeights(allocate(v, e))
           /\ Primary => BaseMass(allocate(v, e)) = 0
<1>1. /\ IsWeights(ExternalOnly(e)) /\ BaseMass(ExternalOnly(e)) = 0
      /\ IsWeights(BaseOnly(v)) /\ IsWeights(NoScores) /\ IsWeights(Blended(v, e))
  BY NothingExternal, NoWeights, BlendedWeights
<1>2. CASE Primary
  BY <1>1, <1>2 DEF allocate, Primary
<1>3. CASE ~Primary
  <2>1. allocate(v, e) \in {NoScores, BaseOnly(v), Blended(v, e)}
    BY <1>3 DEF allocate, Primary
  <2> QED BY <1>1, <1>3, <2>1
<1> QED BY <1>2, <1>3

----------------------------------------------------------------------------
(* Every step keeps the invariant                                           *)

LEMMA ScoreStart == ScoreInit => ScoreIInv
<1> SUFFICES ASSUME ScoreInit PROVE ScoreIInv
  OBVIOUS
<1>1. feedConf \in FeedConfig /\ feedTime \in 0..MaxFeedTime
  BY ScoreConstants DEF ScoreInit
<1>2. BoardFits
  <2>1. \A hk \in Miners : Cardinality({ch \in Challenges : <<hk, ch>> \in FirstClaims}) \in Nat
    BY BlendConstants, FS_Subset, FS_CardinalityType
  <2> QED BY <2>1, ScoreConstants DEF ScoreInit, BoardFits
<1>3. ReportsFit
  BY FS_EmptySet DEF ScoreInit, ReportsFit
<1>4. BuildFits
  BY NoScoresScore, NoWeights DEF ScoreInit, BuildFits, IdleBuild
<1>5. FinalShare /\ ConfidentialShare
  BY DEF ScoreInit, IdleBuild, FinalShare, ConfidentialShare, BuildAt
<1> QED BY <1>1, <1>2, <1>3, <1>4, <1>5 DEF ScoreIInv

\* What the steps of a build leave alone.
LEMMA BuildKeeps ==
    ASSUME ScoreIInv, UNCHANGED <<feedConf, feedTime, board, reports>>
    PROVE  /\ (feedConf \in FeedConfig)' /\ (feedTime \in 0..MaxFeedTime)'
           /\ BoardFits' /\ ReportsFit' /\ (Primary' <=> Primary)
BY DEF ScoreIInv, BoardFits, ReportsFit, Primary, external_scores_mode

\* A step to a build that is neither allocated nor signed.
LEMMA BuildOn ==
    ASSUME ScoreIInv, NEW b, BuildTo(b), b.pc \notin {"final", "signed"},
           b = [pc |-> b.pc, base |-> b.base, ext |-> b.ext, weights |-> b.weights],
           IsScore(b.base), IsScore(b.ext), IsWeights(b.weights)
    PROVE  ScoreIInv'
<1>1. UNCHANGED <<feedConf, feedTime, board, reports>> /\ build' = b
  BY DEF BuildTo, scoreData
<1>2. BuildFits'
  BY <1>1 DEF BuildFits
<1>3. FinalShare' /\ ConfidentialShare'
  BY <1>1 DEF FinalShare, ConfidentialShare, BuildAt
<1> QED BY <1>1, <1>2, <1>3, BuildKeeps DEF ScoreIInv

LEMMA IdleFits ==
    ASSUME NEW p
    PROVE  LET b == [IdleBuild EXCEPT !.pc = p]
           IN  /\ b = [pc |-> p, base |-> NoScores, ext |-> NoScores, weights |-> NoScores]
               /\ b.pc = p /\ IsScore(b.base) /\ IsScore(b.ext) /\ IsWeights(b.weights)
BY NoScoresScore, NoWeights DEF IdleBuild

LEMMA BaseEdited ==
    ASSUME NEW b, b = [pc |-> b.pc, base |-> b.base, ext |-> b.ext, weights |-> b.weights],
           NEW p, NEW x
    PROVE  [b EXCEPT !.pc = p, !.base = x] = [pc |-> p, base |-> x, ext |-> b.ext, weights |-> b.weights]
<1>1. PICK b1, b2, b3, b4 : b = [pc |-> b1, base |-> b2, ext |-> b3, weights |-> b4]
  OBVIOUS
<1> DEFINE c == [pc |-> p, base |-> b2, ext |-> b3, weights |-> b4]
<1>2. [b EXCEPT !.pc = p] = c
  BY <1>1
<1>3. [b EXCEPT !.pc = p, !.base = x] = [[b EXCEPT !.pc = p] EXCEPT !.base = x]
  OBVIOUS
<1>4. [c EXCEPT !.base = x] = [pc |-> p, base |-> x, ext |-> b3, weights |-> b4]
  OBVIOUS
<1> HIDE DEF c
<1> QED BY <1>1, <1>2, <1>3, <1>4

LEMMA ExtEdited ==
    ASSUME NEW b, b = [pc |-> b.pc, base |-> b.base, ext |-> b.ext, weights |-> b.weights],
           NEW p, NEW x
    PROVE  [b EXCEPT !.pc = p, !.ext = x] = [pc |-> p, base |-> b.base, ext |-> x, weights |-> b.weights]
<1>1. PICK b1, b2, b3, b4 : b = [pc |-> b1, base |-> b2, ext |-> b3, weights |-> b4]
  OBVIOUS
<1> DEFINE c == [pc |-> p, base |-> b2, ext |-> b3, weights |-> b4]
<1>2. [b EXCEPT !.pc = p] = c
  BY <1>1
<1>3. [b EXCEPT !.pc = p, !.ext = x] = [[b EXCEPT !.pc = p] EXCEPT !.ext = x]
  OBVIOUS
<1>4. [c EXCEPT !.ext = x] = [pc |-> p, base |-> b2, ext |-> x, weights |-> b4]
  OBVIOUS
<1> HIDE DEF c
<1> QED BY <1>1, <1>2, <1>3, <1>4

WithWeights(b, p, x) == [b EXCEPT !.pc = p, !.weights = x]
LEMMA WeightsEdited ==
    ASSUME NEW b, b = [pc |-> b.pc, base |-> b.base, ext |-> b.ext, weights |-> b.weights],
           NEW p, NEW x
    PROVE  WithWeights(b, p, x) = [pc |-> p, base |-> b.base, ext |-> b.ext, weights |-> x]
<1>1. PICK b1, b2, b3, b4 : b = [pc |-> b1, base |-> b2, ext |-> b3, weights |-> b4]
  OBVIOUS
<1> DEFINE c == [pc |-> p, base |-> b2, ext |-> b3, weights |-> b4]
<1>2. [b EXCEPT !.pc = p] = c
  BY <1>1
<1>3. WithWeights(b, p, x) = [[b EXCEPT !.pc = p] EXCEPT !.weights = x]
  BY DEF WithWeights
<1>4. [c EXCEPT !.weights = x] = [pc |-> p, base |-> b2, ext |-> b3, weights |-> x]
  OBVIOUS
<1> HIDE DEF c
<1> QED BY <1>1, <1>2, <1>3, <1>4

LEMMA BeginStep == ASSUME ScoreIInv, Begin PROVE ScoreIInv'
<1> DEFINE b == [IdleBuild EXCEPT !.pc = "compose"]
<1>1. BuildTo(b)
  BY DEF Begin
<1>2. /\ b = [pc |-> b.pc, base |-> b.base, ext |-> b.ext, weights |-> b.weights]
      /\ b.pc = "compose" /\ IsScore(b.base) /\ IsScore(b.ext) /\ IsWeights(b.weights)
  BY IdleFits
<1> HIDE DEF b
<1> QED BY <1>1, <1>2, BuildOn

LEMMA ComposeStep == ASSUME ScoreIInv, compose PROVE ScoreIInv'
<1> DEFINE base == IF Primary THEN NoScores ELSE base_scores
           b == IF ~supply_policy_ok THEN [IdleBuild EXCEPT !.pc = "raised"]
                ELSE [build EXCEPT !.pc = "registered", !.base = base, !.ext = external_snapshot]
<1>1. BuildTo(b)
  BY DEF compose
<1>2. IsScore(base) /\ IsScore(external_snapshot)
  BY NoScoresScore, BaseScores, ExternalScore DEF ScoreIInv
<1>3. /\ b = [pc |-> b.pc, base |-> b.base, ext |-> b.ext, weights |-> b.weights]
      /\ b.pc \in {"registered", "raised"} /\ IsScore(b.base) /\ IsScore(b.ext) /\ IsWeights(b.weights)
  <2>1. CASE ~supply_policy_ok
    BY <2>1, IdleFits
  <2>2. CASE supply_policy_ok
    <3>1. b = [pc |-> "registered", base |-> base, ext |-> external_snapshot, weights |-> build.weights]
      <4> HIDE DEF base
      <4> QED BY <2>2 DEF ScoreIInv, BuildFits
    <3> HIDE DEF b, base
    <3> QED BY <1>2, <3>1 DEF ScoreIInv, BuildFits
  <2> QED BY <2>1, <2>2
<1> HIDE DEF b
<1> QED BY <1>1, <1>3, BuildOn

LEMMA RegisteredStep == ASSUME ScoreIInv, registered_filter PROVE ScoreIInv'
<1>1. PICK ext : /\ ext = build.ext \/ ext = NoScores \/ ext = Keep(build.ext, fresh_metagraph)
                 /\ BuildTo([build EXCEPT !.pc = "payable_base", !.ext = ext])
  BY DEF registered_filter
<1> DEFINE b == [build EXCEPT !.pc = "payable_base", !.ext = ext]
<1>2. IsScore(ext)
  BY <1>1, NoScoresScore, KeepScore DEF ScoreIInv, BuildFits
<1>3. b = [pc |-> "payable_base", base |-> build.base, ext |-> ext, weights |-> build.weights]
  BY ExtEdited DEF ScoreIInv, BuildFits
<1>4. BuildTo(b)
  BY <1>1
<1> HIDE DEF b
<1>5. /\ b = [pc |-> b.pc, base |-> b.base, ext |-> b.ext, weights |-> b.weights]
      /\ b.pc = "payable_base" /\ IsScore(b.base) /\ IsScore(b.ext) /\ IsWeights(b.weights)
  BY <1>2, <1>3 DEF ScoreIInv, BuildFits
<1> QED BY <1>4, <1>5, BuildOn

LEMMA PayableBaseStep == ASSUME ScoreIInv, payable_base PROVE ScoreIInv'
<1>1. PICK base : /\ base = build.base \/ base = payable_policy(build.base)
                  /\ BuildTo([build EXCEPT !.pc = "payable_external", !.base = base])
  BY DEF payable_base, ScoreIInv, BuildFits
<1> DEFINE b == [build EXCEPT !.pc = "payable_external", !.base = base]
<1>2. IsScore(base)
  BY <1>1, PayableFacts DEF ScoreIInv, BuildFits
<1>3. b = [pc |-> "payable_external", base |-> base, ext |-> build.ext, weights |-> build.weights]
  BY BaseEdited DEF ScoreIInv, BuildFits
<1>4. BuildTo(b)
  BY <1>1
<1> HIDE DEF b
<1>5. /\ b = [pc |-> b.pc, base |-> b.base, ext |-> b.ext, weights |-> b.weights]
      /\ b.pc = "payable_external" /\ IsScore(b.base) /\ IsScore(b.ext) /\ IsWeights(b.weights)
  BY <1>2, <1>3 DEF ScoreIInv, BuildFits
<1> QED BY <1>4, <1>5, BuildOn

LEMMA PayableExternalStep == ASSUME ScoreIInv, payable_external PROVE ScoreIInv'
<1>1. PICK w : /\ w = allocate(build.base, payable_policy(build.ext))
               /\ BuildTo(WithWeights(build, "final", w))
  BY DEF payable_external, WithWeights
<1> DEFINE b == WithWeights(build, "final", w)
<1>2. IsWeights(w) /\ (Primary => BaseMass(w) = 0)
  BY <1>1, PayableFacts, Allocated DEF ScoreIInv, BuildFits
<1>3. b = [pc |-> "final", base |-> build.base, ext |-> build.ext, weights |-> w]
  BY WeightsEdited DEF ScoreIInv, BuildFits
<1>4. UNCHANGED <<feedConf, feedTime, board, reports>> /\ build' = b
  BY <1>1 DEF BuildTo, scoreData
<1> HIDE DEF b
<1>5. BuildFits'
  BY <1>2, <1>3, <1>4 DEF ScoreIInv, BuildFits
<1>6. Primary' <=> Primary
  BY <1>4, BuildKeeps
<1>7. FinalShare'
  BY <1>2, <1>3, <1>4, <1>6 DEF FinalShare
<1>8. ConfidentialShare'
  BY <1>3, <1>4 DEF ConfidentialShare, BuildAt
<1> QED BY <1>4, <1>5, <1>7, <1>8, BuildKeeps DEF ScoreIInv

LEMMA SignStep == ASSUME ScoreIInv, build_signed_vector PROVE ScoreIInv'
<1> DEFINE final  == payable_policy(build.weights)
           capped == ~Primary /\ feedConf.source = CapSource /\ ExternalMass(build.weights) > 0
           b == WithWeights(IdleBuild, "signed", final)
           r == [IdleBuild EXCEPT !.pc = "raised"]
<1>1. BuildAt("final") /\ (((capped => components_ok(final)) /\ BuildTo(b)) \/ BuildTo(r))
  BY DEF build_signed_vector, WithWeights
<1>2. CASE BuildTo(r)
  <2>1. /\ r = [pc |-> r.pc, base |-> r.base, ext |-> r.ext, weights |-> r.weights]
        /\ r.pc = "raised" /\ IsScore(r.base) /\ IsScore(r.ext) /\ IsWeights(r.weights)
    BY IdleFits
  <2> HIDE DEF r
  <2> QED BY <1>2, <2>1, BuildOn
<1>3. CASE (capped => components_ok(final)) /\ BuildTo(b)
  <2>1. b = [pc |-> "signed", base |-> NoScores, ext |-> NoScores, weights |-> final]
    <3> HIDE DEF final
    <3>1. /\ IdleBuild = [pc |-> "idle", base |-> NoScores, ext |-> NoScores, weights |-> NoScores]
          /\ IdleBuild.base = NoScores /\ IdleBuild.ext = NoScores
          /\ IdleBuild = [pc |-> IdleBuild.pc, base |-> IdleBuild.base, ext |-> IdleBuild.ext,
                          weights |-> IdleBuild.weights]
      BY DEF IdleBuild
    <3> QED BY <3>1, WeightsEdited
  <2>2. UNCHANGED <<feedConf, feedTime, board, reports>> /\ build' = b
    BY <1>3 DEF BuildTo, scoreData
  <2> HIDE DEF b
  <2>3. IsWeights(build.weights)
    BY DEF ScoreIInv, BuildFits
  <2>4. /\ IsWeights(final)
        /\ BaseMass(build.weights) = 0 => BaseMass(final) = 0
        /\ ExternalMass(build.weights) = 0 => ExternalMass(final) = 0
    BY <2>3, PayableFacts
  <2>5. /\ BaseMass(final) \in Nat /\ ExternalMass(final) \in Nat
        /\ ExternalMass(build.weights) \in Nat
    BY <2>3, <2>4, PartsScore
  <2> HIDE DEF final
  <2>6. BuildFits'
    BY <2>1, <2>2, <2>4, NoScoresScore DEF BuildFits
  <2>7. FinalShare'
    BY <2>1, <2>2 DEF FinalShare, BuildAt
  <2>8. (Primary' <=> Primary) /\ feedConf' = feedConf
    BY <2>2, BuildKeeps
  <2>9. Primary => BaseMass(final) = 0
    BY <1>1, <2>4 DEF ScoreIInv, FinalShare
  <2>10. ASSUME ~Primary, feedConf.source = CapSource, ExternalMass(final) > 0
         PROVE  ExternalMass(final) * ShareDen = (BaseMass(final) + ExternalMass(final)) * ShareNum
    <3>1. ExternalMass(build.weights) > 0
      BY <2>4, <2>5, <2>10
    <3>2. components_ok(final)
      BY <1>3, <2>10, <3>1
    <3>3. BaseMass(final) + ExternalMass(final) > 0
      BY <2>5, <2>10
    <3> QED BY <3>2, <3>3 DEF components_ok
  <2>11. build'.weights = final
    BY <2>1, <2>2
  <2>12. ConfidentialShare'
    BY <2>8, <2>9, <2>10, <2>11 DEF ConfidentialShare
  <2> QED BY <2>2, <2>6, <2>7, <2>12, BuildKeeps DEF ScoreIInv
<1> QED BY <1>1, <1>2, <1>3

LEMMA DataStep == ASSUME ScoreIInv, FeedData \/ FeedTick PROVE ScoreIInv'
<1>1. /\ UNCHANGED <<feedConf, build, board>>
      /\ (feedTime \in 0..MaxFeedTime)'
  BY ScoreConstants DEF ScoreIInv, FeedData, FeedTick, scoreData, Changes, Polled, external_scores_violet
<1>2. ReportsFit'
  <2>1. CASE reports' = reports
    BY <2>1 DEF ScoreIInv, ReportsFit
  <2>2. ASSUME NEW m \in Payloads, NEW at \in 0..feedTime, external_scores_violet(m, at)
        PROVE  ReportsFit'
    <3> DEFINE kept == {r \in reports : r.payload.id # m.id}
               new == [payload |-> m, at |-> at]
    <3>1. reports' = kept \cup {new}
      BY <2>2 DEF external_scores_violet
    <3>2. new \in Report
      <4>1. at \in 0..MaxFeedTime
        BY ScoreConstants DEF ScoreIInv
      <4> QED BY <4>1 DEF Report
    <3>3. kept \subseteq reports /\ reports \subseteq Report /\ IsFiniteSet(reports)
      BY DEF ScoreIInv, ReportsFit
    <3> HIDE DEF kept, new
    <3>4. IsFiniteSet(kept \cup {new})
      BY <3>3, FS_Subset, FS_AddElement
    <3> QED BY <3>1, <3>2, <3>3, <3>4 DEF ReportsFit
  <2>3. reports' = reports \/ \E m \in Payloads, at \in 0..feedTime : external_scores_violet(m, at)
    BY DEF FeedData, FeedTick, Polled, Changes, scoreData
  <2> QED BY <2>1, <2>2, <2>3
<1> QED BY <1>1, <1>2 DEF ScoreIInv, BoardFits, BuildFits, FinalShare, ConfidentialShare, BuildAt,
                          Primary, external_scores_mode

LEMMA WorkStep == ASSUME ScoreIInv, WorkNext PROVE ScoreIInv'
<1>1. UNCHANGED <<feedConf, build, reports, feedTime>>
  BY DEF WorkNext
<1>2. BoardFits'
  <2>1. ASSUME NEW hk \in Miners, Assigned(hk) PROVE BoardFits'
    BY <2>1 DEF ScoreIInv, BoardFits, Assigned
  <2>2. ASSUME NEW hk \in Miners, NEW ch \in Challenges, Solved(hk, ch) PROVE BoardFits'
    <3> DEFINE claims == board.claims \cup {<<hk, ch>>}
               fed == [board.rows EXCEPT ![hk] = @ + 1]
    <3>1. PICK b1, b2, b3 : board = [claims |-> b1, assigned |-> b2, rows |-> b3]
      BY DEF ScoreIInv, BoardFits
    <3>2. board' = [claims |-> claims, assigned |-> board.assigned, rows |-> fed]
      BY <2>2, <3>1 DEF Solved
    <3>3. claims \in SUBSET (Miners \X Challenges) /\ fed \in [Miners -> Nat]
      BY DEF ScoreIInv, BoardFits
    <3> HIDE DEF claims, fed
    <3> QED BY <3>2, <3>3 DEF ScoreIInv, BoardFits
  <2> QED BY <2>1, <2>2 DEF WorkNext
<1> QED BY <1>1, <1>2 DEF ScoreIInv, ReportsFit, BuildFits, FinalShare, ConfidentialShare, BuildAt,
                          Primary, external_scores_mode

LEMMA ScoreStep == ASSUME ScoreIInv, [ScoreNext \/ WorkNext]_scoreVars PROVE ScoreIInv'
<1>1. CASE UNCHANGED scoreVars
  BY <1>1 DEF scoreVars, ScoreIInv, BoardFits, ReportsFit, BuildFits, FinalShare, ConfidentialShare,
              BuildAt, Primary, external_scores_mode
<1> QED BY <1>1, BeginStep, ComposeStep, RegisteredStep, PayableBaseStep, PayableExternalStep,
           SignStep, DataStep, WorkStep DEF ScoreNext

LEMMA ScoreImplied == ScoreIInv => ScoreInv
BY Mirrors DEF ScoreIInv, ScoreInv, ScoreTypeOK, BoardFits, ReportsFit, BuildFits, IsWeights

\* The share of the confidential source is exact in every signed vector and
\* mirrored hotkeys earn nothing, on every board (weights.py).
THEOREM ScoreSafety == ScoreInit /\ [][ScoreNext \/ WorkNext]_scoreVars => []ScoreInv
<1>1. ScoreIInv /\ [ScoreNext \/ WorkNext]_scoreVars => ScoreIInv'
  BY ScoreStep
<1> QED BY ScoreStart, <1>1, ScoreImplied, PTL

----------------------------------------------------------------------------
(* The signed feed                                                          *)

FeedShapes ==
    /\ postgres \in BOOLEAN
    /\ dataVersion \in 0..MaxData /\ policyVersion \in 0..MaxVersion
    /\ persisted \in Vectors \cup {NONE} /\ winners \subseteq Vectors
    /\ vectorCache \in [Replicas -> Vectors \cup {NONE}]
    /\ attempt \in [Threads -> Attempts \cup {NONE}]
    /\ waiting \in [Replicas -> BOOLEAN]
    /\ buildLock \in Threads \cup {NONE}

\* What is persisted, cached or returned to an attempt was the persisted vector.
AllWon ==
    /\ persisted # NONE => persisted \in winners
    /\ \A p \in Replicas : vectorCache[p] # NONE => vectorCache[p] \in winners
    /\ \A t \in Threads : (attempt[t] # NONE /\ attempt[t].vector # NONE)
                             => attempt[t].vector \in winners

\* A build that has its data has a version once it comes to persist; with Postgres
\* it holds the lock, and its data is not older than the persisted vector's.
Building(t) == attempt[t] # NONE /\ attempt[t].pc \in {"compose", "version", "persist"}
BuildsFit ==
    /\ persisted # NONE => persisted.asOf <= dataVersion
    /\ \A t \in Threads : Building(t) =>
          /\ attempt[t].pc # "compose" => attempt[t].asOf <= dataVersion
          /\ attempt[t].pc = "persist" => attempt[t].version # 0
          /\ postgres => buildLock = t
          /\ (postgres /\ attempt[t].pc # "compose" /\ persisted # NONE)
                => attempt[t].asOf >= persisted.asOf

FeedIInv == FeedShapes /\ AllWon /\ BuildsFit

\* What a step may do to the persisted vector and to the caches.
FeedStep ==
    /\ (postgres /\ persisted # NONE /\ persisted' # persisted) => persisted'.asOf >= persisted.asOf
    /\ \A p \in Replicas :
          /\ vectorCache'[p] # NONE => vectorCache'[p] \in winners'
          /\ (vectorCache[p] # NONE /\ vectorCache'[p] # NONE)
                => vectorCache'[p].version >= vectorCache[p].version
FeedKept == FeedIInv' /\ FeedStep

LEMMA FeedStarts == FeedInit => FeedIInv
  BY FeedConstants, NoVectorIsNone
  DEF FeedInit, FeedIInv, FeedShapes, AllWon, BuildsFit, Building


\* An attempt that only changes its own record, without touching what is served.
LEMMA AttemptMoves ==
  ASSUME FeedIInv, NEW t \in Threads, NEW a \in Attempts \cup {NONE}, Moved(t, a),
         UNCHANGED <<postgres, dataVersion, persisted, winners, vectorCache>>,
         policyVersion' \in 0..MaxVersion, waiting' \in [Replicas -> BOOLEAN],
         buildLock' \in Threads \cup {NONE},
         \A u \in Threads \ {t} : (postgres /\ Building(u)) => buildLock' = u,
         (a # NONE /\ a.vector # NONE) => a.vector \in winners,
         (a # NONE /\ a.pc \in {"compose", "version", "persist"}) =>
            /\ a.pc # "compose" => a.asOf <= dataVersion
            /\ a.pc = "persist" => a.version # 0
            /\ postgres => buildLock' = t
            /\ (postgres /\ a.pc # "compose" /\ persisted # NONE) => a.asOf >= persisted.asOf
  PROVE  FeedKept
  <1> USE FeedConstants, NoVectorIsNone
  <1>1. attempt' \in [Threads -> Attempts \cup {NONE}] /\ attempt'[t] = a
        /\ \A u \in Threads \ {t} : attempt'[u] = attempt[u]
    BY DEF Moved, FeedIInv, FeedShapes
  <1>2. FeedShapes' BY <1>1 DEF FeedIInv, FeedShapes
  <1>3. AllWon' BY <1>1 DEF FeedIInv, AllWon
  <1>4. BuildsFit' BY <1>1 DEF FeedIInv, BuildsFit, Building
  <1>5. \A p \in Replicas : vectorCache[p] # NONE => vectorCache[p].version >= vectorCache[p].version
    BY DEF FeedIInv, FeedShapes, Vectors
  <1>6. FeedStep BY <1>5 DEF FeedStep, FeedIInv, AllWon
  <1> QED BY <1>2, <1>3, <1>4, <1>6 DEF FeedKept, FeedIInv

\* A process takes a vector that was persisted into its cache, and attempts end.
LEMMA CacheMoves ==
  ASSUME FeedIInv, NEW p, NEW vec \in Vectors \cup {NONE}, vec # NONE => vec \in winners,
         Caching(p, vec), UNCHANGED hostVars, waiting' \in [Replicas -> BOOLEAN],
         attempt' \in [Threads -> Attempts \cup {NONE}],
         \A u \in Threads : attempt'[u] = attempt[u] \/ attempt'[u] = NONE
  PROVE  FeedKept
  <1> USE FeedConstants, NoVectorIsNone
  <1>1. UNCHANGED <<postgres, dataVersion, policyVersion, persisted, winners, buildLock>>
    BY DEF Caching, hostVars
  <1>2. vectorCache' \in [Replicas -> Vectors \cup {NONE}]
        /\ \A q \in Replicas :
              vectorCache'[q] = vectorCache[q]
              \/ /\ vec # NONE /\ vectorCache'[q] = vec
                 /\ vectorCache[q] # NONE => vec.version > vectorCache[q].version
    <2>1. vectorCache \in [Replicas -> Vectors \cup {NONE}] BY DEF FeedIInv, FeedShapes
    <2>2. \A q \in Replicas : vectorCache[q] # NONE => vectorCache[q].version \in Nat
      BY <2>1 DEF Vectors
    <2>3. vec # NONE => vec.version \in Nat BY DEF Vectors
    <2>4. vectorCache' = [vectorCache EXCEPT ![p] =
             IF vec = NONE \/ (vectorCache[p] # NONE /\ vec.version <= vectorCache[p].version)
             THEN vectorCache[p] ELSE vec]
      BY DEF Caching, cache_write
    <2>5. PICK x : x = IF vec = NONE \/ (vectorCache[p] # NONE /\ vec.version <= vectorCache[p].version)
                       THEN vectorCache[p] ELSE vec
      OBVIOUS
    <2>6. vectorCache' = [vectorCache EXCEPT ![p] = x] BY <2>4, <2>5
    <2>7. p \in Replicas => x \in Vectors \cup {NONE} BY <2>1, <2>5
    <2>8. vectorCache' \in [Replicas -> Vectors \cup {NONE}] BY <2>1, <2>6, <2>7
    <2>9. ASSUME NEW q \in Replicas
          PROVE  \/ vectorCache'[q] = vectorCache[q]
                 \/ /\ vec # NONE /\ vectorCache'[q] = vec
                    /\ vectorCache[q] # NONE => vec.version > vectorCache[q].version
      <3>1. CASE q # p BY <2>1, <2>6, <3>1
      <3>2. CASE q = p
        <4>1. vectorCache'[q] = x BY <2>1, <2>6, <3>2
        <4> QED BY <2>2, <2>3, <2>5, <3>2, <4>1
      <3> QED BY <3>1, <3>2
    <2> QED BY <2>8, <2>9
  <1>3. FeedShapes' BY <1>1, <1>2 DEF FeedIInv, FeedShapes
  <1>4. AllWon' BY <1>1, <1>2 DEF FeedIInv, AllWon
  <1>5. BuildsFit' BY <1>1 DEF FeedIInv, BuildsFit, Building
  <1>6. \A q \in Replicas : vectorCache[q] # NONE => vectorCache[q].version \in Nat
    BY DEF Vectors, FeedIInv, FeedShapes
  <1>7. vec # NONE => vec.version \in Nat BY DEF Vectors
  <1>8. FeedStep BY <1>1, <1>2, <1>4, <1>6, <1>7 DEF FeedStep, AllWon
  <1> QED BY <1>3, <1>4, <1>5, <1>8 DEF FeedKept, FeedIInv

\* The fields of an attempt that has a record.
LEMMA AttemptFields ==
  ASSUME FeedIInv, NEW t \in Threads, attempt[t] # NONE
  PROVE  /\ attempt[t] \in Attempts
         /\ \A s \in {"lock", "compose", "version", "persist", "returned", "raised"} :
               /\ Went(t, s) \in Attempts /\ Went(t, s) # NONE /\ Went(t, s).pc = s
               /\ Went(t, s).asOf = attempt[t].asOf /\ Went(t, s).version = attempt[t].version
               /\ Went(t, s).vector = attempt[t].vector
  BY NoVectorIsNone DEF FeedIInv, FeedShapes, Attempts, Went

LEMMA LockKept ==
  ASSUME FeedIInv, NEW t \in Threads, NEW pc \in {"lock", "compose", "version", "persist", "returned", "raised"},
         AttemptAt(t, pc)
  PROVE  /\ attempt[t] # NONE /\ attempt[t].pc = pc
         /\ (buildLock' = buildLock \/ Unlocked(t)) =>
               /\ buildLock' \in Threads \cup {NONE}
               /\ \A u \in Threads \ {t} : (postgres /\ Building(u)) => buildLock' = u
  BY DEF AttemptAt, FeedIInv, FeedShapes, BuildsFit, Unlocked

LEMMA RefreshOnceKept ==
  ASSUME FeedIInv, NEW t \in Threads, refresh_once(t), UNCHANGED hostVars
  PROVE  FeedKept
  <1> USE FeedConstants, NoVectorIsNone
  <1>1. AttemptAt(t, "lock") BY DEF refresh_once
  <1>2. /\ attempt[t] # NONE /\ attempt[t].pc = "lock"
        /\ buildLock' = buildLock =>
             \A u \in Threads \ {t} : (postgres /\ Building(u)) => buildLock' = u
    BY <1>1, LockKept
  <1>3. attempt[t] \in Attempts
        /\ \A s \in {"lock", "compose", "version", "persist", "returned", "raised"} :
               /\ Went(t, s) \in Attempts /\ Went(t, s) # NONE /\ Went(t, s).pc = s
               /\ Went(t, s).asOf = attempt[t].asOf /\ Went(t, s).version = attempt[t].version
               /\ Went(t, s).vector = attempt[t].vector
    BY <1>2, AttemptFields
  <1>4. UNCHANGED <<postgres, dataVersion, policyVersion, persisted, winners, vectorCache, waiting>>
    BY DEF refresh_once, servedVars, hostVars
  <1>5. policyVersion \in 0..MaxVersion /\ waiting \in [Replicas -> BOOLEAN]
        /\ persisted \in Vectors \cup {NONE} /\ (persisted # NONE => persisted \in winners)
        /\ (attempt[t].vector # NONE => attempt[t].vector \in winners)
        /\ buildLock \in Threads \cup {NONE} /\ postgres \in BOOLEAN
    BY <1>2 DEF FeedIInv, FeedShapes, AllWon
  <1>6. CASE advisory_lock(t)
    <2>1. Moved(t, Went(t, "compose")) /\ buildLock' = IF postgres THEN t ELSE NONE
      BY <1>6 DEF refresh_once
    <2>2. \A u \in Threads \ {t} : (postgres /\ Building(u)) => buildLock' = u
      BY <1>6 DEF advisory_lock, FeedIInv, BuildsFit
    <2> QED BY <1>2, <1>3, <1>4, <1>5, <2>1, <2>2, AttemptMoves
  <1>7. CASE ~advisory_lock(t)
    <2> DEFINE a == [Went(t, "returned") EXCEPT !.vector = persisted]
    <2>1. Moved(t, a) /\ buildLock' = buildLock
      BY <1>7 DEF refresh_once
    <2>2. a \in Attempts /\ a.pc = "returned" /\ a.vector = persisted
      BY <1>3, <1>5 DEF Attempts
    <2> QED BY <1>2, <1>3, <1>4, <1>5, <2>1, <2>2, AttemptMoves
  <1> QED BY <1>6, <1>7

LEMMA BuildVectorKept ==
  ASSUME FeedIInv, NEW t \in Threads, build_vector(t), UNCHANGED hostVars
  PROVE  FeedKept
  <1> USE FeedConstants, NoVectorIsNone
  <1>1. AttemptAt(t, "compose") BY DEF build_vector
  <1>2. /\ attempt[t] # NONE /\ attempt[t].pc = "compose"
        /\ (buildLock' = buildLock \/ Unlocked(t)) =>
             /\ buildLock' \in Threads \cup {NONE}
             /\ \A u \in Threads \ {t} : (postgres /\ Building(u)) => buildLock' = u
    BY <1>1, LockKept
  <1>3. attempt[t] \in Attempts
        /\ \A s \in {"lock", "compose", "version", "persist", "returned", "raised"} :
               /\ Went(t, s) \in Attempts /\ Went(t, s) # NONE /\ Went(t, s).pc = s
               /\ Went(t, s).asOf = attempt[t].asOf /\ Went(t, s).version = attempt[t].version
               /\ Went(t, s).vector = attempt[t].vector
    BY <1>2, AttemptFields
  <1>4. UNCHANGED <<postgres, dataVersion, policyVersion, persisted, winners, vectorCache, waiting>>
    BY DEF build_vector, servedVars, hostVars
  <1>5. policyVersion \in 0..MaxVersion /\ waiting \in [Replicas -> BOOLEAN]
        /\ (attempt[t].vector # NONE => attempt[t].vector \in winners)
        /\ dataVersion \in 0..MaxData
        /\ (persisted # NONE => persisted.asOf <= dataVersion /\ persisted.asOf \in Nat)
        /\ (postgres => buildLock = t)
    BY <1>2 DEF FeedIInv, FeedShapes, AllWon, BuildsFit, Building, Vectors
  <1>6. CASE Moved(t, [Went(t, "version") EXCEPT !.asOf = dataVersion]) /\ UNCHANGED buildLock
    <2> DEFINE a == [Went(t, "version") EXCEPT !.asOf = dataVersion]
    <2>1. a \in Attempts /\ a.pc = "version" /\ a.vector = attempt[t].vector /\ a.asOf = dataVersion
      BY <1>3, <1>5 DEF Attempts
    <2> HIDE DEF a
    <2>2. Moved(t, a) BY <1>6 DEF a
    <2> QED BY <1>2, <1>4, <1>5, <1>6, <2>1, <2>2, AttemptMoves
  <1>7. CASE Moved(t, Went(t, "raised")) /\ Unlocked(t)
    BY <1>2, <1>3, <1>4, <1>5, <1>7, AttemptMoves
  <1> QED BY <1>6, <1>7 DEF build_vector

LEMMA NextVersionKept ==
  ASSUME FeedIInv, NEW t \in Threads, next_policy_version(t), UNCHANGED hostVars
  PROVE  FeedKept
  <1> USE FeedConstants, NoVectorIsNone
  <1>1. AttemptAt(t, "version") BY DEF next_policy_version
  <1>2. /\ attempt[t] # NONE /\ attempt[t].pc = "version"
        /\ buildLock' = buildLock =>
             /\ buildLock' \in Threads \cup {NONE}
             /\ \A u \in Threads \ {t} : (postgres /\ Building(u)) => buildLock' = u
    BY <1>1, LockKept
  <1>3. attempt[t] \in Attempts
        /\ \A s \in {"lock", "compose", "version", "persist", "returned", "raised"} :
               /\ Went(t, s) \in Attempts /\ Went(t, s) # NONE /\ Went(t, s).pc = s
               /\ Went(t, s).asOf = attempt[t].asOf /\ Went(t, s).version = attempt[t].version
               /\ Went(t, s).vector = attempt[t].vector
    BY <1>2, AttemptFields
  <1>4. UNCHANGED <<postgres, dataVersion, persisted, winners, vectorCache, waiting, buildLock>>
    BY DEF next_policy_version, hostVars
  <1>5. policyVersion \in 0..MaxVersion /\ waiting \in [Replicas -> BOOLEAN]
        /\ (attempt[t].vector # NONE => attempt[t].vector \in winners)
        /\ attempt[t].asOf <= dataVersion
        /\ ((postgres /\ persisted # NONE) => attempt[t].asOf >= persisted.asOf)
        /\ (postgres => buildLock = t)
    BY <1>2 DEF FeedIInv, FeedShapes, AllWon, BuildsFit, Building, Vectors
  <1>6. policyVersion' = policyVersion + 1 /\ policyVersion' \in 0..MaxVersion /\ policyVersion' # 0
    BY <1>5 DEF next_policy_version
  <1> DEFINE a == [Went(t, "persist") EXCEPT !.version = policyVersion']
  <1>7. a \in Attempts /\ a.pc = "persist" /\ a.vector = attempt[t].vector
        /\ a.asOf = attempt[t].asOf /\ a.version = policyVersion'
    BY <1>3, <1>6 DEF Attempts
  <1>8. Moved(t, a) BY DEF next_policy_version
  <1> HIDE DEF a
  <1> QED BY <1>2, <1>4, <1>5, <1>6, <1>7, <1>8, AttemptMoves

LEMMA PersistKept ==
  ASSUME FeedIInv, NEW t \in Threads, persist(t), UNCHANGED hostVars
  PROVE  FeedKept
  <1> USE FeedConstants, NoVectorIsNone
  <1>1. AttemptAt(t, "persist") BY DEF persist
  <1>2. /\ attempt[t] # NONE /\ attempt[t].pc = "persist"
        /\ buildLock' \in Threads \cup {NONE}
        /\ \A u \in Threads \ {t} : (postgres /\ Building(u)) => buildLock' = u
    BY <1>1, LockKept DEF persist
  <1>3. attempt[t] \in Attempts
        /\ \A s \in {"lock", "compose", "version", "persist", "returned", "raised"} :
               /\ Went(t, s) \in Attempts /\ Went(t, s) # NONE /\ Went(t, s).pc = s
               /\ Went(t, s).asOf = attempt[t].asOf /\ Went(t, s).version = attempt[t].version
               /\ Went(t, s).vector = attempt[t].vector
    BY <1>2, AttemptFields
  <1>4. UNCHANGED <<postgres, dataVersion, policyVersion, vectorCache, waiting>>
    BY DEF persist, hostVars
  <1> DEFINE vec == Signed(attempt[t])
  <1>5. /\ vec \in Vectors /\ vec.asOf = attempt[t].asOf /\ attempt[t].asOf <= dataVersion
        /\ (postgres /\ persisted # NONE) => attempt[t].asOf >= persisted.asOf
        /\ postgres => buildLock = t
    BY <1>2, <1>3 DEF FeedIInv, FeedShapes, BuildsFit, Building, Vectors, Attempts, Signed
  <1>6. /\ persisted' = vec \/ (persisted # NONE /\ persisted' = persisted)
        /\ winners' = winners \cup {persisted'}
        /\ Moved(t, [Went(t, "returned") EXCEPT !.vector = persisted'])
    BY DEF persist, persist_vector
  <1> HIDE DEF vec
  <1>7. persisted' \in Vectors /\ winners' \subseteq Vectors
    BY <1>5, <1>6 DEF FeedIInv, FeedShapes
  <1> DEFINE a == [Went(t, "returned") EXCEPT !.vector = persisted']
  <1>8. a \in Attempts /\ a.pc = "returned" /\ a.vector = persisted'
    BY <1>3, <1>7 DEF Attempts
  <1>9. Moved(t, a) BY <1>6
  <1> HIDE DEF a
  <1>10. attempt' \in [Threads -> Attempts \cup {NONE}] /\ attempt'[t] = a
         /\ \A u \in Threads \ {t} : attempt'[u] = attempt[u]
    BY <1>8, <1>9 DEF Moved, FeedIInv, FeedShapes
  <1>11. FeedShapes' BY <1>2, <1>4, <1>7, <1>10 DEF FeedIInv, FeedShapes
  <1>12. AllWon' BY <1>4, <1>6, <1>8, <1>10 DEF FeedIInv, AllWon
  <1>13. BuildsFit'
    <2>1. persisted'.asOf <= dataVersion' BY <1>4, <1>5, <1>6 DEF FeedIInv, BuildsFit
    <2>2. \A u \in Threads : Building(u)' => u # t /\ Building(u) /\ attempt'[u] = attempt[u]
      BY <1>8, <1>10 DEF Building
    <2>3. \A u \in Threads \ {t} : Building(u) => ~postgres
      BY <1>5, <1>2 DEF FeedIInv, BuildsFit
    <2> QED BY <1>4, <2>1, <2>2, <2>3 DEF FeedIInv, BuildsFit
  <1>14. FeedStep
    <2>1. \A p \in Replicas : vectorCache[p] # NONE => vectorCache[p].version \in Nat
      BY DEF FeedIInv, FeedShapes, Vectors
    <2> QED BY <1>4, <1>5, <1>6, <1>12, <2>1 DEF FeedStep, AllWon
  <1> QED BY <1>11, <1>12, <1>13, <1>14 DEF FeedKept, FeedIInv

LEMMA LoopKept ==
  ASSUME FeedIInv, NEW p \in Replicas, FeedLoop(p)
  PROVE  FeedKept
  <1> USE FeedConstants, NoVectorIsNone
  <1> DEFINE t == <<p, "loop">>
  <1>1. t \in Threads BY DEF Threads
  <1>2. UNCHANGED hostVars BY DEF FeedLoop
  <1>3. /\ policyVersion \in 0..MaxVersion /\ waiting \in [Replicas -> BOOLEAN]
        /\ buildLock \in Threads \cup {NONE}
        /\ attempt \in [Threads -> Attempts \cup {NONE}]
        /\ persisted \in Vectors \cup {NONE} /\ (persisted # NONE => persisted \in winners)
        /\ (attempt[t] # NONE => /\ attempt[t].vector \in Vectors \cup {NONE}
                                 /\ attempt[t].vector # NONE => attempt[t].vector \in winners)
    BY <1>1 DEF FeedIInv, FeedShapes, AllWon, Attempts
  <1>4. CASE StartAttempt(p)
    <2>1. FreshAttempt \in Attempts /\ FreshAttempt.pc = "lock" /\ FreshAttempt.vector = NONE
      BY DEF FreshAttempt, Attempts
    <2>2. Moved(t, FreshAttempt) /\ waiting' = [waiting EXCEPT ![p] = TRUE]
          /\ UNCHANGED <<postgres, dataVersion, policyVersion, persisted, winners, vectorCache, buildLock>>
      BY <1>2, <1>4 DEF StartAttempt, servedVars, hostVars
    <2>3. waiting' \in [Replicas -> BOOLEAN] BY <1>3, <2>2
    <2>4. \A u \in Threads \ {t} : (postgres /\ Building(u)) => buildLock' = u
      BY <2>2 DEF FeedIInv, BuildsFit
    <2> QED BY <1>1, <1>3, <2>1, <2>2, <2>3, <2>4, AttemptMoves
  <1>5. CASE JoinAttempt(p)
    <2> DEFINE vec == IF waiting[p] /\ AttemptAt(t, "returned") THEN attempt[t].vector ELSE NONE
    <2>1. /\ Caching(p, vec) /\ Moved(t, NONE) /\ waiting' = [waiting EXCEPT ![p] = FALSE]
          /\ attempt[t] # NONE
      BY <1>5 DEF JoinAttempt, AttemptAt
    <2>2. vec \in Vectors \cup {NONE} /\ (vec # NONE => vec \in winners) BY <1>3, <2>1
    <2>3. attempt' \in [Threads -> Attempts \cup {NONE}]
          /\ \A u \in Threads : attempt'[u] = attempt[u] \/ attempt'[u] = NONE
      BY <1>3, <2>1 DEF Moved
    <2>4. waiting' \in [Replicas -> BOOLEAN] BY <1>3, <2>1
    <2> HIDE DEF vec
    <2> QED BY <1>2, <2>1, <2>2, <2>3, <2>4, CacheMoves
  <1>6. CASE RefreshTimeout(p)
    <2>1. PICK vec \in {persisted, NONE} : Caching(p, vec)
      BY <1>6 DEF RefreshTimeout, try_adopt_persisted
    <2>2. waiting' = [waiting EXCEPT ![p] = FALSE] /\ attempt' = attempt
      BY <1>6 DEF RefreshTimeout
    <2>3. vec \in Vectors \cup {NONE} /\ (vec # NONE => vec \in winners) BY <1>3
    <2>4. waiting' \in [Replicas -> BOOLEAN] BY <1>3, <2>2
    <2> QED BY <1>2, <1>3, <2>1, <2>2, <2>3, <2>4, CacheMoves
  <1> QED BY <1>4, <1>5, <1>6 DEF FeedLoop

LEMMA CallKept ==
  ASSUME FeedIInv, NEW p \in Replicas, FeedCall(p)
  PROVE  FeedKept
  <1> USE FeedConstants, NoVectorIsNone
  <1> DEFINE t == <<p, "caller">>
  <1>2. UNCHANGED hostVars BY DEF FeedCall
  <1>3. /\ policyVersion \in 0..MaxVersion /\ waiting \in [Replicas -> BOOLEAN]
        /\ buildLock \in Threads \cup {NONE}
        /\ attempt \in [Threads -> Attempts \cup {NONE}]
        /\ persisted \in Vectors \cup {NONE} /\ (persisted # NONE => persisted \in winners)
        /\ (p \in SnapshotReplicas /\ attempt[t] # NONE) =>
              /\ attempt[t].vector \in Vectors \cup {NONE}
              /\ attempt[t].vector # NONE => attempt[t].vector \in winners
    BY DEF FeedIInv, FeedShapes, AllWon, Attempts, Threads
  <1>4. CASE cached_vector(p)
    <2>1. Caching(p, persisted) /\ UNCHANGED <<attempt, waiting>> BY <1>4 DEF cached_vector
    <2> QED BY <1>2, <1>3, <2>1, CacheMoves
  <1>5. CASE current_vector(p)
    <2>1. FreshAttempt \in Attempts /\ FreshAttempt.pc = "lock" /\ FreshAttempt.vector = NONE
      BY DEF FreshAttempt, Attempts
    <2>2. Moved(t, FreshAttempt) /\ p \in SnapshotReplicas
          /\ UNCHANGED <<postgres, dataVersion, policyVersion, persisted, winners, vectorCache, waiting, buildLock>>
      BY <1>2, <1>5 DEF current_vector, servedVars, hostVars
    <2>3. t \in Threads BY <2>2 DEF Threads
    <2>4. \A u \in Threads \ {t} : (postgres /\ Building(u)) => buildLock' = u
      BY <2>2 DEF FeedIInv, BuildsFit
    <2> QED BY <1>3, <2>1, <2>2, <2>3, <2>4, AttemptMoves
  <1>6. CASE current_vector_returns(p)
    <2> DEFINE vec == IF AttemptAt(t, "returned") THEN attempt[t].vector ELSE NONE
    <2>1. /\ Caching(p, vec) /\ Moved(t, NONE) /\ UNCHANGED waiting
          /\ attempt[t] # NONE /\ p \in SnapshotReplicas
      BY <1>6 DEF current_vector_returns, AttemptAt
    <2>2. vec \in Vectors \cup {NONE} /\ (vec # NONE => vec \in winners) BY <1>3, <2>1
    <2>3. attempt' \in [Threads -> Attempts \cup {NONE}]
          /\ \A u \in Threads : attempt'[u] = attempt[u] \/ attempt'[u] = NONE
      BY <1>3, <2>1 DEF Moved
    <2> HIDE DEF vec
    <2> QED BY <1>2, <1>3, <2>1, <2>2, <2>3, CacheMoves
  <1> QED BY <1>4, <1>5, <1>6 DEF FeedCall

\* A death takes the lock with the attempts that may hold it.
LEMMA DeathKept ==
  ASSUME FeedIInv, FeedFault
  PROVE  FeedKept
  <1> USE FeedConstants, NoVectorIsNone
  <1>1. PICK p : Dies(p) BY DEF FeedFault
  <1>2. UNCHANGED <<postgres, dataVersion, policyVersion, persisted, winners>>
    BY <1>1 DEF FeedFault, Dies
  <1>3. attempt' \in [Threads -> Attempts \cup {NONE}]
        /\ \A u \in Threads : attempt'[u] = IF u[1] = p THEN NONE ELSE attempt[u]
    BY <1>1 DEF Dies, FeedIInv, FeedShapes
  <1>4. vectorCache' \in [Replicas -> Vectors \cup {NONE}] /\ waiting' \in [Replicas -> BOOLEAN]
        /\ \A q \in Replicas : vectorCache'[q] \in {vectorCache[q], NONE}
    BY <1>1 DEF Dies, FeedIInv, FeedShapes
  <1>5. buildLock' = IF buildLock # NONE /\ buildLock[1] = p THEN NONE ELSE buildLock
    BY <1>1 DEF Dies
  <1>6. FeedShapes' BY <1>2, <1>3, <1>4, <1>5 DEF FeedIInv, FeedShapes
  <1>7. AllWon' BY <1>2, <1>3, <1>4 DEF FeedIInv, AllWon
  <1>8. BuildsFit' BY <1>2, <1>3, <1>5 DEF FeedIInv, BuildsFit, Building
  <1>9. \A q \in Replicas : vectorCache[q] # NONE => vectorCache[q].version \in Nat
    BY DEF FeedIInv, FeedShapes, Vectors
  <1>10. FeedStep BY <1>2, <1>4, <1>7, <1>9 DEF FeedStep, AllWon
  <1> QED BY <1>6, <1>7, <1>8, <1>10 DEF FeedKept, FeedIInv

LEMMA DataKept ==
  ASSUME FeedIInv, dataVersion' \in {dataVersion, dataVersion + 1}, dataVersion' \in 0..MaxData,
         UNCHANGED <<postgres, servedVars, attempt, waiting, buildLock>>
  PROVE  FeedKept
  <1> USE FeedConstants, NoVectorIsNone
  <1>1. UNCHANGED <<postgres, policyVersion, persisted, winners, vectorCache, attempt, waiting, buildLock>>
    BY DEF servedVars
  <1>2. FeedShapes' BY <1>1 DEF FeedIInv, FeedShapes
  <1>3. AllWon' BY <1>1 DEF FeedIInv, AllWon
  <1>4. (persisted # NONE => persisted.asOf \in Nat)
        /\ \A u \in Threads : attempt[u] # NONE => attempt[u].asOf \in Nat
    BY DEF FeedIInv, FeedShapes, Vectors, Attempts
  <1>5. BuildsFit' BY <1>1, <1>4 DEF FeedIInv, BuildsFit, Building, FeedShapes
  <1>6. \A q \in Replicas : vectorCache[q] # NONE => vectorCache[q].version \in Nat
    BY DEF FeedIInv, FeedShapes, Vectors
  <1>7. FeedStep BY <1>1, <1>3, <1>6 DEF FeedStep, AllWon
  <1> QED BY <1>2, <1>3, <1>5, <1>7 DEF FeedKept, FeedIInv

LEMMA FeedMoves == FeedIInv /\ [FeedNext]_feedVars => FeedKept
  <1> SUFFICES ASSUME FeedIInv, [FeedNext]_feedVars PROVE FeedKept OBVIOUS
  <1>1. Running \subseteq Replicas
    BY FeedConstants DEF Running
  <1>2. CASE FeedNext
    <2>1. CASE DataChanges
      <3>1. dataVersion' = dataVersion + 1 /\ dataVersion < MaxData
            /\ UNCHANGED <<postgres, servedVars, attempt, waiting, buildLock>>
        BY <2>1 DEF DataChanges, hostVars
      <3>2. dataVersion' \in 0..MaxData BY <3>1, FeedConstants DEF FeedIInv, FeedShapes
      <3> QED BY <3>1, <3>2, DataKept
    <2>2. CASE FeedFault BY <2>2, DeathKept
    <2>3. ASSUME NEW t \in Threads, BuildStep(t) PROVE FeedKept
      BY <2>3, RefreshOnceKept, BuildVectorKept, NextVersionKept, PersistKept DEF BuildStep
    <2>4. ASSUME NEW p \in Running, FeedLoop(p) PROVE FeedKept
      BY <1>1, <2>4, LoopKept
    <2>5. ASSUME NEW p \in Running, FeedCall(p) PROVE FeedKept
      BY <1>1, <2>5, CallKept
    <2> QED BY <1>2, <2>1, <2>2, <2>3, <2>4, <2>5 DEF FeedNext
  <1>3. CASE UNCHANGED feedVars
    <2>1. UNCHANGED <<postgres, dataVersion, servedVars, attempt, waiting, buildLock>>
      BY <1>3 DEF feedVars, servedVars
    <2>2. dataVersion' \in 0..MaxData BY <2>1 DEF FeedIInv, FeedShapes
    <2> QED BY <2>1, <2>2, DataKept
  <1> QED BY <1>2, <1>3

\* WeightFeed: what is published and what each process serves only moves forward,
\* for any replicas, deaths and orders of the attempts (weights.py: next_policy_version
\* and _persist_vector under the lock of _refresh_once, _cache_write).
THEOREM FeedForward == FeedInit /\ [][FeedNext]_feedVars => FeedMovesForward
  <1>1. FeedInit => FeedIInv BY FeedStarts
  <1>2. FeedIInv /\ [FeedNext]_feedVars => FeedIInv' BY FeedMoves DEF FeedKept
  <1>3. FeedIInv /\ [FeedNext]_feedVars
          => [(/\ postgres
               /\ persisted # NONE /\ persisted' # persisted)
                => persisted'.asOf >= persisted.asOf]_feedVars
    BY FeedMoves DEF FeedKept, FeedStep
  <1>4. FeedIInv /\ [FeedNext]_feedVars
          => [\A p \in Replicas :
                /\ vectorCache'[p] # NONE => vectorCache'[p] \in winners'
                /\ (vectorCache[p] # NONE /\ vectorCache'[p] # NONE)
                      => vectorCache'[p].version >= vectorCache[p].version]_feedVars
    BY FeedMoves DEF FeedKept, FeedStep
  <1> QED BY <1>1, <1>2, <1>3, <1>4, PTL DEF FeedMovesForward, VersionFollowsData, ServedWasDurable

----------------------------------------------------------------------------
(* The board                                                                *)

Ids == Nat \X Range(BoardTiers) \X Nat
Pregenerated == {"pregen"} \X Nat
Bodies == ({"seed"} \X Ids) \cup Pregenerated \cup ({"generator"} \X Nat)
BoardRow == [status : {"active", "retired"}, body : Bodies \cup {Blank},
             created : Nat, solvers : Nat]
Lease == [state : {"leased", "confirmed", "released"}, body : Bodies]
Snapshot == [ids : (SUBSET Ids) \cup {NONE}, dirty : BOOLEAN, lapsed : BOOLEAN,
             thread : {"none", "started", "building"}, missed : BOOLEAN]
MintSteps == {"local", "lease", "fetch", "failed", "commit", "written", "put", "stamp"}
RefillTask ==
    [pc : {"idle", "age", "solved", "announce", "plan", "mint"} \cup MintSteps,
     tiers : Seq(Range(BoardTiers)), work : SUBSET Ids, id : Ids \cup {NONE},
     at : Nat, cap : Nat, body : Bodies \cup {NONE}, retired : BOOLEAN]

\* A copy of a body, kept under an id: the id has a row, and while that is active
\* the copy is its body.
Fits(id, body) ==
    /\ id \in DOMAIN rows
    /\ (~MintsTwice /\ rows[id].status = "active") => body = rows[id].body
Copies == {e \in Ids \X Bodies : Fits(e[1], e[2])}

BoardShapes ==
    /\ boardConf \in BoardConfs /\ hour \in 0..MaxHour /\ forkOk \in BOOLEAN
    /\ bodies \in 0..MaxMints /\ boardFaults \in 0..MaxBoardFaults
    /\ IsFiniteSet(DOMAIN rows) /\ DOMAIN rows \subseteq Ids
    /\ \A i \in DOMAIN rows : rows[i] \in BoardRow
    /\ refiller \in RefillTask /\ (refiller.pc # "idle" => refiller.tiers # <<>>)
    /\ pregen \in [Range(BoardTiers) -> Seq(Pregenerated)]
    /\ \A i \in DOMAIN leases : leases[i] \in Lease
    /\ snapshot \in Snapshot

\* The ids a pass still mints have no row; the id at hand has none until it is
\* committed, and then the body that was committed.
MintsFit ==
    /\ refiller.work \cap DOMAIN rows = {}
    /\ refiller.pc \in MintSteps => refiller.id \in Ids \ refiller.work
    /\ (refiller.pc \in {"local", "lease", "fetch", "commit"} /\ ~MintsTwice)
          => refiller.id \notin DOMAIN rows
    /\ refiller.pc = "fetch" => refiller.id \in DOMAIN leases
    /\ refiller.pc \in {"lease", "fetch", "failed"} => boardConf.generator = "on"
    /\ refiller.pc \in {"commit", "written", "put", "stamp"} =>
         /\ refiller.body \in Bodies
         /\ refiller.body[1] = "generator" => boardConf.generator = "on"
    /\ refiller.pc \in {"written", "put", "stamp"} =>
         /\ refiller.id \in DOMAIN rows
         /\ rows[refiller.id].body = refiller.body

CopiesFit ==
    /\ \A i \in DOMAIN objects : Fits(i, objects[i])
    /\ memory \in [BoardServers -> Seq(Copies)]
    /\ \A s \in BoardServers : Len(memory[s]) <= CacheSize

\* No mutation waits for its announcement.
AllAnnounced ==
    refiller.pc \notin {"announce", "written"} /\ ~refiller.retired /\ ~snapshot.missed
SnapshotFits ==
    /\ refiller.retired => refiller.pc \in {"solved", "announce"}
    /\ (AllAnnounced /\ (snapshot.thread = "building" \/ is_fresh(snapshot)))
          => snapshot.ids = ActiveBoard

BoardIInv == BoardShapes /\ MintsFit /\ CopiesFit /\ SnapshotFits

----------------------------------------------------------------------------
LEMMA LruKeeps ==
    ASSUME NEW S, NEW m \in Seq(S), NEW id, Len(m) <= CacheSize
    PROVE  /\ LruHas(m, id) => lru_get(m, id) \in Seq(S) /\ Len(lru_get(m, id)) = Len(m)
           /\ \A body : <<id, body>> \in S =>
                 lru_put(m, id, body) \in Seq(S) /\ Len(lru_put(m, id, body)) <= CacheSize
<1> USE BoardAssumption
<1>1. ASSUME LruHas(m, id)
      PROVE  lru_get(m, id) \in Seq(S) /\ Len(lru_get(m, id)) = Len(m)
  <2> DEFINE hit == CHOOSE k \in DOMAIN m : m[k][1] = cache_key(id)
             front == SubSeq(m, 1, hit - 1)
             back == SubSeq(m, hit + 1, Len(m))
  <2>1. hit \in DOMAIN m
    BY <1>1 DEF LruHas
  <2>2. hit \in 1..Len(m) /\ Len(m) \in Nat /\ m[hit] \in S
    BY <2>1, LenProperties
  <2> HIDE DEF hit
  <2>3. front \in Seq(S) /\ Len(front) = hit - 1
    <3>1. \A i \in 1..(hit - 1) : m[i] \in S
      BY <2>2, LenProperties
    <3>2. hit - 1 \in Int
      BY <2>2
    <3> QED BY <3>1, <3>2, <2>2, SubSeqProperties
  <2>4. back \in Seq(S) /\ Len(back) = Len(m) - hit
    <3>1. \A i \in (hit + 1)..Len(m) : m[i] \in S
      BY <2>2, LenProperties
    <3>2. hit + 1 \in Int
      BY <2>2
    <3> QED BY <3>1, <3>2, <2>2, SubSeqProperties
  <2> HIDE DEF front, back
  <2>5. front \o back \in Seq(S) /\ Len(front \o back) = Len(m) - 1
    <3>1. front \o back \in Seq(S) /\ Len(front \o back) = Len(front) + Len(back)
      BY <2>3, <2>4, ConcatProperties
    <3> QED BY <3>1, <2>2, <2>3, <2>4
  <2>6. Append(front \o back, m[hit]) \in Seq(S)
        /\ Len(Append(front \o back, m[hit])) = Len(m)
    BY <2>2, <2>5, AppendProperties
  <2>7. lru_get(m, id) = Append(front \o back, m[hit])
    BY DEF lru_get, RemoveAt, hit, front, back
  <2> QED BY <2>6, <2>7
<1>2. ASSUME NEW body, <<id, body>> \in S
      PROVE  lru_put(m, id, body) \in Seq(S) /\ Len(lru_put(m, id, body)) <= CacheSize
  <2> DEFINE e == <<id, body>>
             all == Append(m, e)
  <2>0. e \in S
    BY <1>2
  <2> HIDE DEF e
  <2>1. all \in Seq(S) /\ Len(all) = Len(m) + 1 /\ all # <<>>
    BY <2>0, AppendProperties
  <2>2. Tail(all) \in Seq(S) /\ Len(Tail(all)) = Len(all) - 1
    BY <2>1, HeadTailProperties
  <2>3. lru_put(m, id, body) = IF Len(all) > CacheSize THEN Tail(all) ELSE all
    BY DEF lru_put, cache_key, e
  <2>4. Len(m) \in Nat /\ CacheSize \in Nat
    BY LenProperties
  <2> HIDE DEF all
  <2> QED BY <2>1, <2>2, <2>3, <2>4
<1> QED BY <1>1, <1>2

\* What a step leaves of the copies: while no id with a row is written anew and no
\* row gets another body, every copy that fits still fits.
LEMMA CopiesStay ==
    ASSUME boardConf' = boardConf, DOMAIN rows \subseteq DOMAIN rows',
           \A i \in DOMAIN rows : (~MintsTwice /\ rows'[i].status = "active") =>
               rows[i].status = "active" /\ rows'[i].body = rows[i].body
    PROVE  /\ \A id, body : Fits(id, body) => Fits(id, body)'
           /\ Copies \subseteq Copies'
           /\ \A m \in Seq(Copies) : m \in Seq(Copies')
<1>1. \A id, body : Fits(id, body) => Fits(id, body)'
  BY DEF Fits, MintsTwice
<1>2. Copies \subseteq Copies'
  BY <1>1 DEF Copies
<1>3. \A m \in Seq(Copies) : m \in Seq(Copies')
  BY <1>2, SeqMonotonic
<1> QED BY <1>1, <1>2, <1>3

LEMMA BoardStarts == BoardInit => BoardIInv
<1> SUFFICES ASSUME BoardInit PROVE BoardIInv
  OBVIOUS
<1> USE BoardAssumption DEF BoardInit
<1>1. DOMAIN rows = {} /\ DOMAIN leases = {} /\ DOMAIN objects = {}
  OBVIOUS
<1>2. BoardShapes
  BY <1>1, FS_EmptySet DEF BoardShapes, Resting, RefillTask, Cold, Snapshot, MintSteps
<1>3. MintsFit
  BY <1>1 DEF MintsFit, Resting, MintSteps
<1>4. CopiesFit
  BY <1>1 DEF CopiesFit
<1>5. SnapshotFits
  BY DEF SnapshotFits, Resting, Cold, is_fresh
<1> QED BY <1>2, <1>3, <1>4, <1>5 DEF BoardIInv

LEMMA FreshIds ==
    ASSUME BoardShapes, NEW tier \in Range(BoardTiers), NEW at \in Nat, NEW cap \in Nat
    PROVE  fresh_ids(tier, at, cap) \subseteq Ids \ DOMAIN rows
<1> USE BoardAssumption
<1> DEFINE ofTier == {i \in DOMAIN rows : i[2] = tier}
           count == Cardinality(ofTier)
<1>1. count \in Nat
  BY FS_Subset, FS_CardinalityType DEF BoardShapes
<1> HIDE DEF count
<1>2. ASSUME NEW n \in count..(count + Target * 4 + 7) PROVE <<at, tier, n>> \in Ids
  <2>1. Target \in Nat
    OBVIOUS
  <2>2. n \in Nat
    BY <1>1, <2>1
  <2> QED BY <2>2 DEF Ids
<1> QED BY <1>2 DEF fresh_ids, count

LEMMA Faults ==
    ASSUME BoardIInv, Fault PROVE boardFaults' \in 0..MaxBoardFaults
BY BoardAssumption DEF BoardIInv, BoardShapes, Fault

----------------------------------------------------------------------------
\* The types of the board, action by action.
LEMMA RefillTyped ==
    ASSUME BoardIInv,
           refill_once_async \/ RetireAged \/ RetireSolved \/ plan_tier \/ TierDone \/ PassFails
    PROVE  BoardShapes'
<1> USE BoardAssumption DEF BoardIInv, BoardShapes
<1> DEFINE Kept == /\ boardConf' \in BoardConfs /\ hour' \in 0..MaxHour /\ forkOk' \in BOOLEAN
                   /\ bodies' \in 0..MaxMints
                   /\ pregen' \in [Range(BoardTiers) -> Seq(Pregenerated)]
                   /\ \A i \in DOMAIN leases' : leases'[i] \in Lease
<1>1. Kept
  BY DEF refill_once_async, RetireAged, RetireSolved, plan_tier, TierDone, PassFails
<1> HIDE DEF Kept
<1>2. \A tiers \in Seq(Range(BoardTiers)) : refill_tier(tiers) \in RefillTask
  <2>1. hour \in Nat /\ MintCap \in Nat /\ 1 \in Nat
    OBVIOUS
  <2>2. (IF boardConf.generator = "on" \/ forkOk THEN MintCap ELSE 1) \in Nat
    BY <2>1
  <2> QED BY <2>1, <2>2 DEF refill_tier, RefillTask, Resting
<1>3. Resting \in RefillTask /\ Resting.pc = "idle"
  BY DEF RefillTask, Resting
<1>4. CASE refill_once_async
  <2>1. refiller' \in RefillTask /\ refiller'.tiers = BoardTiers
    BY <1>4, <1>2 DEF refill_once_async, refill_tier, Resting
  <2> QED BY <1>1, <1>4, <2>1 DEF Kept, refill_once_async
<1>5. ASSUME NEW ready, NEW next \in {"solved", "announce", "plan"}, retire(ready, next),
             refiller.pc # "idle", UNCHANGED hour
      PROVE  /\ refiller' \in RefillTask /\ (refiller'.pc # "idle" => refiller'.tiers # <<>>)
             /\ IsFiniteSet(DOMAIN rows') /\ DOMAIN rows' \subseteq Ids
             /\ \A i \in DOMAIN rows' : rows'[i] \in BoardRow
             /\ snapshot' \in Snapshot /\ boardFaults' \in 0..MaxBoardFaults
  <2>1. CASE Fault /\ refiller' = Resting /\ UNCHANGED rows
             /\ snapshot' = [snapshot EXCEPT !.missed = @ \/ refiller.retired]
    <3>1. snapshot' \in Snapshot
      BY <2>1 DEF Snapshot, RefillTask
    <3> QED BY <2>1, <3>1, <1>3, Faults
  <2>2. CASE /\ rows' = [i \in DOMAIN rows |->
                     IF i \in ready THEN [rows[i] EXCEPT !.status = "retired", !.body = Blank]
                     ELSE rows[i]]
             /\ refiller' = [refiller EXCEPT !.pc = next, !.retired = @ \/ ready # {}]
             /\ UNCHANGED <<snapshot, boardFaults>>
    <3>1. refiller' \in RefillTask /\ refiller'.tiers = refiller.tiers
      BY <2>2, <1>5 DEF RefillTask
    <3>2. DOMAIN rows' = DOMAIN rows /\ \A i \in DOMAIN rows' : rows'[i] \in BoardRow
      BY <2>2, ZenonT(30) DEF BoardRow
    <3> QED BY <2>2, <3>1, <3>2, <1>5
  <2> QED BY <1>5, <2>1, <2>2 DEF retire
<1>6. CASE RetireAged
  BY <1>1, <1>6, <1>5 DEF Kept, RetireAged
<1>7. CASE RetireSolved
  BY <1>1, <1>7, <1>5 DEF Kept, RetireSolved
<1>8. CASE plan_tier
  <2>1. Tier \in Range(BoardTiers)
    BY <1>8, HeadTailProperties DEF plan_tier, Tier, RefillTask
  <2>2. refiller.at \in Nat /\ refiller.cap \in Nat
    BY DEF RefillTask
  <2>3. fresh_ids(Tier, refiller.at, refiller.cap) \subseteq Ids
    BY <2>1, <2>2, FreshIds
  <2>4. refiller' \in RefillTask /\ refiller'.tiers = refiller.tiers
    BY <1>8, <2>3 DEF plan_tier, RefillTask
  <2> QED BY <1>1, <1>8, <2>4 DEF Kept, plan_tier
<1>9. CASE TierDone
  <2>1. refiller.tiers \in Seq(Range(BoardTiers)) /\ refiller.tiers # <<>>
    BY <1>9 DEF TierDone, RefillTask
  <2>2. Tail(refiller.tiers) \in Seq(Range(BoardTiers))
        /\ (Len(refiller.tiers) # 1 => Tail(refiller.tiers) # <<>>)
    <3>1. Tail(refiller.tiers) \in Seq(Range(BoardTiers))
          /\ Len(Tail(refiller.tiers)) = Len(refiller.tiers) - 1
      BY <2>1, HeadTailProperties
    <3>2. Len(refiller.tiers) \in Nat /\ Len(<<>>) = 0
      BY <2>1, LenProperties, EmptySeq
    <3> HIDE DEF BoardIInv, BoardShapes
    <3>3. Len(refiller.tiers) # 1 => Len(Tail(refiller.tiers)) # 0
      BY <3>1, <3>2
    <3> QED BY <3>1, <3>2, <3>3
  <2>3. \A tiers : refill_tier(tiers).tiers = tiers
    BY DEF refill_tier, Resting
  <2>4. refiller' \in RefillTask /\ (refiller'.pc # "idle" => refiller'.tiers # <<>>)
    <3>1. CASE Len(refiller.tiers) = 1
      <4>1. refiller' = Resting
        BY <1>9, <3>1 DEF TierDone
      <4> QED BY <4>1, <1>3
    <3>2. CASE Len(refiller.tiers) # 1
      <4>1. refiller' = refill_tier(Tail(refiller.tiers))
        BY <1>9, <3>2 DEF TierDone
      <4> HIDE DEF BoardIInv, BoardShapes
      <4>2. refill_tier(Tail(refiller.tiers)) \in RefillTask
        BY <2>2, <1>2, Zenon
      <4>3. refill_tier(Tail(refiller.tiers)).tiers = Tail(refiller.tiers)
        BY <2>3
      <4>4. Tail(refiller.tiers) # <<>>
        BY <2>2, <3>2
      <4> QED BY <4>1, <4>2, <4>3, <4>4, Zenon
    <3> QED BY <3>1, <3>2
  <2> QED BY <1>1, <1>9, <2>4 DEF Kept, TierDone
<1>10. CASE PassFails
  BY <1>1, <1>10, <1>3, Faults DEF Kept, PassFails
<1> QED BY <1>4, <1>6, <1>7, <1>8, <1>9, <1>10

LEMMA MintTyped ==
    ASSUME BoardIInv,
           mint_one \/ LocalMint \/ GeneratorFailed \/ generator_lease \/ FetchAndConfirm
              \/ commit_challenge \/ Invalidate \/ cnf_put_on_mint \/ StampUpdatedAt
    PROVE  BoardShapes'
<1> USE BoardAssumption DEF BoardIInv, BoardShapes
<1>1. Next1 \in RefillTask /\ Next1.tiers = refiller.tiers
  BY DEF Next1, RefillTask
<1>2. ASSUME NEW pc \in {"fetch", "failed", "commit", "written", "put", "stamp"}
      PROVE  /\ [refiller EXCEPT !.pc = pc] \in RefillTask
             /\ [refiller EXCEPT !.pc = pc].tiers = refiller.tiers
             /\ \A b \in Bodies \cup {NONE} :
                   /\ [refiller EXCEPT !.pc = pc, !.body = b] \in RefillTask
                   /\ [refiller EXCEPT !.pc = pc, !.body = b].tiers = refiller.tiers
  BY DEF RefillTask, MintSteps
<1>3. refiller.pc \in MintSteps => refiller.id \in Ids
  BY DEF MintsFit
<1>0. ASSUME CommitFails PROVE refiller' \in RefillTask /\ refiller'.tiers = refiller.tiers
  <2>1. [refiller EXCEPT !.pc = "failed", !.body = NONE] \in RefillTask
        /\ [refiller EXCEPT !.pc = "failed", !.body = NONE].tiers = refiller.tiers
    BY DEF RefillTask, MintSteps
  <2> QED BY <1>0, <1>1, <2>1 DEF CommitFails
<1>4. CASE mint_one
  <2>1. PICK id \in refiller.work :
          refiller' = [refiller EXCEPT !.work = @ \ {id},
               !.id = IF boardConf.generator = "unconfigured" THEN NONE ELSE id,
               !.pc = CASE boardConf.generator = "on"  -> "lease"
                        [] boardConf.generator = "off" -> "local"
                        [] OTHER -> "mint"]
    BY <1>4 DEF mint_one
  <2>2. id \in Ids
    BY <2>1 DEF RefillTask
  <2>3. refiller' \in RefillTask /\ refiller'.tiers = refiller.tiers /\ refiller.pc # "idle"
    BY <1>4, <2>1, <2>2 DEF RefillTask, MintSteps, mint_one
  <2> QED BY <1>4, <2>3 DEF mint_one
<1>5. CASE LocalMint
  <2>1. refiller.pc = "local" /\ Tier \in Range(BoardTiers) /\ refiller.id \in Ids
    BY <1>5, <1>3, HeadTailProperties DEF LocalMint, Tier, RefillTask, MintSteps
  <2>2. seeded(refiller.id) \in Bodies
    BY <2>1 DEF seeded, Bodies
  <2>3. CASE pregen[Tier] = <<>> /\ gen_cnf(refiller.id) /\ UNCHANGED pregen
    <3>1. refiller' = [refiller EXCEPT !.pc = "commit", !.body = seeded(refiller.id)]
      BY <2>3 DEF gen_cnf, gen_cnf_fork
    <3>2. forkOk' \in BOOLEAN /\ boardFaults' \in 0..MaxBoardFaults
      BY <2>3, Faults DEF gen_cnf, gen_cnf_fork
    <3>3. refiller' \in RefillTask /\ refiller'.tiers = refiller.tiers
      BY <3>1, <2>2, <1>2
    <3> QED BY <1>5, <2>1, <2>3, <3>2, <3>3 DEF LocalMint
  <2>4. CASE pregen[Tier] # <<>>
    <3>1. /\ refiller' = [refiller EXCEPT !.pc = "commit", !.body = Head(pregen[Tier])]
          /\ pregen' = [pregen EXCEPT ![Tier] = Tail(@)] /\ UNCHANGED <<forkOk, boardFaults>>
      BY <1>5, <2>4 DEF LocalMint, get_pregen_cnf
    <3>2. Head(pregen[Tier]) \in Pregenerated /\ Tail(pregen[Tier]) \in Seq(Pregenerated)
      <4>1. pregen[Tier] \in Seq(Pregenerated)
        BY <2>1
      <4> QED BY <4>1, <2>4, HeadTailProperties
    <3>3. Head(pregen[Tier]) \in Bodies
      BY <3>2 DEF Bodies
    <3>4. refiller' \in RefillTask /\ refiller'.tiers = refiller.tiers
      BY <3>1, <3>3, <1>2
    <3>5. pregen' \in [Range(BoardTiers) -> Seq(Pregenerated)]
      BY <3>1, <3>2
    <3> QED BY <1>5, <2>1, <3>1, <3>4, <3>5 DEF LocalMint
  <2> QED BY <1>5, <2>3, <2>4 DEF LocalMint, get_pregen_cnf
<1>6. CASE GeneratorFailed
  <2>1. [refiller EXCEPT !.pc = "local"] \in RefillTask
        /\ [refiller EXCEPT !.pc = "local"].tiers = refiller.tiers
    BY DEF RefillTask, MintSteps
  <2> QED BY <1>6, <1>1, <2>1 DEF GeneratorFailed
<1>7. CASE generator_lease
  <2>1. refiller' \in RefillTask /\ refiller'.tiers = refiller.tiers
    BY <1>7, <1>2 DEF generator_lease
  <2>2. \A i \in DOMAIN leases' : leases'[i] \in Lease
    BY <1>7, SMTT(30) DEF generator_lease, Lease, Bodies
  <2>3. bodies' \in 0..MaxMints /\ boardFaults' \in 0..MaxBoardFaults
    <3>1. boardFaults' = boardFaults \/ Fault
      BY <1>7 DEF generator_lease
    <3>2. bodies' = bodies \/ (bodies < MaxMints /\ bodies' = bodies + 1)
      BY <1>7 DEF generator_lease
    <3>3. bodies \in 0..MaxMints /\ boardFaults \in 0..MaxBoardFaults /\ MaxMints \in Nat
      BY BoardAssumption DEF BoardIInv, BoardShapes
    <3>4. bodies' \in 0..MaxMints
      BY <3>2, <3>3, SMTT(30)
    <3>5. boardFaults' \in 0..MaxBoardFaults
      BY <3>1, <3>3, Faults
    <3> QED BY <3>4, <3>5
  <2> QED BY <1>7, <2>1, <2>2, <2>3 DEF generator_lease
<1>8. CASE FetchAndConfirm
  <2>1. refiller.id \in DOMAIN leases /\ leases[refiller.id].body \in Bodies
    BY <1>8 DEF FetchAndConfirm, MintsFit, Lease
  <2>2. refiller' \in RefillTask /\ refiller'.tiers = refiller.tiers
    <3>1. \/ refiller' = [refiller EXCEPT !.pc = "commit", !.body = leases[refiller.id].body]
          \/ refiller' = [refiller EXCEPT !.pc = "failed"]
      BY <1>8 DEF FetchAndConfirm, generator_text
    <3>2. CASE refiller' = [refiller EXCEPT !.pc = "commit", !.body = leases[refiller.id].body]
      <4> DEFINE b == leases[refiller.id].body
      <4>1. b \in Bodies \cup {NONE}
        BY <2>1
      <4> HIDE DEF b, BoardIInv, BoardShapes
      <4>2. /\ [refiller EXCEPT !.pc = "commit", !.body = b] \in RefillTask
            /\ [refiller EXCEPT !.pc = "commit", !.body = b].tiers = refiller.tiers
        BY <4>1, <1>2
      <4> QED BY <3>2, <4>2 DEF b
    <3> QED BY <3>1, <3>2, <1>2
  <2>3. \A i \in DOMAIN leases' : leases'[i] \in Lease
    <3>1. \/ leases' = [leases EXCEPT ![refiller.id].state = "confirmed"]
          \/ leases' = [leases EXCEPT ![refiller.id].state = "released"]
          \/ leases' = leases
      BY <1>8 DEF FetchAndConfirm, release_generator_lease
    <3>2. ASSUME NEW state \in {"confirmed", "released"},
                 leases' = [leases EXCEPT ![refiller.id].state = state]
          PROVE  \A i \in DOMAIN leases' : leases'[i] \in Lease
      <4>1. DOMAIN leases' = DOMAIN leases
        BY <3>2
      <4>2. ASSUME NEW i \in DOMAIN leases PROVE leases'[i] \in Lease
        <5>1. leases'[i] = leases[i] \/ leases'[i] = [leases[i] EXCEPT !.state = state]
          BY <3>2
        <5> QED BY <5>1 DEF Lease
      <4> QED BY <4>1, <4>2
    <3> QED BY <3>1, <3>2
  <2>4. boardFaults' \in 0..MaxBoardFaults
    BY <1>8, Faults DEF FetchAndConfirm
  <2> QED BY <1>8, <2>2, <2>3, <2>4 DEF FetchAndConfirm
<1>9. CASE commit_challenge
  <2>1. refiller.id \in Ids /\ refiller.body \in Bodies
    BY <1>9, <1>3 DEF commit_challenge, MintsFit, MintSteps
  <2>2. refiller' \in RefillTask /\ refiller'.tiers = refiller.tiers
    BY <1>9, <1>0, <1>2 DEF commit_challenge
  <2>3. ASSUME seed_challenge(refiller.id, refiller.body)
        PROVE  /\ IsFiniteSet(DOMAIN rows') /\ DOMAIN rows' \subseteq Ids
               /\ \A i \in DOMAIN rows' : rows'[i] \in BoardRow
    <3> DEFINE old == IF refiller.id \in DOMAIN rows THEN rows[refiller.id].solvers ELSE 0
               row == [status |-> "active", body |-> refiller.body, created |-> hour, solvers |-> old]
    <3>1. /\ DOMAIN rows' = DOMAIN rows \cup {refiller.id}
          /\ \A i \in DOMAIN rows' : rows'[i] = IF i = refiller.id THEN row ELSE rows[i]
      BY <2>3 DEF seed_challenge
    <3>2. IsFiniteSet(DOMAIN rows') /\ DOMAIN rows' \subseteq Ids
      <4>1. IsFiniteSet(DOMAIN rows \cup {refiller.id})
        BY FS_AddElement
      <4> QED BY <3>1, <2>1, <4>1
    <3>3. hour \in Nat
      OBVIOUS
    <3>4. old \in Nat
      BY DEF BoardRow
    <3> HIDE DEF old
    <3>5. row \in BoardRow
      BY <3>3, <3>4, <2>1 DEF BoardRow
    <3> HIDE DEF row
    <3>6. \A i \in DOMAIN rows' : rows'[i] \in BoardRow
      BY <3>1, <3>5
    <3> QED BY <3>2, <3>6, Zenon
  <2>4. /\ IsFiniteSet(DOMAIN rows') /\ DOMAIN rows' \subseteq Ids
        /\ \A i \in DOMAIN rows' : rows'[i] \in BoardRow
    BY <1>9, <2>3 DEF commit_challenge
  <2>5. boardFaults' \in 0..MaxBoardFaults
    BY <1>9, Faults DEF commit_challenge
  <2> QED BY <1>9, <2>2, <2>4, <2>5 DEF commit_challenge
<1>10. CASE Invalidate
  <2>1. refiller' \in RefillTask /\ refiller'.tiers = refiller.tiers
    BY <1>10 DEF Invalidate, RefillTask, MintSteps
  <2>2. snapshot' \in Snapshot
    BY <1>10 DEF Invalidate, invalidate_all, Snapshot
  <2> QED BY <1>10, <2>1, <2>2 DEF Invalidate
<1>11. CASE cnf_put_on_mint
  <2>1. refiller' \in RefillTask /\ refiller'.tiers = refiller.tiers
    BY <1>11, <1>2 DEF cnf_put_on_mint
  <2>2. boardFaults' \in 0..MaxBoardFaults
    BY <1>11, Faults DEF cnf_put_on_mint
  <2> QED BY <1>11, <2>1, <2>2 DEF cnf_put_on_mint
<1>12. CASE StampUpdatedAt
  <2>1. refiller' \in RefillTask /\ refiller'.tiers = refiller.tiers
    BY <1>12, <1>0, <1>1 DEF StampUpdatedAt
  <2>2. boardFaults' \in 0..MaxBoardFaults
    BY <1>12, Faults DEF StampUpdatedAt
  <2> QED BY <1>12, <2>1, <2>2 DEF StampUpdatedAt
<1> QED BY <1>4, <1>5, <1>6, <1>7, <1>8, <1>9, <1>10, <1>11, <1>12

LEMMA ServingTyped ==
    ASSUME BoardIInv,
           \/ \E t \in Range(BoardTiers) : pregen_worker(t)
           \/ BoardRead \/ StartRebuild \/ EndRebuild \/ BoardTtlLapses
           \/ \E s \in BoardServers, i \in DOMAIN rows : serve(s, i)
           \/ \E i \in DOMAIN rows : Solve(i)
           \/ HourPasses \/ BoardRestart \/ UNCHANGED boardVars
    PROVE  BoardShapes'
<1> USE BoardAssumption DEF BoardIInv, BoardShapes
<1>1. CASE \E t \in Range(BoardTiers) : pregen_worker(t)
  <2>1. PICK t \in Range(BoardTiers) : pregen_worker(t)
    BY <1>1
  <2>2. bodies \in Nat /\ bodies' \in 0..MaxMints
    <3>1. bodies \in Nat /\ MaxMints \in Nat
      OBVIOUS
    <3>2. bodies < MaxMints /\ bodies' = bodies + 1
      BY <2>1 DEF pregen_worker
    <3> QED BY <3>1, <3>2
  <2> DEFINE b == <<"pregen", bodies>>
  <2>3. b \in Pregenerated /\ pregen[t] \in Seq(Pregenerated)
    BY <2>2 DEF Pregenerated
  <2> HIDE DEF b
  <2>4. Append(pregen[t], b) \in Seq(Pregenerated)
    BY <2>3, AppendProperties
  <2>5. pregen' = [pregen EXCEPT ![t] = Append(pregen[t], b)]
    BY <2>1 DEF pregen_worker, b
  <2>6. pregen' \in [Range(BoardTiers) -> Seq(Pregenerated)]
    BY <2>4, <2>5
  <2> QED BY <2>1, <2>2, <2>6 DEF pregen_worker
<1>2. ActiveBoard \subseteq Ids
  BY DEF ActiveBoard
<1>3. CASE BoardRead \/ StartRebuild \/ EndRebuild \/ BoardTtlLapses
  <2>1. snapshot' \in Snapshot
    <3>1. CASE BoardRead \/ EndRebuild \/ BoardTtlLapses
      BY <3>1 DEF BoardRead, EndRebuild, BoardTtlLapses, Snapshot
    <3>2. CASE StartRebuild
      BY <1>2, <3>2 DEF StartRebuild, rebuild_locked, Snapshot
    <3> QED BY <1>3, <3>1, <3>2
  <2> QED BY <1>3, <2>1 DEF BoardRead, StartRebuild, EndRebuild, BoardTtlLapses
<1>4. CASE \E s \in BoardServers, i \in DOMAIN rows : serve(s, i)
  BY <1>4 DEF serve
<1>5. CASE \E i \in DOMAIN rows : Solve(i)
  <2>1. PICK id \in DOMAIN rows : Solve(id)
    BY <1>5
  <2>2. DOMAIN rows' = DOMAIN rows /\ rows' = [rows EXCEPT ![id].solvers = @ + 1]
    BY <2>1 DEF Solve
  <2>3. ASSUME NEW i \in DOMAIN rows PROVE rows'[i] \in BoardRow
    <3>1. rows[i] \in BoardRow
      OBVIOUS
    <3>2. rows'[i] = rows[i] \/ rows'[i] = [rows[i] EXCEPT !.solvers = @ + 1]
      BY <2>2
    <3> HIDE DEF BoardIInv, BoardShapes
    <3>3. ASSUME NEW row \in BoardRow PROVE [row EXCEPT !.solvers = @ + 1] \in BoardRow
      <4>1. PICK st, bo, cr, so : /\ row = [status |-> st, body |-> bo, created |-> cr, solvers |-> so]
                                  /\ st \in {"active", "retired"} /\ bo \in Bodies \cup {Blank}
                                  /\ cr \in Nat /\ so \in Nat
        BY DEF BoardRow
      <4>2. [row EXCEPT !.solvers = @ + 1]
              = [status |-> st, body |-> bo, created |-> cr, solvers |-> so + 1]
        BY <4>1
      <4>3. so + 1 \in Nat
        BY <4>1
      <4> QED BY <4>1, <4>2, <4>3 DEF BoardRow
    <3> QED BY <3>1, <3>2, <3>3
  <2> QED BY <2>1, <2>2, <2>3 DEF Solve
<1>6. CASE HourPasses
  BY <1>6 DEF HourPasses
<1>7. CASE BoardRestart
  <2>1. refiller' \in RefillTask /\ refiller'.pc = "idle"
    BY <1>7 DEF BoardRestart, Resting, RefillTask
  <2>2. snapshot' \in Snapshot
    BY <1>7 DEF BoardRestart, Cold, Snapshot
  <2>3. pregen' \in [Range(BoardTiers) -> Seq(Pregenerated)]
    BY <1>7, EmptySeq DEF BoardRestart
  <2>4. boardFaults' \in 0..MaxBoardFaults
    BY <1>7, Faults DEF BoardRestart
  <2> QED BY <1>7, <2>1, <2>2, <2>3, <2>4 DEF BoardRestart
<1>8. CASE UNCHANGED boardVars
  BY <1>8 DEF boardVars
<1> QED BY <1>1, <1>3, <1>4, <1>5, <1>6, <1>7, <1>8

----------------------------------------------------------------------------
\* A pass leaves what it has yet to mint without a row.
LEMMA MintsStay ==
    ASSUME BoardIInv, BoardNext PROVE MintsFit'
<1> USE DEF BoardIInv, MintsFit
<1>1. refiller'.pc \notin MintSteps /\ refiller'.work \cap DOMAIN rows' = {} => MintsFit'
  BY DEF MintSteps
<1>2. CASE refill_once_async \/ TierDone \/ PassFails \/ BoardRestart
  <2>1. Resting.pc = "idle" /\ Resting.work = {}
        /\ \A tiers : refill_tier(tiers).pc = "age" /\ refill_tier(tiers).work = {}
    BY DEF refill_tier, Resting
  <2>2. refiller'.pc \in {"idle", "age"} /\ refiller'.work = {}
    BY <1>2, <2>1 DEF refill_once_async, TierDone, PassFails, BoardRestart
  <2> QED BY <1>1, <2>2 DEF MintSteps
<1>3. CASE RetireAged \/ RetireSolved
  <2>1. refiller'.work \subseteq refiller.work /\ refiller'.pc \notin MintSteps
    <3>1. PICK ready, next : retire(ready, next) /\ next \in {"solved", "announce", "plan"}
      <4>1. CASE RetireAged
        BY <4>1 DEF RetireAged
      <4>2. CASE RetireSolved
        <5> DEFINE next == IF refiller.retired \/ \E i \in Active(Tier) : rows[i].solvers >= Saturated
                           THEN "announce" ELSE "plan"
        <5>1. next \in {"solved", "announce", "plan"}
          OBVIOUS
        <5>2. \E ready : retire(ready, next)
          BY <4>2 DEF RetireSolved
        <5> HIDE DEF next
        <5> QED BY <5>1, <5>2
      <4> QED BY <1>3, <4>1, <4>2
    <3>2. CASE refiller' = Resting
      BY <3>2 DEF Resting, MintSteps
    <3>3. CASE refiller' = [refiller EXCEPT !.pc = next, !.retired = @ \/ ready # {}]
      BY <3>1, <3>3 DEF MintSteps, BoardShapes, RefillTask
    <3> QED BY <3>1, <3>2, <3>3 DEF retire
  <2>2. DOMAIN rows' = DOMAIN rows
    BY <1>3 DEF RetireAged, RetireSolved, retire
  <2> QED BY <1>1, <2>1, <2>2
<1>4. CASE plan_tier
  <2>1. Tier \in Range(BoardTiers) /\ refiller.at \in Nat /\ refiller.cap \in Nat
    BY <1>4, HeadTailProperties DEF plan_tier, Tier, BoardShapes, RefillTask
  <2>2. refiller'.work \cap DOMAIN rows = {}
    BY <1>4, <2>1, FreshIds DEF plan_tier, BoardShapes, RefillTask
  <2>3. refiller'.pc \notin MintSteps /\ rows' = rows
    BY <1>4 DEF plan_tier, MintSteps, BoardShapes, RefillTask
  <2> QED BY <1>1, <2>2, <2>3
<1>5. CASE mint_one
  <2>1. PICK id \in refiller.work :
          refiller' = [refiller EXCEPT !.work = @ \ {id},
               !.id = IF boardConf.generator = "unconfigured" THEN NONE ELSE id,
               !.pc = CASE boardConf.generator = "on"  -> "lease"
                        [] boardConf.generator = "off" -> "local"
                        [] OTHER -> "mint"]
    BY <1>5 DEF mint_one
  <2>2. id \in Ids \ DOMAIN rows /\ rows' = rows /\ boardConf' = boardConf
    BY <1>5, <2>1 DEF BoardShapes, RefillTask, mint_one
  <2>3. refiller'.work = refiller.work \ {id} /\ refiller'.pc \in {"lease", "local", "mint"}
        /\ (refiller'.pc = "lease" => boardConf.generator = "on")
        /\ (refiller'.pc \in {"lease", "local"} => refiller'.id = id)
    BY <2>1 DEF BoardShapes, RefillTask
  <2> QED BY <2>2, <2>3 DEF MintSteps
<1>6. Next1.pc = "mint" /\ Next1.work = refiller.work
  BY DEF Next1, BoardShapes, RefillTask
<1>7. ASSUME CommitFails, refiller.pc \in {"commit", "stamp"}, UNCHANGED <<rows, boardConf>>
      PROVE  MintsFit'
  <2>1. CASE refiller' = Next1
    BY <1>1, <1>6, <1>7, <2>1 DEF MintSteps
  <2>2. CASE refiller' = [refiller EXCEPT !.pc = "failed", !.body = NONE]
             /\ refiller.body[1] = "generator"
    <3>1. refiller'.pc = "failed" /\ refiller'.work = refiller.work /\ refiller'.id = refiller.id
      BY <2>2 DEF BoardShapes, RefillTask
    <3> QED BY <1>7, <2>2, <3>1 DEF MintSteps
  <2> QED BY <1>7, <2>1, <2>2 DEF CommitFails
<1>8. ASSUME NEW pc \in MintSteps, refiller.pc \in MintSteps,
             UNCHANGED <<rows, boardConf>>, DOMAIN leases \subseteq DOMAIN leases',
             \/ pc = "local" /\ (~MintsTwice => refiller.id \notin DOMAIN rows)
             \/ pc = "fetch" /\ refiller.pc = "lease" /\ refiller.id \in DOMAIN leases'
             \/ pc = "failed" /\ refiller.pc \in {"lease", "fetch"}
             \/ pc = "put" /\ refiller.pc = "written"
             \/ pc = "stamp" /\ refiller.pc = "put",
             \/ refiller' = [refiller EXCEPT !.pc = pc]
             \/ refiller' = [refiller EXCEPT !.pc = pc, !.retired = FALSE]
      PROVE  MintsFit'
  <2>1. /\ refiller'.pc = pc /\ refiller'.work = refiller.work /\ refiller'.id = refiller.id
        /\ refiller'.body = refiller.body
    BY <1>8 DEF BoardShapes, RefillTask
  <2> QED BY <1>8, <2>1 DEF MintSteps, MintsTwice
<1>9. ASSUME refiller.pc \in {"local", "fetch"}, NEW body \in Bodies,
             body[1] = "generator" => boardConf.generator = "on",
             refiller' = [refiller EXCEPT !.pc = "commit", !.body = body],
             UNCHANGED <<rows, boardConf>>
      PROVE  MintsFit'
  <2>1. /\ refiller'.pc = "commit" /\ refiller'.work = refiller.work /\ refiller'.id = refiller.id
        /\ refiller'.body = body
    BY <1>9 DEF BoardShapes, RefillTask
  <2> QED BY <1>9, <2>1 DEF MintSteps, MintsTwice
<1>10. CASE LocalMint
  <2>1. refiller.pc = "local" /\ refiller.id \in Ids /\ Tier \in Range(BoardTiers)
    BY <1>10, HeadTailProperties DEF LocalMint, BoardShapes, RefillTask, MintSteps, Tier
  <2>2. CASE pregen[Tier] = <<>> /\ gen_cnf(refiller.id)
    <3> DEFINE b == seeded(refiller.id)
    <3>1. refiller' = [refiller EXCEPT !.pc = "commit", !.body = b]
      BY <2>2 DEF gen_cnf, gen_cnf_fork
    <3>2. b \in Bodies /\ b[1] # "generator"
      BY <2>1 DEF seeded, Bodies
    <3> HIDE DEF b
    <3> QED BY <1>9, <1>10, <2>1, <3>1, <3>2 DEF LocalMint
  <2>3. CASE pregen[Tier] # <<>>
    <3> DEFINE b == Head(pregen[Tier])
    <3>1. refiller' = [refiller EXCEPT !.pc = "commit", !.body = b]
      BY <1>10, <2>3 DEF LocalMint, get_pregen_cnf
    <3>2. b \in Pregenerated
      <4>1. pregen[Tier] \in Seq(Pregenerated)
        BY <2>1 DEF BoardShapes
      <4> QED BY <4>1, <2>3, HeadTailProperties
    <3>3. b \in Bodies /\ b[1] # "generator"
      BY <3>2 DEF Bodies, Pregenerated
    <3> HIDE DEF b
    <3> QED BY <1>9, <1>10, <2>1, <3>1, <3>3 DEF LocalMint
  <2> QED BY <1>10, <2>2, <2>3 DEF LocalMint, get_pregen_cnf
<1>11. CASE GeneratorFailed
  <2>1. CASE boardConf.fallback
    BY <1>8, <1>11, <2>1 DEF GeneratorFailed, MintSteps, MintsTwice
  <2>2. CASE ~boardConf.fallback
    BY <1>1, <1>6, <1>11, <2>2 DEF GeneratorFailed, MintSteps
  <2> QED BY <2>1, <2>2
<1>12. CASE generator_lease
  <2>1. DOMAIN leases \subseteq DOMAIN leases'
    BY <1>12 DEF generator_lease
  <2>2. \/ refiller' = [refiller EXCEPT !.pc = "fetch"] /\ refiller.id \in DOMAIN leases'
        \/ refiller' = [refiller EXCEPT !.pc = "failed"]
    BY <1>12 DEF generator_lease
  <2>3. refiller.pc = "lease" /\ UNCHANGED <<rows, boardConf>>
    BY <1>12 DEF generator_lease
  <2> QED BY <1>8, <2>1, <2>2, <2>3 DEF MintSteps
<1>13. CASE FetchAndConfirm
  <2>1. refiller.pc = "fetch" /\ UNCHANGED <<rows, boardConf>> /\ DOMAIN leases' = DOMAIN leases
    BY <1>13 DEF FetchAndConfirm, release_generator_lease
  <2> DEFINE b == leases[refiller.id].body
  <2>2. b \in Bodies /\ boardConf.generator = "on"
    BY <2>1 DEF BoardShapes, Lease
  <2>3. \/ refiller' = [refiller EXCEPT !.pc = "commit", !.body = b]
        \/ refiller' = [refiller EXCEPT !.pc = "failed"]
    BY <1>13 DEF FetchAndConfirm, generator_text
  <2> HIDE DEF b
  <2> QED BY <1>8, <1>9, <2>1, <2>2, <2>3 DEF MintSteps
<1>14. CASE commit_challenge
  <2>1. CASE seed_challenge(refiller.id, refiller.body)
             /\ refiller' = [refiller EXCEPT !.pc = "written"]
    <3>1. refiller.id \in Ids \ refiller.work /\ refiller.body \in Bodies
          /\ (refiller.body[1] = "generator" => boardConf.generator = "on")
      BY <1>14 DEF commit_challenge, MintSteps
    <3>2. DOMAIN rows' = DOMAIN rows \cup {refiller.id} /\ rows'[refiller.id].body = refiller.body
      BY <2>1 DEF seed_challenge
    <3>3. /\ refiller'.pc = "written" /\ refiller'.work = refiller.work /\ refiller'.id = refiller.id
          /\ refiller'.body = refiller.body
      BY <2>1 DEF BoardShapes, RefillTask
    <3> QED BY <1>14, <3>1, <3>2, <3>3 DEF commit_challenge, MintSteps
  <2> QED BY <1>7, <1>14, <2>1 DEF commit_challenge
<1>15. CASE Invalidate
  <2>1. CASE refiller.pc = "written"
    <3>1. refiller' = [refiller EXCEPT !.pc = "put", !.retired = FALSE]
      BY <1>15, <2>1 DEF Invalidate
    <3> QED BY <1>8, <1>15, <2>1, <3>1 DEF Invalidate, MintSteps
  <2>2. CASE refiller.pc = "announce"
    <3>1. refiller'.pc = "plan" /\ refiller'.work = refiller.work /\ rows' = rows
      BY <1>15, <2>2 DEF Invalidate, BoardShapes, RefillTask
    <3> QED BY <1>1, <3>1 DEF MintSteps
  <2> QED BY <1>15, <2>1, <2>2 DEF Invalidate
<1>16. CASE cnf_put_on_mint
  BY <1>8, <1>16 DEF cnf_put_on_mint, MintSteps
<1>17. CASE StampUpdatedAt
  <2>1. CASE refiller' = Next1
    BY <1>1, <1>6, <1>17, <2>1 DEF StampUpdatedAt, MintSteps
  <2> QED BY <1>7, <1>17, <2>1 DEF StampUpdatedAt
<1>18. CASE \/ \E t \in Range(BoardTiers) : pregen_worker(t)
            \/ BoardRead \/ StartRebuild \/ EndRebuild \/ BoardTtlLapses
            \/ \E s \in BoardServers, i \in DOMAIN rows : serve(s, i)
            \/ HourPasses
  <2>1. UNCHANGED <<refiller, rows, leases, boardConf>>
    BY <1>18 DEF pregen_worker, BoardRead, StartRebuild, EndRebuild, BoardTtlLapses, serve, HourPasses
  <2> QED BY <2>1 DEF MintsTwice
<1>19. CASE \E i \in DOMAIN rows : Solve(i)
  <2>1. PICK id \in DOMAIN rows : Solve(id)
    BY <1>19
  <2>2. /\ UNCHANGED <<refiller, leases, boardConf>> /\ DOMAIN rows' = DOMAIN rows
        /\ \A i \in DOMAIN rows : rows'[i].body = rows[i].body
    BY <2>1 DEF Solve, BoardShapes, BoardRow
  <2> QED BY <2>2 DEF MintsTwice
<1> QED BY <1>2, <1>3, <1>4, <1>5, <1>10, <1>11, <1>12, <1>13, <1>14, <1>15, <1>16, <1>17,
           <1>18, <1>19 DEF BoardNext

----------------------------------------------------------------------------
\* A copy stays one: only the id that is committed gets a body.
LEMMA CopiesStayFit ==
    ASSUME BoardIInv, BoardNext PROVE CopiesFit'
<1> USE DEF BoardIInv, CopiesFit
<1>1. ASSUME \A id, body : Fits(id, body) => Fits(id, body)',
             \A m \in Seq(Copies) : m \in Seq(Copies')
      PROVE  UNCHANGED <<objects, memory>> => CopiesFit'
  BY <1>1
<1>2. ASSUME UNCHANGED <<rows, boardConf>>
      PROVE  /\ \A id, body : Fits(id, body) => Fits(id, body)'
             /\ \A m \in Seq(Copies) : m \in Seq(Copies')
  BY <1>2, CopiesStay
<1>3. CASE \/ refill_once_async \/ plan_tier \/ TierDone \/ PassFails \/ mint_one \/ LocalMint
           \/ GeneratorFailed \/ generator_lease \/ FetchAndConfirm \/ Invalidate \/ StampUpdatedAt
           \/ \E t \in Range(BoardTiers) : pregen_worker(t)
           \/ BoardRead \/ StartRebuild \/ EndRebuild \/ BoardTtlLapses \/ HourPasses
  <2>1. UNCHANGED <<rows, boardConf, objects, memory>>
    BY <1>3 DEF refill_once_async, plan_tier, TierDone, PassFails, mint_one, LocalMint,
         GeneratorFailed, generator_lease, FetchAndConfirm, Invalidate, StampUpdatedAt,
         pregen_worker, BoardRead, StartRebuild, EndRebuild, BoardTtlLapses, HourPasses
  <2> QED BY <1>1, <1>2, <2>1
<1>4. CASE RetireAged \/ RetireSolved
  <2>1. PICK ready, next : retire(ready, next)
    BY <1>4 DEF RetireAged, RetireSolved
  <2>2. UNCHANGED <<boardConf, objects, memory>>
    BY <1>4 DEF RetireAged, RetireSolved
  <2>3. DOMAIN rows' = DOMAIN rows /\ \A i \in DOMAIN rows : rows'[i].status = "active" => rows'[i] = rows[i]
    <3>1. CASE UNCHANGED rows
      BY <3>1
    <3>2. CASE rows' = [i \in DOMAIN rows |->
                     IF i \in ready THEN [rows[i] EXCEPT !.status = "retired", !.body = Blank]
                     ELSE rows[i]]
      BY <3>2 DEF BoardShapes, BoardRow
    <3> QED BY <2>1, <3>1, <3>2 DEF retire
  <2> QED BY <1>1, <2>2, <2>3, CopiesStay
<1>5. CASE commit_challenge
  <2>1. CASE seed_challenge(refiller.id, refiller.body)
    <3>1. DOMAIN rows' = DOMAIN rows \cup {refiller.id}
          /\ \A i \in DOMAIN rows : i # refiller.id => rows'[i] = rows[i]
      BY <2>1 DEF seed_challenge
    <3>2. ~MintsTwice => refiller.id \notin DOMAIN rows
      BY <1>5 DEF commit_challenge, MintsFit
    <3>3. UNCHANGED <<boardConf, objects, memory>>
      BY <1>5 DEF commit_challenge
    <3>4. \A i \in DOMAIN rows : ~MintsTwice => rows'[i] = rows[i]
      BY <3>1, <3>2
    <3>5. DOMAIN rows \subseteq DOMAIN rows'
      BY <3>1
    <3> QED BY <1>1, <3>3, <3>4, <3>5, CopiesStay
  <2> QED BY <1>1, <1>2, <1>5, <2>1 DEF commit_challenge
<1>6. CASE cnf_put_on_mint
  <2>1. UNCHANGED <<rows, boardConf, memory>>
    BY <1>6 DEF cnf_put_on_mint
  <2>2. refiller.id \in DOMAIN rows /\ rows[refiller.id].body = refiller.body
    BY <1>6 DEF cnf_put_on_mint, MintsFit
  <2>3. \A i \in DOMAIN objects' : Fits(i, objects'[i])
    <3>1. Fits(refiller.id, refiller.body)
      BY <2>2 DEF Fits
    <3> QED BY <1>6, <3>1 DEF cnf_put_on_mint
  <2>4. \A id, body : Fits(id, body) => Fits(id, body)'
    BY <1>2, <2>1
  <2>5. (\A i \in DOMAIN objects : Fits(i, objects[i]))'
    BY <2>3, <2>4
  <2>6. memory' \in [BoardServers -> Seq(Copies')]
    BY <1>2, <2>1
  <2> QED BY <2>1, <2>5, <2>6
<1>7. CASE \E s \in BoardServers, i \in DOMAIN rows : serve(s, i)
  <2>1. PICK s \in BoardServers, id \in DOMAIN rows : serve(s, id)
    BY <1>7
  <2>2. UNCHANGED <<rows, boardConf, objects>>
    BY <2>1 DEF serve
  <2> DEFINE new == IF LruHas(memory[s], id) THEN lru_get(memory[s], id)
                    ELSE IF rows[id].body = Blank THEN memory[s]
                    ELSE lru_put(memory[s], id, rows[id].body)
  <2>3. memory' = [memory EXCEPT ![s] = new]
    BY <2>1 DEF serve
  <2>4. memory[s] \in Seq(Copies) /\ Len(memory[s]) <= CacheSize
    OBVIOUS
  <2>5. rows[id].body # Blank => <<id, rows[id].body>> \in Copies
    BY DEF BoardShapes, BoardRow, Copies, Fits
  <2>6. LruHas(memory[s], id) =>
          lru_get(memory[s], id) \in Seq(Copies) /\ Len(lru_get(memory[s], id)) = Len(memory[s])
    BY <2>4, LruKeeps
  <2>7. rows[id].body # Blank =>
          /\ lru_put(memory[s], id, rows[id].body) \in Seq(Copies)
          /\ Len(lru_put(memory[s], id, rows[id].body)) <= CacheSize
    BY <2>4, <2>5, LruKeeps
  <2>8. new \in Seq(Copies) /\ Len(new) <= CacheSize
    BY <2>4, <2>6, <2>7
  <2> HIDE DEF new
  <2>9. memory' \in [BoardServers -> Seq(Copies)] /\ \A t \in BoardServers : Len(memory'[t]) <= CacheSize
    BY <2>3, <2>8
  <2>10. memory' \in [BoardServers -> Seq(Copies')]
    BY <1>2, <2>2, <2>9
  <2>11. (\A i \in DOMAIN objects : Fits(i, objects[i]))'
    BY <1>2, <2>2
  <2> QED BY <2>9, <2>10, <2>11
<1>8. CASE \E i \in DOMAIN rows : Solve(i)
  <2>1. PICK id \in DOMAIN rows : Solve(id)
    BY <1>8
  <2>2. UNCHANGED <<boardConf, objects, memory>> /\ DOMAIN rows' = DOMAIN rows
    BY <2>1 DEF Solve
  <2>3. \A i \in DOMAIN rows : rows'[i].status = rows[i].status /\ rows'[i].body = rows[i].body
    BY <2>1 DEF Solve, BoardShapes, BoardRow
  <2> QED BY <1>1, <2>2, <2>3, CopiesStay
<1>9. CASE BoardRestart
  <2>1. UNCHANGED <<boardConf, objects, rows>> /\ memory' = [memory EXCEPT ![Refiller] = <<>>]
    BY <1>9 DEF BoardRestart
  <2>2. <<>> \in Seq(Copies) /\ Len(<<>>) = 0 /\ 0 <= CacheSize
    BY BoardAssumption, EmptySeq
  <2>3. memory' \in [BoardServers -> Seq(Copies)] /\ \A t \in BoardServers : Len(memory'[t]) <= CacheSize
    BY <2>1, <2>2
  <2>4. memory' \in [BoardServers -> Seq(Copies')]
    BY <1>2, <2>1, <2>3
  <2>5. (\A i \in DOMAIN objects : Fits(i, objects[i]))'
    BY <1>2, <2>1
  <2> QED BY <2>3, <2>4, <2>5
<1> QED BY <1>3, <1>4, <1>5, <1>6, <1>7, <1>8, <1>9 DEF BoardNext

\* A mutation of the active set is announced, or marked as missed.
LEMMA SnapshotStays ==
    ASSUME BoardIInv, BoardNext PROVE SnapshotFits'
<1> USE DEF BoardIInv, SnapshotFits
<1>1. ASSUME UNCHANGED <<rows, snapshot>>, ~refiller'.retired,
             refiller.pc \notin {"announce", "written"}, ~refiller.retired
      PROVE  SnapshotFits'
  BY <1>1 DEF AllAnnounced, is_fresh, ActiveBoard
<1>2. refiller.retired \in BOOLEAN /\ snapshot.missed \in BOOLEAN
  BY DEF BoardShapes, RefillTask, Snapshot
<1>3. CASE refill_once_async \/ plan_tier \/ TierDone \/ PassFails
  <2>1. UNCHANGED <<rows, snapshot>> /\ refiller.pc \in {"idle", "plan", "mint"}
    BY <1>3 DEF refill_once_async, plan_tier, TierDone, PassFails
  <2>2. ~refiller.retired
    BY <2>1, <1>2
  <2>3. ~Resting.retired /\ \A tiers : ~refill_tier(tiers).retired
    BY DEF Resting, refill_tier
  <2>4. ~refiller'.retired
    <3>1. CASE plan_tier
      BY <3>1, <2>2 DEF plan_tier, BoardShapes, RefillTask
    <3>2. CASE refill_once_async \/ PassFails
      BY <3>2, <2>3 DEF refill_once_async, PassFails
    <3>3. CASE TierDone
      BY <3>3, <2>3 DEF TierDone
    <3> QED BY <1>3, <3>1, <3>2, <3>3
  <2> QED BY <1>1, <2>1, <2>2, <2>4
<1>4. CASE mint_one \/ LocalMint \/ GeneratorFailed \/ generator_lease \/ FetchAndConfirm
           \/ cnf_put_on_mint \/ StampUpdatedAt
  <2>1. UNCHANGED <<rows, snapshot>>
        /\ refiller.pc \in {"mint", "local", "failed", "lease", "fetch", "put", "stamp"}
    BY <1>4 DEF mint_one, LocalMint, GeneratorFailed, generator_lease, FetchAndConfirm,
                cnf_put_on_mint, StampUpdatedAt
  <2>2. ~refiller.retired
    BY <2>1, <1>2
  <2>3. Next1.retired = refiller.retired /\ (CommitFails => refiller'.retired = refiller.retired)
    BY DEF Next1, CommitFails, BoardShapes, RefillTask
  <2>4. ~refiller'.retired
    BY <1>4, <2>2, <2>3 DEF mint_one, LocalMint, GeneratorFailed, generator_lease, FetchAndConfirm,
         cnf_put_on_mint, StampUpdatedAt, get_pregen_cnf, gen_cnf, gen_cnf_fork, BoardShapes, RefillTask
  <2> QED BY <1>1, <2>1, <2>2, <2>4
<1>5. ASSUME NEW ready \in SUBSET ActiveBoard, NEW next, retire(ready, next),
             next = "solved" \/ next = IF refiller.retired \/ ready # {} THEN "announce" ELSE "plan",
             refiller.pc \in {"age", "solved"}
      PROVE  SnapshotFits'
  <2>1. CASE refiller' = Resting /\ snapshot' = [snapshot EXCEPT !.missed = @ \/ refiller.retired]
             /\ UNCHANGED rows
    <3>1. ~refiller'.retired /\ refiller'.pc = "idle"
      BY <2>1 DEF Resting
    <3>2. /\ snapshot'.missed = (snapshot.missed \/ refiller.retired)
          /\ snapshot'.ids = snapshot.ids /\ snapshot'.thread = snapshot.thread
          /\ is_fresh(snapshot') = is_fresh(snapshot)
      BY <2>1 DEF BoardShapes, Snapshot, is_fresh
    <3> QED BY <1>5, <2>1, <3>1, <3>2 DEF AllAnnounced, ActiveBoard
  <2>2. CASE /\ rows' = [i \in DOMAIN rows |->
                     IF i \in ready THEN [rows[i] EXCEPT !.status = "retired", !.body = Blank]
                     ELSE rows[i]]
             /\ refiller' = [refiller EXCEPT !.pc = next, !.retired = @ \/ ready # {}]
             /\ UNCHANGED snapshot
    <3>1. refiller'.retired = (refiller.retired \/ ready # {}) /\ refiller'.pc = next
      BY <2>2 DEF BoardShapes, RefillTask
    <3>2. CASE ready = {}
      <4>1. ActiveBoard' = ActiveBoard
        BY <2>2, <3>2 DEF ActiveBoard
      <4> QED BY <1>5, <2>2, <3>1, <3>2, <4>1 DEF AllAnnounced
    <3>3. CASE ready # {}
      BY <1>5, <3>1, <3>3 DEF AllAnnounced
    <3> QED BY <3>2, <3>3
  <2> QED BY <1>5, <2>1, <2>2 DEF retire
<1>6. CASE RetireAged
  BY <1>5, <1>6 DEF RetireAged, Active, ActiveBoard
<1>7. CASE RetireSolved
  <2> DEFINE ready == {i \in Active(Tier) : rows[i].solvers >= Saturated}
             next == IF refiller.retired \/ ready # {} THEN "announce" ELSE "plan"
  <2>1. (\E i \in Active(Tier) : rows[i].solvers >= Saturated) <=> ready # {}
    OBVIOUS
  <2>2. ready \subseteq ActiveBoard
    BY DEF Active, ActiveBoard
  <2>3. retire(ready, next) /\ refiller.pc = "solved"
    BY <1>7, <2>1 DEF RetireSolved
  <2> HIDE DEF ready
  <2> QED BY <1>5, <2>2, <2>3
<1>8. CASE commit_challenge
  <2>1. CASE refiller' = [refiller EXCEPT !.pc = "written"]
    <3>1. ~refiller'.retired /\ refiller'.pc = "written"
      BY <1>8, <2>1, <1>2 DEF commit_challenge, BoardShapes, RefillTask
    <3> QED BY <3>1 DEF AllAnnounced
  <2>2. CASE CommitFails /\ UNCHANGED rows
    <3>1. refiller'.retired = refiller.retired
      BY <2>2 DEF Next1, CommitFails, BoardShapes, RefillTask
    <3> QED BY <1>1, <1>2, <1>8, <2>2, <3>1 DEF commit_challenge
  <2> QED BY <1>8, <2>1, <2>2 DEF commit_challenge
<1>9. CASE Invalidate
  <2>1. ~refiller'.retired
    BY <1>9 DEF Invalidate, BoardShapes, RefillTask
  <2>2. snapshot'.thread # "building" /\ ~is_fresh(snapshot')
    BY <1>9 DEF Invalidate, invalidate_all, is_fresh, BoardShapes, Snapshot
  <2> QED BY <2>1, <2>2
<1>10. CASE (\E t \in Range(BoardTiers) : pregen_worker(t))
            \/ (\E s \in BoardServers, i \in DOMAIN rows : serve(s, i)) \/ HourPasses
  <2>1. UNCHANGED <<rows, snapshot, refiller>>
    BY <1>10 DEF pregen_worker, serve, HourPasses
  <2> QED BY <2>1 DEF AllAnnounced, is_fresh, ActiveBoard
<1>11. CASE BoardRead \/ BoardTtlLapses
  <2>1. UNCHANGED <<rows, refiller>>
    BY <1>11 DEF BoardRead, BoardTtlLapses
  <2>2. /\ snapshot'.ids = snapshot.ids /\ snapshot'.missed = snapshot.missed
        /\ snapshot'.thread = "building" => snapshot.thread = "building"
        /\ is_fresh(snapshot') => is_fresh(snapshot)
    BY <1>11 DEF BoardRead, BoardTtlLapses, BoardShapes, Snapshot, is_fresh
  <2> QED BY <2>1, <2>2 DEF AllAnnounced, ActiveBoard
<1>12. CASE StartRebuild
  <2>1. UNCHANGED <<rows, refiller>>
    BY <1>12 DEF StartRebuild
  <2>2. CASE is_fresh(snapshot)
    <3>1. /\ snapshot'.ids = snapshot.ids /\ snapshot'.missed = snapshot.missed
          /\ snapshot'.thread = "none"
      BY <1>12, <2>2 DEF StartRebuild, BoardShapes, Snapshot
    <3> QED BY <2>1, <2>2, <3>1 DEF AllAnnounced, ActiveBoard
  <2>3. CASE ~is_fresh(snapshot)
    <3>1. snapshot'.ids = ActiveBoard
      BY <1>12, <2>3 DEF StartRebuild, rebuild_locked, BoardShapes, Snapshot
    <3> QED BY <2>1, <3>1 DEF ActiveBoard
  <2> QED BY <2>2, <2>3
<1>13. CASE EndRebuild
  <2>1. UNCHANGED <<rows, refiller>> /\ snapshot.thread = "building"
    BY <1>13 DEF EndRebuild, BoardShapes, Snapshot
  <2>2. snapshot'.ids = snapshot.ids /\ snapshot'.missed = snapshot.missed
    BY <1>13 DEF EndRebuild, BoardShapes, Snapshot
  <2> QED BY <2>1, <2>2 DEF AllAnnounced, ActiveBoard
<1>14. CASE \E i \in DOMAIN rows : Solve(i)
  <2>1. PICK id \in DOMAIN rows : Solve(id)
    BY <1>14
  <2>2. UNCHANGED <<snapshot, refiller>> /\ DOMAIN rows' = DOMAIN rows
    BY <2>1 DEF Solve
  <2>3. \A i \in DOMAIN rows : rows'[i].status = rows[i].status
    BY <2>1 DEF Solve, BoardShapes, BoardRow
  <2>4. ActiveBoard' = ActiveBoard
    BY <2>2, <2>3 DEF ActiveBoard
  <2> QED BY <2>2, <2>4 DEF AllAnnounced, is_fresh
<1>15. CASE BoardRestart
  <2>1. ~refiller'.retired /\ snapshot'.thread = "none" /\ ~is_fresh(snapshot')
    BY <1>15 DEF BoardRestart, Resting, Cold, is_fresh
  <2> QED BY <2>1
<1> QED BY <1>3, <1>4, <1>6, <1>7, <1>8, <1>9, <1>10, <1>11, <1>12, <1>13, <1>14, <1>15 DEF BoardNext

LEMMA BoardHolds == BoardIInv => BoardInv
<1> SUFFICES ASSUME BoardIInv PROVE BoardInv
  OBVIOUS
<1> USE DEF BoardIInv
<1>1. BoardTypeOK
  BY DEF BoardTypeOK, BoardShapes, BoardRow, Lease, CopiesFit
<1>2. ServedIsVerified
  <2> SUFFICES ASSUME ~MintsTwice, NEW s \in BoardServers, NEW id \in ActiveBoard
               PROVE  served(s, id) \in {NONE, rows[id].body}
    BY DEF ServedIsVerified
  <2>1. \A body : Fits(id, body) => body = rows[id].body
    BY DEF Fits, ActiveBoard
  <2>2. CASE boardConf.bucket
    BY <2>1, <2>2 DEF served, CopiesFit
  <2>3. CASE ~boardConf.bucket /\ LruHas(memory[s], id)
    <3> DEFINE hit == CHOOSE k \in DOMAIN memory[s] : memory[s][k][1] = id
    <3>1. hit \in DOMAIN memory[s] /\ memory[s][hit][1] = id
      BY <2>3 DEF LruHas, cache_key
    <3>2. served(s, id) = memory[s][hit][2]
      BY <2>3 DEF served, LruBody, cache_key
    <3> HIDE DEF hit
    <3>3. memory[s] \in Seq(Copies)
      BY DEF CopiesFit
    <3>4. memory[s][hit] \in Copies
      BY <3>1, <3>3, LenProperties, ElementOfSeq
    <3> QED BY <2>1, <3>1, <3>2, <3>4 DEF Copies
  <2>4. CASE ~boardConf.bucket /\ ~LruHas(memory[s], id)
    BY <2>4 DEF served
  <2> QED BY <2>2, <2>3, <2>4, BoardAssumption DEF BoardShapes
<1>3. FreshBoardIsCurrent
  BY DEF FreshBoardIsCurrent, SnapshotFits, AllAnnounced
<1> QED BY <1>1, <1>2, <1>3 DEF BoardInv

LEMMA BoardSteps == BoardIInv /\ [BoardNext]_boardVars => BoardIInv'
<1> SUFFICES ASSUME BoardIInv, [BoardNext]_boardVars PROVE BoardIInv'
  OBVIOUS
<1>1. CASE BoardNext
  <2>1. BoardShapes'
    BY <1>1, RefillTyped, MintTyped, ServingTyped DEF BoardNext
  <2> QED BY <1>1, <2>1, MintsStay, CopiesStayFit, SnapshotStays DEF BoardIInv
<1>2. CASE UNCHANGED boardVars
  <2>1. BoardShapes' /\ MintsFit' /\ CopiesFit' /\ SnapshotFits'
    BY <1>2 DEF boardVars, BoardIInv, BoardShapes, MintsFit, CopiesFit, SnapshotFits, Copies, Fits,
         MintsTwice, AllAnnounced, is_fresh, ActiveBoard
  <2> QED BY <2>1 DEF BoardIInv
<1> QED BY <1>1, <1>2

\* refill.py, cnf_store.py and board_cache.py: whatever the failures, restarts and
\* interleavings of the refill pass, the readers and the rebuild threads, a served
\* body is the one its row is verified against, and a board that would be served as
\* fresh lists exactly the active challenges.
THEOREM BoardSafety == BoardInit /\ [][BoardNext]_boardVars => []BoardInv
BY BoardStarts, BoardSteps, BoardHolds, PTL

----------------------------------------------------------------------------
(* The components side by side: each behaviour runs one of them             *)

LEMMA EachStarts == Init => ScoreInit /\ FeedInit /\ BoardInit
BY DEF Init

LEMMA EachRuns ==
    [Next]_vars => /\ [ScoreNext \/ WorkNext]_scoreVars
                   /\ [FeedNext]_feedVars
                   /\ [BoardNext]_boardVars
<1>1. CASE UNCHANGED vars
  BY <1>1 DEF vars
<1>2. CASE Next
  <2>1. CASE \/ Only("feed", FeedNext, <<scoreVars, uidVars, gpuVars, arenaVars, boardVars, artifactVars>>)
             \/ Only("board", BoardNext, <<scoreVars, feedVars, uidVars, gpuVars, arenaVars, artifactVars>>)
    BY <2>1 DEF Only
  <2>2. CASE \/ Only("score", ScoreNext, <<feedVars, uidVars, gpuVars, arenaVars, boardVars, artifactVars>>)
             \/ Only("work", WorkNext, <<feedVars, uidVars, gpuVars, arenaVars, boardVars, artifactVars>>)
    BY <2>2 DEF Only
  <2>3. CASE \/ Only("uid", UidNext, <<scoreVars, feedVars, gpuVars, arenaVars, boardVars, artifactVars>>)
             \/ Only("gpu", GpuNext, <<scoreVars, feedVars, uidVars, arenaVars, boardVars, artifactVars>>)
             \/ Only("arena", ArenaNext, <<scoreVars, feedVars, uidVars, gpuVars, boardVars, artifactVars>>)
             \/ Only("artifacts", ArtifactNext, <<scoreVars, feedVars, uidVars, gpuVars, arenaVars, boardVars>>)
    BY <2>3 DEF Only
  <2> QED BY <1>2, <2>1, <2>2, <2>3 DEF Next
<1> QED BY <1>1, <1>2

\* On every deployment the composed scores keep the confidential source to its
\* share and pay mirrored hotkeys nothing more, and the feed's caches and attempts
\* hold vectors and versions (weights.py).
THEOREM ScoresAreSound == Spec => []ScoresSound
<1>1. Init => ScoreIInv /\ FeedIInv
  BY EachStarts, ScoreStart, FeedStarts
<1>2. (ScoreIInv /\ FeedIInv) /\ [Next]_vars => (ScoreIInv /\ FeedIInv)'
  BY EachRuns, ScoreStep, FeedMoves DEF FeedKept
<1>3. ScoreIInv /\ FeedIInv => ScoresSound
  <2>1. FeedIInv => FeedTypeOK
    BY DEF FeedIInv, FeedShapes, FeedTypeOK
  <2> QED BY <2>1, ScoreImplied DEF ScoresSound
<1> QED BY <1>1, <1>2, <1>3, PTL DEF Spec

\* On every deployment a body that is served verifies against its row and a fresh
\* board is the current one (refill.py, board_cache.py).
THEOREM BoardIsSound == Spec => []BoardSound
<1>1. Init => BoardIInv
  BY EachStarts, BoardStarts
<1>2. BoardIInv /\ [Next]_vars => BoardIInv'
  BY EachRuns, BoardSteps
<1>3. BoardIInv => BoardSound
  BY BoardHolds DEF BoardSound
<1> QED BY <1>1, <1>2, <1>3, PTL DEF Spec
===============================================================================
