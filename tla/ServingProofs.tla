--------------------------- MODULE ServingProofs ----------------------------
(***************************************************************************)
(* Proofs about what is let in, for any gates, peers, rows, boards, graphs *)
(* and callers: a permit comes back once and a flood is bounded; a resumed *)
(* seed pass misses no row of the feed; the models of an emitted encoding  *)
(* are the solutions of its puzzle; the miner of the thin subnet answers   *)
(* what it was asked, one formula per round and validator, at a bounded    *)
(* rate; and what the mechanism lanes pay is proven or burnt.              *)
(***************************************************************************)
EXTENDS MCServing, SetSums, SequenceTheorems

----------------------------------------------------------------------------
(* The gates of the publisher                                               *)

Plus(f, c) == [f EXCEPT ![c] = @ + 1]

LEMMA BetweenFacts ==
    ASSUME NEW f \in [Ticks -> Nat], NEW s \in Nat, NEW t \in Int, t <= MaxGateTime
    PROVE  /\ Between(f, s, t) \in Nat
           /\ (\A x \in s..t : f[x] = 0) => Between(f, s, t) = 0
           /\ \A u, v \in Int : s <= u /\ v <= t => Between(f, u, v) <= Between(f, s, t)
           /\ \A u \in Int : s <= u /\ u - 1 <= t =>
                 Between(f, s, t) = Between(f, s, u - 1) + Between(f, u, t)
           /\ \A c \in Ticks : Between(Plus(f, c), s, t) =
                 IF s <= c /\ c <= t THEN Between(f, s, t) + 1 ELSE Between(f, s, t)
<1> DEFINE S == s..t
<1>0. MaxGateTime \in Nat
  BY GateAssumption
<1>1. S \subseteq Ticks
  BY <1>0 DEF Ticks
<1>2. IsFiniteSet(S) /\ \A x \in S : f[x] \in Nat
  <2>1. s \in Int /\ t \in Int
    OBVIOUS
  <2> QED BY <1>1, <2>1, FS_Interval
<1> HIDE DEF S
<1>3. Between(f, s, t) = SumFunctionOnSet(f, S)
  BY DEF Between, S
<1>4. Between(f, s, t) \in Nat /\ ((\A x \in S : f[x] = 0) => Between(f, s, t) = 0)
  BY <1>2, <1>3, SumFacts
<1>5. ASSUME NEW u \in Int, NEW v \in Int, s <= u, v <= t PROVE Between(f, u, v) <= Between(f, s, t)
  <2>1. u..v \in SUBSET S
    BY <1>5 DEF S
  <2> QED BY <1>2, <1>3, <2>1, SumFacts DEF Between
<1>6. ASSUME NEW u \in Int, s <= u, u - 1 <= t
      PROVE  Between(f, s, t) = Between(f, s, u - 1) + Between(f, u, t)
  <2> DEFINE A == s..(u - 1)
             B == u..t
  <2>1. A \cup B = S /\ A \cap B = {}
    BY <1>6 DEF S
  <2> HIDE DEF A, B
  <2>2. SumFunctionOnSet(f, S) = SumFunctionOnSet(f, A) + SumFunctionOnSet(f, B)
    BY <1>2, <2>1, SumDisjoint
  <2> QED BY <1>3, <2>2 DEF Between, A, B
<1>7. ASSUME NEW c \in Ticks
      PROVE  Between(Plus(f, c), s, t) = IF s <= c /\ c <= t THEN Between(f, s, t) + 1 ELSE Between(f, s, t)
  <2> DEFINE g == Plus(f, c)
  <2>1. \A x \in S : g[x] = IF x = c THEN f[x] + 1 ELSE f[x]
    BY <1>1 DEF Plus
  <2> HIDE DEF g
  <2>2. SumFunctionOnSet(g, S) = IF c \in S THEN SumFunctionOnSet(f, S) + 1 ELSE SumFunctionOnSet(f, S)
    BY <1>2, <2>1, SumPlusOne
  <2>3. c \in S <=> s <= c /\ c <= t
    BY DEF S, Ticks
  <2> QED BY <1>3, <2>2, <2>3 DEF Between, S, g
<1> QED BY <1>4, <1>5, <1>6, <1>7 DEF S

LEMMA BetweenNat ==
    \A f \in [Ticks -> Nat] : \A s \in Nat, t \in Int : t <= MaxGateTime => Between(f, s, t) \in Nat
BY BetweenFacts

LEMMA BetweenZero ==
    \A f \in [Ticks -> Nat] : \A s \in Nat, t \in Int :
        t <= MaxGateTime /\ (\A x \in s..t : f[x] = 0) => Between(f, s, t) = 0
BY BetweenFacts

LEMMA BetweenLess ==
    \A f \in [Ticks -> Nat] : \A s \in Nat, t, u, v \in Int :
        t <= MaxGateTime /\ s <= u /\ v <= t => Between(f, u, v) <= Between(f, s, t)
BY BetweenFacts

LEMMA PlusCounts == \A f \in [Ticks -> Nat], c \in Ticks :
    Plus(f, c) \in [Ticks -> Nat] /\ \A x \in Ticks : x # c => Plus(f, c)[x] = f[x]
BY DEF Plus

\* The window of an address counts what came through since it started, nothing
\* came after its end, and what came through shortly before it is one window's worth.
InWindow(f, w, now, rpm) ==
    /\ w \in [start : 0..now, count : Nat]
    /\ Between(f, w.start, MaxGateTime) <= w.count
    /\ Between(f, w.start, MaxGateTime) <= rpm
    /\ \A t \in Ticks : t >= w.start + Window => f[t] = 0
    /\ \A a \in 0..w.start : w.start - a < Window => Between(f, a, w.start - 1) <= rpm
Spans(f, rpm) ==
    \A t \in 0..(MaxGateTime - Window + 1) : Between(f, t, t + Window - 1) <= 2 * rpm
Quiet(f) == \A t \in Ticks : f[t] = 0

LEMMA WindowTicks ==
    ASSUME NEW f \in [Ticks -> Nat], NEW rpm \in Nat \ {0}, NEW ws, NEW k, clock \in Ticks,
           k \notin DOMAIN ws => Quiet(f),
           k \in DOMAIN ws => InWindow(f, ws[k], clock, rpm)
    PROVE  /\ InWindow(f, tick(ws, k)[k], clock, rpm)
           /\ tick(ws, k)[k].count <= rpm /\ Spans(f, rpm) =>
                 InWindow(Plus(f, clock), tick(ws, k)[k], clock, rpm) /\ Spans(Plus(f, clock), rpm)
<1> DEFINE e == tick(ws, k)[k]
           g == Plus(f, clock)
           on == k \in DOMAIN ws /\ clock - ws[k].start < Window
<1>0. clock \in Nat /\ MaxGateTime \in Nat /\ clock <= MaxGateTime /\ Window \in Nat \ {0}
  BY GateAssumption DEF Ticks
<1>1. e = IF on THEN [ws[k] EXCEPT !.count = @ + 1] ELSE [start |-> clock, count |-> 1]
  BY DEF tick
<1> HIDE DEF e
<1>2. InWindow(f, e, clock, rpm)
  <2>1. CASE on
    <3>1. PICK st, co : ws[k] = [start |-> st, count |-> co] /\ st \in 0..clock /\ co \in Nat
      BY <2>1 DEF InWindow
    <3>2. e = [start |-> st, count |-> co + 1]
      BY <1>1, <2>1, <3>1
    <3>3. /\ Between(f, st, MaxGateTime) <= co /\ Between(f, st, MaxGateTime) <= rpm
          /\ \A t \in Ticks : t >= st + Window => f[t] = 0
          /\ \A a \in 0..st : st - a < Window => Between(f, a, st - 1) <= rpm
      BY <2>1, <3>1 DEF InWindow
    <3>4. Between(f, st, MaxGateTime) \in Nat
      BY <1>0, <3>1, BetweenNat
    <3>5. Between(f, st, MaxGateTime) <= co + 1
      BY <3>1, <3>3, <3>4
    <3> QED BY <3>1, <3>2, <3>3, <3>5 DEF InWindow
  <2>2. CASE ~on
    <3>1. e = [start |-> clock, count |-> 1]
      BY <1>1, <2>2
    <3>2. \A t \in Ticks : t >= clock => f[t] = 0
      <4>1. CASE k \notin DOMAIN ws
        BY <4>1 DEF Quiet
      <4>2. CASE k \in DOMAIN ws
        <5>1. InWindow(f, ws[k], clock, rpm) /\ clock - ws[k].start >= Window /\ ws[k].start \in Nat
          BY <1>0, <2>2, <4>2 DEF InWindow
        <5>2. clock >= ws[k].start + Window
          BY <1>0, <5>1
        <5>3. ASSUME NEW t \in Ticks, t >= clock PROVE t >= ws[k].start + Window
          BY <1>0, <5>1, <5>2, <5>3 DEF Ticks
        <5> QED BY <5>1, <5>3 DEF InWindow
      <4> QED BY <4>1, <4>2
    <3>3. Between(f, clock, MaxGateTime) = 0
      <4>1. \A x \in clock..MaxGateTime : f[x] = 0
        BY <1>0, <3>2 DEF Ticks
      <4> QED BY <1>0, <4>1, BetweenZero
    <3>4. ASSUME NEW a \in 0..clock, clock - a < Window PROVE Between(f, a, clock - 1) <= rpm
      <4>1. CASE k \notin DOMAIN ws
        <5>1. \A x \in a..(clock - 1) : f[x] = 0
          BY <1>0, <4>1 DEF Quiet, Ticks
        <5>2. Between(f, a, clock - 1) = 0
          BY <1>0, <5>1, BetweenZero
        <5> QED BY <5>2
      <4>2. CASE k \in DOMAIN ws
        <5>1. InWindow(f, ws[k], clock, rpm) /\ clock - ws[k].start >= Window /\ ws[k].start \in Nat
          BY <1>0, <2>2, <4>2 DEF InWindow
        <5>0. PICK so : so = ws[k].start
          OBVIOUS
        <5>2. so \in Nat /\ so <= a /\ clock - 1 <= MaxGateTime /\ a \in Nat /\ clock - 1 \in Int
          BY <1>0, <3>4, <5>0, <5>1
        <5>3. /\ Between(f, a, clock - 1) <= Between(f, so, MaxGateTime)
              /\ Between(f, so, MaxGateTime) \in Nat
          <6>1. PICK v : v = clock - 1
            OBVIOUS
          <6>2. so \in Nat /\ a \in Int /\ v \in Int /\ so <= a /\ v <= MaxGateTime
            BY <5>2, <6>1
          <6>3. Between(f, a, v) <= Between(f, so, MaxGateTime)
            BY <1>0, <6>2, BetweenLess
          <6> QED BY <1>0, <6>1, <6>2, <6>3, BetweenNat
        <5>4. Between(f, so, MaxGateTime) <= rpm
          BY <5>0, <5>1 DEF InWindow
        <5>5. Between(f, a, clock - 1) \in Nat
          BY <1>0, <5>2, BetweenNat
        <5> QED BY <5>3, <5>4, <5>5
      <4> QED BY <4>1, <4>2
    <3>5. \A t \in Ticks : t >= clock + Window => f[t] = 0
      BY <1>0, <3>2 DEF Ticks
    <3> QED BY <1>0, <3>1, <3>3, <3>4, <3>5 DEF InWindow
  <2> QED BY <2>1, <2>2
<1>3. ASSUME e.count <= rpm, Spans(f, rpm) PROVE InWindow(g, e, clock, rpm) /\ Spans(g, rpm)
  <2>1. PICK st, co : e = [start |-> st, count |-> co] /\ st \in 0..clock /\ co \in Nat
    BY <1>2 DEF InWindow
  <2>2. /\ Between(f, st, MaxGateTime) <= rpm
        /\ \A t \in Ticks : t >= st + Window => f[t] = 0
        /\ \A a \in 0..st : st - a < Window => Between(f, a, st - 1) <= rpm
    BY <1>2, <2>1 DEF InWindow
  <2>3. clock < st + Window /\ Between(f, st, MaxGateTime) + 1 <= co
    <3>1. CASE on
      <4>1. PICK so, cp : ws[k] = [start |-> so, count |-> cp] /\ so \in 0..clock /\ cp \in Nat
        BY <3>1 DEF InWindow
      <4>2. st = so /\ co = cp + 1
        BY <1>1, <2>1, <3>1, <4>1
      <4>3. Between(f, so, MaxGateTime) <= cp
        BY <3>1, <4>1 DEF InWindow
      <4>4. Between(f, so, MaxGateTime) \in Nat
        BY <1>0, <4>1, BetweenNat
      <4>5. clock - so < Window
        BY <3>1, <4>1
      <4> QED BY <1>0, <4>1, <4>2, <4>3, <4>4, <4>5
    <3>2. CASE ~on
      <4>1. st = clock /\ co = 1
        BY <1>1, <2>1, <3>2
      <4>2. \A t \in Ticks : t >= clock => f[t] = 0
        <5>1. CASE k \notin DOMAIN ws
          BY <5>1 DEF Quiet
        <5>2. CASE k \in DOMAIN ws
          <6>1. InWindow(f, ws[k], clock, rpm) /\ clock - ws[k].start >= Window /\ ws[k].start \in Nat
            BY <1>0, <3>2, <5>2 DEF InWindow
          <6>2. clock >= ws[k].start + Window
            BY <1>0, <6>1
          <6>3. ASSUME NEW t \in Ticks, t >= clock PROVE t >= ws[k].start + Window
            BY <1>0, <6>1, <6>2, <6>3 DEF Ticks
          <6> QED BY <6>1, <6>3 DEF InWindow
        <5> QED BY <5>1, <5>2
      <4>3. \A x \in clock..MaxGateTime : f[x] = 0
        BY <1>0, <4>2 DEF Ticks
      <4>4. Between(f, clock, MaxGateTime) = 0
        BY <1>0, <4>3, BetweenZero
      <4> QED BY <1>0, <4>1, <4>4
    <3> QED BY <3>1, <3>2
  <2>4. g \in [Ticks -> Nat] /\ \A x \in Ticks : x # clock => g[x] = f[x]
    BY PlusCounts
  <2>5. Between(g, st, MaxGateTime) = Between(f, st, MaxGateTime) + 1
    BY <1>0, <2>1, BetweenFacts
  <2>6. Between(f, st, MaxGateTime) \in Nat
    BY <1>0, <2>1, BetweenNat
  <2> HIDE DEF g
  <2>7. co <= rpm
    BY <1>3, <2>1
  <2>8. Between(g, st, MaxGateTime) <= co /\ Between(g, st, MaxGateTime) <= rpm
    BY <2>1, <2>3, <2>5, <2>6, <2>7
  <2>9. \A t \in Ticks : t >= st + Window => g[t] = 0
    BY <1>0, <2>1, <2>2, <2>3, <2>4 DEF Ticks
  <2>10. ASSUME NEW a \in 0..st, st - a < Window PROVE Between(g, a, st - 1) <= rpm
    <3>1. Between(g, a, st - 1) = Between(f, a, st - 1)
      <4>1. a \in Nat /\ st - 1 \in Int /\ st - 1 <= MaxGateTime /\ ~(clock <= st - 1)
        BY <1>0, <2>1
      <4> QED BY <4>1, BetweenFacts DEF g
    <3> QED BY <2>2, <2>10, <3>1
  <2>11. InWindow(g, e, clock, rpm)
    BY <2>1, <2>8, <2>9, <2>10 DEF InWindow
  <2>12. ASSUME NEW t \in 0..(MaxGateTime - Window + 1)
         PROVE  Between(g, t, t + Window - 1) <= 2 * rpm
    <3>0. t \in Nat /\ t + Window - 1 \in Int /\ t + Window - 1 <= MaxGateTime
      BY <1>0
    <3>1. CASE ~(t <= clock /\ clock <= t + Window - 1)
      <4>1. Between(g, t, t + Window - 1) = Between(f, t, t + Window - 1)
        BY <3>0, <3>1, BetweenFacts DEF g
      <4> QED BY <1>3, <4>1 DEF Spans
    <3>2. CASE t <= clock /\ clock <= t + Window - 1 /\ st <= t
      <4>1. Between(g, t, t + Window - 1) <= Between(g, st, MaxGateTime)
        BY <1>0, <2>1, <2>4, <3>0, <3>2, BetweenLess
      <4>2. Between(g, t, t + Window - 1) \in Nat /\ Between(g, st, MaxGateTime) \in Nat
        <5>1. MaxGateTime \in Int /\ st \in Nat /\ g \in [Ticks -> Nat]
          BY <1>0, <2>1, <2>4
        <5>2. Between(g, t, t + Window - 1) \in Nat
          BY <3>0, <5>1, BetweenNat
        <5>3. Between(g, st, MaxGateTime) \in Nat
          BY <5>1, BetweenNat
        <5> QED BY <5>2, <5>3
      <4> QED BY <2>8, <4>1, <4>2
    <3>3. CASE t <= clock /\ clock <= t + Window - 1 /\ t < st
      <4>1. t \in 0..st /\ st - t < Window
        BY <1>0, <2>1, <3>0, <3>3
      <4>2. Between(g, t, st - 1) <= rpm
        BY <2>10, <4>1
      <4>3. st \in Int /\ t <= st /\ st - 1 <= t + Window - 1
        BY <1>0, <2>1, <3>0, <3>3
      <4>4. Between(g, t, t + Window - 1) = Between(g, t, st - 1) + Between(g, st, t + Window - 1)
        BY <2>4, <3>0, <4>3, BetweenFacts
      <4>5. Between(g, st, t + Window - 1) <= Between(g, st, MaxGateTime)
        BY <1>0, <2>1, <2>4, <3>0, BetweenLess
      <4>6. /\ Between(g, t, st - 1) \in Nat /\ Between(g, st, t + Window - 1) \in Nat
            /\ Between(g, st, MaxGateTime) \in Nat
        <5>1. st \in Nat /\ st - 1 \in Int /\ st - 1 <= MaxGateTime
          BY <1>0, <2>1
        <5>2. t \in Nat /\ t + Window - 1 \in Int /\ t + Window - 1 <= MaxGateTime
          BY <3>0
        <5>3. MaxGateTime \in Int /\ g \in [Ticks -> Nat]
          BY <1>0, <2>4
        <5>4. Between(g, t, st - 1) \in Nat
          BY <5>1, <5>2, <5>3, BetweenNat
        <5>5. Between(g, st, t + Window - 1) \in Nat
          BY <5>1, <5>2, <5>3, BetweenNat
        <5>6. Between(g, st, MaxGateTime) \in Nat
          BY <5>1, <5>3, BetweenNat
        <5> QED BY <5>4, <5>5, <5>6
      <4> QED BY <2>8, <4>2, <4>4, <4>5, <4>6
    <3> QED BY <1>0, <2>1, <3>0, <3>1, <3>2, <3>3
  <2> QED BY <2>11, <2>12 DEF Spans
<1> QED BY <1>2, <1>3 DEF e

\* A bucket and what was spent up to now, from any time on, are within the burst and
\* the refill; an idle bucket that was collected has nothing left to answer for.
BucketFits(f, b, now, burst, refill) ==
    /\ b \in [tokens : Nat, at : 0..now]
    /\ \A t \in Ticks : t > b.at => f[t] = 0
    /\ \A s \in 0..b.at : b.tokens + Between(f, s, MaxGateTime) <= burst + (b.at - s) * refill
Collected(f, now, refill) ==
    /\ \A t \in Ticks : t > now => f[t] = 0
    /\ \A s \in 0..now : Between(f, s, MaxGateTime) <= (now - s) * refill
Stretches(f, burst, refill) ==
    \A s \in Ticks : \A t \in s..MaxGateTime : Between(f, s, t) <= burst + (t - s) * refill

LEMMA Distances ==
    ASSUME NEW a \in Nat, NEW b \in Nat, NEW c \in Nat, NEW r \in Nat, a <= b, b <= c
    PROVE  /\ (b - a) * r \in Nat /\ (c - b) * r \in Nat /\ (c - a) * r \in Nat
           /\ (b - a) * r + (c - b) * r = (c - a) * r
<1>1. PICK x \in Nat, y \in Nat : x = b - a /\ y = c - b
  OBVIOUS
<1>2. c - a = x + y
  BY <1>1
<1>3. (x + y) * r = x * r + y * r /\ x * r \in Nat /\ y * r \in Nat
  OBVIOUS
<1> QED BY <1>1, <1>2, <1>3

\* Refilling, creating and spending from a bucket, and leaving one alone.
LEMMA BucketRefills ==
    ASSUME NEW f \in [Ticks -> Nat], NEW b, clock \in Ticks, gateConf.burst \in Nat, gateConf.refill \in Nat,
           BucketFits(f, b, clock, gateConf.burst, gateConf.refill)
    PROVE  BucketFits(f, refilled(b), clock, gateConf.burst, gateConf.refill)
<1>0. clock \in Nat /\ MaxGateTime \in Nat /\ clock <= MaxGateTime
  BY GateAssumption DEF Ticks
<1>1. PICK to, at, bu, re : /\ b = [tokens |-> to, at |-> at] /\ to \in Nat /\ at \in 0..clock
                            /\ bu = gateConf.burst /\ re = gateConf.refill
  BY DEF BucketFits
<1>2. /\ \A t \in Ticks : t > at => f[t] = 0
      /\ \A s \in 0..at : to + Between(f, s, MaxGateTime) <= bu + (at - s) * re
  BY <1>1 DEF BucketFits
<1>3. PICK more : more = (clock - at) * re
  OBVIOUS
<1>4. more \in Nat
  BY <1>0, <1>1, <1>3, Distances
<1>5. PICK tn : tn = Min({bu, to + more})
  OBVIOUS
<1>6. tn \in Nat /\ tn <= bu /\ tn <= to + more
  <2>1. bu \in Nat /\ to + more \in Nat
    BY <1>1, <1>4
  <2>2. \E x \in {bu, to + more} : \A y \in {bu, to + more} : x <= y
    BY <2>1
  <2>3. tn \in {bu, to + more} /\ \A y \in {bu, to + more} : tn <= y
    BY <1>5, <2>2 DEF Min
  <2> QED BY <2>1, <2>3
<1>7. refilled(b) = [tokens |-> tn, at |-> clock]
  BY <1>1, <1>3, <1>5 DEF refilled
<1>8. \A t \in Ticks : t > clock => f[t] = 0
  BY <1>0, <1>1, <1>2 DEF Ticks
<1>9. ASSUME NEW s \in 0..clock PROVE tn + Between(f, s, MaxGateTime) <= bu + (clock - s) * re
  <2>1. CASE s <= at
    <3>1. /\ (at - s) * re \in Nat /\ (clock - s) * re \in Nat
          /\ (at - s) * re + more = (clock - s) * re
      BY <1>0, <1>1, <1>3, <2>1, Distances
    <3>2. to + Between(f, s, MaxGateTime) <= bu + (at - s) * re
      BY <1>1, <1>2, <2>1
    <3>3. Between(f, s, MaxGateTime) \in Nat
      BY <1>0, BetweenNat
    <3> QED BY <1>1, <1>4, <1>6, <3>1, <3>2, <3>3
  <2>2. CASE at < s
    <3>1. \A x \in s..MaxGateTime : f[x] = 0
      BY <1>0, <1>1, <1>2, <2>2 DEF Ticks
    <3>2. Between(f, s, MaxGateTime) = 0
      BY <1>0, <3>1, BetweenZero
    <3>3. (clock - s) * re \in Nat
      BY <1>0, <1>1, Distances
    <3> QED BY <1>1, <1>6, <3>2, <3>3
  <2> QED BY <1>1, <2>1, <2>2
<1> QED BY <1>0, <1>1, <1>6, <1>7, <1>8, <1>9 DEF BucketFits

LEMMA BucketStarts ==
    ASSUME NEW f \in [Ticks -> Nat], NEW bu \in Nat, NEW re \in Nat, clock \in Ticks, Collected(f, clock, re)
    PROVE  BucketFits(f, [tokens |-> bu, at |-> clock], clock, bu, re)
<1>0. clock \in Nat /\ MaxGateTime \in Nat /\ clock <= MaxGateTime
  BY GateAssumption DEF Ticks
<1>1. ASSUME NEW s \in 0..clock PROVE bu + Between(f, s, MaxGateTime) <= bu + (clock - s) * re
  <2>1. Between(f, s, MaxGateTime) <= (clock - s) * re
    BY DEF Collected
  <2>2. Between(f, s, MaxGateTime) \in Nat /\ (clock - s) * re \in Nat
    BY <1>0, BetweenNat, Distances
  <2> QED BY <2>1, <2>2
<1> QED BY <1>0, <1>1 DEF BucketFits, Collected

LEMMA BucketSpends ==
    ASSUME NEW f \in [Ticks -> Nat], NEW to \in Nat, NEW bu \in Nat, NEW re \in Nat, clock \in Ticks, to >= 1,
           BucketFits(f, [tokens |-> to, at |-> clock], clock, bu, re), Stretches(f, bu, re)
    PROVE  /\ BucketFits(Plus(f, clock), [tokens |-> to - 1, at |-> clock], clock, bu, re)
           /\ Stretches(Plus(f, clock), bu, re)
<1> DEFINE g == Plus(f, clock)
<1>0. clock \in Nat /\ MaxGateTime \in Nat /\ clock <= MaxGateTime
  BY GateAssumption DEF Ticks
<1>1. g \in [Ticks -> Nat] /\ \A x \in Ticks : x # clock => g[x] = f[x]
  BY PlusCounts
<1>2. /\ \A t \in Ticks : t > clock => f[t] = 0
      /\ \A s \in 0..clock : to + Between(f, s, MaxGateTime) <= bu + (clock - s) * re
  BY DEF BucketFits
<1>3. ASSUME NEW s \in 0..clock
      PROVE  (to - 1) + Between(g, s, MaxGateTime) <= bu + (clock - s) * re
  <2>1. Between(g, s, MaxGateTime) = Between(f, s, MaxGateTime) + 1
    <3>1. s \in Nat /\ MaxGateTime \in Int /\ s <= clock
      BY <1>0
    <3> QED BY <1>0, <3>1, BetweenFacts
  <2>2. Between(f, s, MaxGateTime) \in Nat /\ (clock - s) * re \in Nat
    BY <1>0, BetweenNat, Distances
  <2> HIDE DEF g
  <2> QED BY <1>2, <2>1, <2>2
<1> HIDE DEF g
<1>4. \A t \in Ticks : t > clock => g[t] = 0
  BY <1>0, <1>1, <1>2 DEF Ticks
<1>5. BucketFits(g, [tokens |-> to - 1, at |-> clock], clock, bu, re)
  BY <1>0, <1>3, <1>4 DEF BucketFits
<1>6. ASSUME NEW s \in Ticks, NEW t \in s..MaxGateTime PROVE Between(g, s, t) <= bu + (t - s) * re
  <2>0. s \in Nat /\ t \in Nat /\ s <= t /\ t <= MaxGateTime /\ s <= MaxGateTime
    BY <1>0 DEF Ticks
  <2>1. CASE ~(s <= clock /\ clock <= t)
    <3>1. Between(g, s, t) = Between(f, s, t)
      BY <2>0, <2>1, BetweenFacts DEF g
    <3> QED BY <3>1 DEF Stretches
  <2>2. CASE s <= clock /\ clock <= t
    <3>1. Between(g, s, t) <= Between(g, s, MaxGateTime)
      BY <1>0, <1>1, <2>0, BetweenLess
    <3>2. Between(g, s, t) \in Nat /\ Between(g, s, MaxGateTime) \in Nat
      <4>1. g \in [Ticks -> Nat]
        BY <1>1
      <4>2. s \in Nat /\ t \in Int /\ MaxGateTime \in Int /\ t <= MaxGateTime /\ MaxGateTime <= MaxGateTime
        BY <1>0, <2>0
      <4>3. Between(g, s, t) \in Nat
        BY <4>1, <4>2, BetweenNat
      <4>4. Between(g, s, MaxGateTime) \in Nat
        BY <4>1, <4>2, BetweenNat
      <4> QED BY <4>3, <4>4
    <3>3. (to - 1) + Between(g, s, MaxGateTime) <= bu + (clock - s) * re
      BY <1>0, <1>3, <2>0, <2>2
    <3>4. /\ (clock - s) * re \in Nat /\ (t - clock) * re \in Nat /\ (t - s) * re \in Nat
          /\ (clock - s) * re + (t - clock) * re = (t - s) * re
      BY <1>0, <2>0, <2>2, Distances
    <3> QED BY <3>1, <3>2, <3>3, <3>4
  <2> QED BY <2>1, <2>2
<1> QED BY <1>5, <1>6 DEF Stretches, g

LEMMA BucketCollected ==
    ASSUME NEW f \in [Ticks -> Nat], NEW b, NEW bu \in Nat, NEW re \in Nat, clock \in Ticks,
           BucketFits(f, b, clock, bu, re), clock - b.at > IdleTtl, re * IdleTtl >= bu
    PROVE  Collected(f, clock, re)
<1>0. clock \in Nat /\ MaxGateTime \in Nat /\ clock <= MaxGateTime /\ IdleTtl \in Nat
  BY GateAssumption DEF Ticks
<1>1. PICK to, at : b = [tokens |-> to, at |-> at] /\ to \in Nat /\ at \in 0..clock
  BY DEF BucketFits
<1>2. /\ \A t \in Ticks : t > at => f[t] = 0
      /\ \A s \in 0..at : to + Between(f, s, MaxGateTime) <= bu + (at - s) * re
      /\ at + IdleTtl < clock
  BY <1>0, <1>1 DEF BucketFits
<1>3. \A t \in Ticks : t > clock => f[t] = 0
  BY <1>0, <1>1, <1>2 DEF Ticks
<1>4. ASSUME NEW s \in 0..clock PROVE Between(f, s, MaxGateTime) <= (clock - s) * re
  <2>1. CASE s <= at
    <3>1. PICK idle \in Nat : idle = at + IdleTtl
      BY <1>0, <1>1
    <3>2. /\ (at - s) * re \in Nat /\ (idle - at) * re \in Nat /\ (clock - idle) * re \in Nat
          /\ (at - s) * re + (idle - at) * re = (idle - s) * re /\ (idle - s) * re \in Nat
          /\ (idle - s) * re + (clock - idle) * re = (clock - s) * re
      BY <1>0, <1>1, <1>2, <2>1, <3>1, Distances
    <3>3. (idle - at) * re = re * IdleTtl
      <4>1. idle - at = IdleTtl
        BY <1>0, <1>1, <3>1
      <4> QED BY <1>0, <4>1
    <3>4. to + Between(f, s, MaxGateTime) <= bu + (at - s) * re
      BY <1>1, <1>2, <2>1
    <3>5. Between(f, s, MaxGateTime) \in Nat
      BY <1>0, BetweenNat
    <3> QED BY <1>1, <3>2, <3>3, <3>4, <3>5
  <2>2. CASE at < s
    <3>1. \A x \in s..MaxGateTime : f[x] = 0
      BY <1>0, <1>1, <1>2, <2>2 DEF Ticks
    <3>2. Between(f, s, MaxGateTime) = 0
      BY <1>0, <3>1, BetweenZero
    <3>3. (clock - s) * re \in Nat
      BY <1>0, Distances
    <3> QED BY <3>2, <3>3
  <2> QED BY <1>1, <2>1, <2>2
<1> QED BY <1>3, <1>4 DEF Collected

Places == {"vacant", "role", "abuse", "budget", "gate", "polling", "window", "route", "handler", "reply"}
Early == {"vacant", "role", "abuse", "budget", "gate", "polling"}

\* A request holds nothing before the gates, and no slot before its route.
AnyRequest == [pc : Places, req : GateRequests \cup {NONE}, gate : {"submit", "pm_read", "poll", NONE},
               slot : BOOLEAN, status : Nat]
RequestFits(x) ==
    /\ x \in AnyRequest
    /\ x.pc # "vacant" => x.req \in GateRequests
    /\ x.pc \in Early => x.gate = NONE
    /\ x.pc \in Early \cup {"window", "route"} => ~x.slot
FlightFits == flight \in [GateSlots -> AnyRequest] /\ \A r \in GateSlots : RequestFits(flight[r])

Holds(x, g) == x.gate = g \/ (g = "slot" /\ x.slot)
Holders(g) == {r \in GateSlots : Holds(flight[r], g)}
PermitsFit ==
    /\ permits \in [Gates -> Nat]
    /\ \A g \in Gates : permits[g] + Cardinality(Holders(g)) = gateConf.cap

ConfFits == gateConf \in GateConfs /\ clock \in Ticks /\ arrivals \in 0..MaxArrivals

RpmKey(p) == <<"rpm", p>>
PeerFits(p) ==
    /\ RpmKey(p) \notin DOMAIN windows => Quiet(passed[p])
    /\ RpmKey(p) \in DOMAIN windows => InWindow(passed[p], windows[RpmKey(p)], clock, gateConf.rpm)
    /\ Spans(passed[p], gateConf.rpm)
WindowsFit ==
    /\ passed \in [Peers -> [Ticks -> Nat]]
    /\ gateConf.rpm > 0 => \A p \in Peers : EdgeAppends(p) => PeerFits(p)

HotkeyFits(h) ==
    /\ h \notin DOMAIN buckets => Collected(spent[h], clock, gateConf.refill)
    /\ h \in DOMAIN buckets =>
          BucketFits(spent[h], buckets[h], clock, gateConf.burst, gateConf.refill)
    /\ Stretches(spent[h], gateConf.burst, gateConf.refill)
BucketsFit ==
    /\ spent \in [Hotkeys -> [Ticks -> Nat]]
    /\ DOMAIN buckets \subseteq Hotkeys
    /\ gateConf.burst = 0 => DOMAIN buckets = {}
    /\ gateConf.burst > 0 => \A h \in Hotkeys : HotkeyFits(h)

GroupsFit(G, n) ==
    /\ IsFiniteSet(DOMAIN G) /\ Cardinality(DOMAIN G) <= MaxGroups
    /\ \A x \in DOMAIN G : G[x] \in Nat
    /\ SumFunctionOnSet(G, DOMAIN G) = n
PressureFits ==
    \E t \in Nat, d \in Nat, n \in Nat : \E G :
        /\ pressure = [total |-> t, dropped |-> d, groups |-> G]
        /\ GroupsFit(G, n) /\ t = d + n

GateIInv == ConfFits /\ FlightFits /\ PermitsFit /\ WindowsFit /\ BucketsFit /\ PressureFits

LEMMA FlightFact ==
    ASSUME FlightFits, NEW r \in GateSlots PROVE RequestFits(flight[r])
BY DEF FlightFits

LEMMA FlightMoves ==
    ASSUME FlightFits, NEW r \in GateSlots, NEW x, RequestFits(x), flight' = [flight EXCEPT ![r] = x]
    PROVE  FlightFits'
BY DEF FlightFits, RequestFits

\* What a request releases and takes is what its gates lose and gain.
LEMMA PermitsMove ==
    ASSUME ConfFits, FlightFits, PermitsFit, gateConf' = gateConf, NEW r \in GateSlots, NEW x,
           flight' = [flight EXCEPT ![r] = x], permits' \in [Gates -> Nat],
           \A g \in Gates : permits'[g] + (IF Holds(x, g) THEN 1 ELSE 0)
                              = permits[g] + (IF Holds(flight[r], g) THEN 1 ELSE 0)
    PROVE  PermitsFit'
<1>1. ASSUME NEW g \in Gates PROVE permits'[g] + Cardinality(Holders(g)') = gateConf.cap
  <2>1. PICK H, K, R : /\ H = {q \in GateSlots : Holds(flight[q], g)}
                       /\ K = {q \in GateSlots : Holds(flight'[q], g)}
                       /\ R = H \ {r}
    OBVIOUS
  <2>2. flight'[r] = x /\ \A q \in GateSlots : q # r => flight'[q] = flight[q]
    BY DEF FlightFits
  <2>3. /\ H = IF Holds(flight[r], g) THEN R \cup {r} ELSE R
        /\ K = IF Holds(x, g) THEN R \cup {r} ELSE R
        /\ r \notin R /\ R \in SUBSET GateSlots
    BY <2>1, <2>2
  <2>4. IsFiniteSet(R) /\ Cardinality(R) \in Nat
    BY <2>3, GateAssumption, FS_Subset, FS_CardinalityType
  <2>5. Cardinality(R \cup {r}) = Cardinality(R) + 1
    BY <2>3, <2>4, FS_AddElement
  <2>6. permits[g] + Cardinality(H) = gateConf.cap
    BY <2>1 DEF PermitsFit, Holders
  <2>7. permits[g] \in Nat /\ permits'[g] \in Nat
    BY DEF PermitsFit
  <2>8. permits'[g] + Cardinality(K) = gateConf.cap
    <3>1. Cardinality(H) = Cardinality(R) + (IF Holds(flight[r], g) THEN 1 ELSE 0)
      BY <2>3, <2>4, <2>5
    <3>2. Cardinality(K) = Cardinality(R) + (IF Holds(x, g) THEN 1 ELSE 0)
      BY <2>3, <2>4, <2>5
    <3>3. permits'[g] + (IF Holds(x, g) THEN 1 ELSE 0) = permits[g] + (IF Holds(flight[r], g) THEN 1 ELSE 0)
      OBVIOUS
    <3> QED BY <2>4, <2>6, <2>7, <3>1, <3>2, <3>3
  <2>9. Holders(g)' = K
    BY <2>1 DEF Holders
  <2> QED BY <2>8, <2>9
<1> QED BY <1>1 DEF PermitsFit

LEMMA PermitsStay ==
    ASSUME ConfFits, FlightFits, PermitsFit, NEW r \in GateSlots, NEW x,
           flight' = [flight EXCEPT ![r] = x], UNCHANGED <<gateConf, permits>>,
           x.gate = flight[r].gate, x.slot = flight[r].slot
    PROVE  PermitsFit'
<1>1. \A g \in Gates : Holds(x, g) <=> Holds(flight[r], g)
  BY DEF Holds
<1>2. permits' \in [Gates -> Nat]
  BY DEF PermitsFit
<1>3. \A g \in Gates : permits'[g] + (IF Holds(x, g) THEN 1 ELSE 0)
                         = permits[g] + (IF Holds(flight[r], g) THEN 1 ELSE 0)
  BY <1>1
<1> QED BY <1>2, <1>3, PermitsMove

LEMMA GoKeeps ==
    ASSUME ConfFits, FlightFits, PermitsFit, UNCHANGED <<gateConf, permits>>, NEW r \in GateSlots,
           NEW pc \in Places, flight[r].pc # "vacant", Go(r, pc),
           pc \in Early => flight[r].pc \in Early,
           pc \in {"window", "route"} => flight[r].pc \in Early \cup {"window", "route"}
    PROVE  FlightFits' /\ PermitsFit'
<1>1. PICK p, q, g, s, st : flight[r] = [pc |-> p, req |-> q, gate |-> g, slot |-> s, status |-> st]
  BY FlightFact DEF RequestFits, AnyRequest
<1>2. PICK x : x = [pc |-> pc, req |-> q, gate |-> g, slot |-> s, status |-> st]
  OBVIOUS
<1>3. flight' = [flight EXCEPT ![r] = x]
  <2>1. flight' = [flight EXCEPT ![r] = [flight[r] EXCEPT !.pc = pc]]
    BY DEF Go
  <2>2. [flight[r] EXCEPT !.pc = pc] = x
    BY <1>1, <1>2
  <2> QED BY <2>1, <2>2
<1>4. RequestFits(x)
  BY <1>1, <1>2, FlightFact DEF RequestFits, AnyRequest, Early
<1>5. x.gate = flight[r].gate /\ x.slot = flight[r].slot
  BY <1>1, <1>2
<1> QED BY <1>3, <1>4, <1>5, FlightMoves, PermitsStay

LEMMA ReplyKeeps ==
    ASSUME ConfFits, FlightFits, PermitsFit, UNCHANGED <<gateConf, permits>>, NEW r \in GateSlots,
           NEW s \in Nat, flight[r].pc # "vacant", Reply(r, s)
    PROVE  FlightFits' /\ PermitsFit'
<1>1. PICK p, q, g, sl, st : /\ flight[r] = [pc |-> p, req |-> q, gate |-> g, slot |-> sl, status |-> st]
                             /\ p \in Places /\ sl \in BOOLEAN /\ st \in Nat
  BY FlightFact DEF RequestFits, AnyRequest
<1>2. PICK x : x = [pc |-> "reply", req |-> q, gate |-> g, slot |-> sl, status |-> s]
  OBVIOUS
<1>3. flight' = [flight EXCEPT ![r] = x]
  <2>1. flight' = [flight EXCEPT ![r] = [flight[r] EXCEPT !.pc = "reply", !.status = s]]
    BY DEF Reply, FlightFits
  <2>2. [flight[r] EXCEPT !.pc = "reply", !.status = s] = x
    <3>1. PICK y : y = [pc |-> p, req |-> q, gate |-> g, slot |-> sl, status |-> st]
      OBVIOUS
    <3>2. PICK z : z = [y EXCEPT !.pc = "reply", !.status = s]
      OBVIOUS
    <3>3. z = [pc |-> "reply", req |-> q, gate |-> g, slot |-> sl, status |-> s]
      BY <3>1, <3>2
    <3> QED BY <1>1, <1>2, <3>1, <3>2, <3>3
  <2> QED BY <2>1, <2>2
<1>4. RequestFits(x)
  BY <1>1, <1>2, FlightFact DEF RequestFits, AnyRequest, Early, Places
<1>5. x.gate = flight[r].gate /\ x.slot = flight[r].slot
  BY <1>1, <1>2
<1> QED BY <1>3, <1>4, <1>5, FlightMoves, PermitsStay

\* The limiters are left alone by what does not count.
LEMMA LimitersStay ==
    ASSUME WindowsFit, BucketsFit, UNCHANGED <<gateConf, clock, windows, buckets, passed, spent>>
    PROVE  WindowsFit' /\ BucketsFit'
<1>1. WindowsFit'
  BY DEF WindowsFit, PeerFits, EdgeAppends
<1>2. BucketsFit'
  BY DEF BucketsFit, HotkeyFits
<1> QED BY <1>1, <1>2

LEMMA ConfStays == ConfFits /\ UNCHANGED <<gateConf, clock, arrivals>> => ConfFits'
BY DEF ConfFits

LEMMA PressureStays == PressureFits /\ UNCHANGED pressure => PressureFits'
BY DEF PressureFits

LEMMA ConfFacts ==
    ASSUME ConfFits
    PROVE  /\ gateConf.rpm \in Nat /\ gateConf.burst \in Nat /\ gateConf.refill \in Nat /\ gateConf.cap \in Nat
           /\ gateConf.hops \in Nat \ {0} /\ gateConf.refill * IdleTtl >= gateConf.burst
           /\ clock \in Ticks /\ clock \in Nat /\ MaxGateTime \in Nat /\ clock <= MaxGateTime
BY GateAssumption DEF ConfFits, Ticks

\* Behind an edge that appends it, the address a request is counted under is its peer's.
LEMMA ClientAddress ==
    ASSUME ConfFits, NEW q \in GateRequests, EdgeAppends(q.peer), client_ip(q) # NONE
    PROVE  client_ip(q) = q.peer
<1>1. CASE gateConf.ipMode # "railway"
  BY <1>1 DEF client_ip
<1>2. CASE gateConf.ipMode = "railway"
  <2>1. PICK hops, sent, peer : hops = gateConf.hops /\ sent = q.sent /\ peer = q.peer
    OBVIOUS
  <2> DEFINE S == STRING \cup {"proxy"}
  <2>2. hops \in Nat \ {0} /\ sent \in Seq(S) /\ peer \in S /\ q.bare \in BOOLEAN
    <3>1. STRING \subseteq S /\ sent \in Seq(STRING) /\ peer \in S /\ q.bare \in BOOLEAN
      BY <2>1, GateAssumption
    <3> HIDE DEF S
    <3> QED BY <2>1, <3>1, ConfFacts, SeqMonotonic
  <2>0. "proxy" \in S
    OBVIOUS
  <2> HIDE DEF S
  <2>3. CASE q.bare
    <3>1. client_ip(q) = IF Len(sent \o <<>>) >= hops THEN (sent \o <<>>)[Len(sent \o <<>>) - hops + 1] ELSE NONE
      BY <1>2, <2>1, <2>3 DEF client_ip
    <3>2. sent \o <<>> = sent
      BY <2>2, ConcatEmptySeq
    <3>3. Len(sent) < hops /\ Len(sent) \in Nat
      BY <2>1, <2>2, <2>3, LenProperties DEF EdgeAppends
    <3> QED BY <2>2, <3>1, <3>2, <3>3
  <2>4. CASE ~q.bare
    <3>1. PICK proxies : proxies = [i \in 1..(hops - 1) |-> "proxy"]
      OBVIOUS
    <3>2. proxies \in Seq(S) /\ Len(proxies) = hops - 1
      <4>1. hops - 1 \in Nat /\ proxies \in [1..(hops - 1) -> S] /\ DOMAIN proxies = 1..(hops - 1)
        BY <2>2, <2>0, <3>1
      <4>2. proxies \in Seq(S)
        BY <4>1, SeqDef
      <4>3. Len(proxies) \in Nat /\ 1..Len(proxies) = 1..(hops - 1)
        BY <4>1, <4>2, LenProperties
      <4> QED BY <4>1, <4>2, <4>3
    <3>3. PICK tail : tail = <<peer>> \o proxies
      OBVIOUS
    <3>4. <<peer>> \in Seq(S) /\ Len(<<peer>>) = 1 /\ <<peer>>[1] = peer
      BY <2>2
    <3>5. tail \in Seq(S) /\ Len(tail) = hops /\ tail[1] = peer
      BY <2>2, <3>2, <3>3, <3>4, ConcatProperties
    <3>6. PICK chain : chain = sent \o tail
      OBVIOUS
    <3>7. Len(chain) = Len(sent) + hops /\ Len(sent) \in Nat /\ chain[Len(sent) + 1] = peer
      <4>1. /\ Len(chain) = Len(sent) + Len(tail)
            /\ \A i \in 1..(Len(sent) + Len(tail)) :
                  chain[i] = IF i <= Len(sent) THEN sent[i] ELSE tail[i - Len(sent)]
        BY <2>2, <3>5, <3>6, ConcatProperties
      <4>2. Len(sent) \in Nat
        BY <2>2, LenProperties
      <4>3. Len(sent) + 1 \in 1..(Len(sent) + hops) /\ (Len(sent) + 1) - Len(sent) = 1
            /\ ~(Len(sent) + 1 <= Len(sent))
        BY <2>2, <4>2
      <4> QED BY <3>5, <4>1, <4>2, <4>3
    <3>8. client_ip(q) = IF Len(chain) >= hops THEN chain[Len(chain) - hops + 1] ELSE NONE
      BY <1>2, <2>1, <2>4, <3>1, <3>3, <3>6 DEF client_ip
    <3>9. Len(chain) >= hops /\ Len(chain) - hops + 1 = Len(sent) + 1
      BY <2>2, <3>7
    <3> QED BY <2>1, <3>7, <3>8, <3>9
  <2> QED BY <2>2, <2>3, <2>4
<1> QED BY <1>1, <1>2

LEMMA ArriveStep ==
    ASSUME GateIInv, NEW r \in GateSlots, NEW q \in GateRequests, Arrive(r, q) PROVE GateIInv'
<1>0. /\ ConfFits /\ FlightFits /\ PermitsFit /\ WindowsFit /\ BucketsFit /\ PressureFits
      /\ UNCHANGED <<gateConf, clock, permits, windows, buckets, passed, spent, statuses, pressure>>
  BY DEF GateIInv, Arrive
<1>1. PICK x : x = [pc |-> "role", req |-> q, gate |-> NONE, slot |-> FALSE, status |-> 0]
  OBVIOUS
<1>2. flight' = [flight EXCEPT ![r] = x]
  <2>1. PICK y : y = [Vacant EXCEPT !.pc = "role", !.req = q]
    OBVIOUS
  <2>2. y = [pc |-> "role", req |-> q, gate |-> NONE, slot |-> FALSE, status |-> 0]
    BY <2>1 DEF Vacant
  <2> QED BY <1>1, <2>1, <2>2 DEF Arrive
<1>3. RequestFits(x)
  BY <1>1 DEF RequestFits, AnyRequest, Places, Early
<1>4. x.gate = flight[r].gate /\ x.slot = flight[r].slot
  BY <1>1 DEF Arrive, Vacant
<1>5. FlightFits' /\ PermitsFit'
  BY <1>0, <1>2, <1>3, <1>4, FlightMoves, PermitsStay
<1>6. ConfFits'
  BY <1>0, GateAssumption DEF ConfFits, Arrive
<1> QED BY <1>0, <1>5, <1>6, LimitersStay, PressureStays DEF GateIInv

LEMMA RoleStep ==
    ASSUME GateIInv, NEW r \in GateSlots, ServiceRoleGuard(r) PROVE GateIInv'
<1>0. /\ ConfFits /\ FlightFits /\ PermitsFit /\ WindowsFit /\ BucketsFit /\ PressureFits
      /\ UNCHANGED <<gateConf, clock, permits, windows, buckets, passed, spent, statuses, pressure, arrivals>>
      /\ flight[r].pc = "role" /\ (Go(r, "abuse") \/ Reply(r, 404))
  BY DEF GateIInv, ServiceRoleGuard
<1>1. FlightFits' /\ PermitsFit'
  <2>1. CASE Go(r, "abuse")
    BY <1>0, <2>1, GoKeeps DEF Places, Early
  <2>2. CASE Reply(r, 404)
    BY <1>0, <2>2, ReplyKeeps
  <2> QED BY <1>0, <2>1, <2>2
<1> QED BY <1>0, <1>1, ConfStays, LimitersStay, PressureStays DEF GateIInv

LEMMA HandlerStep ==
    ASSUME GateIInv, NEW r \in GateSlots, NEW s \in {200, 500}, Handler(r, s) PROVE GateIInv'
<1>0. /\ ConfFits /\ FlightFits /\ PermitsFit /\ WindowsFit /\ BucketsFit /\ PressureFits
      /\ UNCHANGED <<gateConf, clock, permits, windows, buckets, passed, spent, statuses, pressure, arrivals>>
      /\ flight[r].pc = "handler" /\ Reply(r, s) /\ s \in Nat
  BY DEF GateIInv, Handler
<1>1. FlightFits' /\ PermitsFit'
  BY <1>0, ReplyKeeps
<1> QED BY <1>0, <1>1, ConfStays, LimitersStay, PressureStays DEF GateIInv

\* Other limiters count under other keys.
LEMMA OtherKeys ==
    ASSUME NEW ws, NEW k, NEW p, k # RpmKey(p)
    PROVE  /\ RpmKey(p) \in DOMAIN tick(ws, k) <=> RpmKey(p) \in DOMAIN ws
           /\ RpmKey(p) \in DOMAIN ws => tick(ws, k)[RpmKey(p)] = ws[RpmKey(p)]
BY DEF tick

LEMMA AbuseStep ==
    ASSUME GateIInv, NEW r \in GateSlots, AbuseLimit(r) PROVE GateIInv'
<1> DEFINE q == flight[r].req
           ip == client_ip(q)
           w1 == tick(windows, <<"ip", ip>>)
           w2 == tick(w1, <<"actor", ip, q.hk>>)
           w3 == tick(windows, <<"actor", ip, q.hk>>)
<1>0. /\ ConfFits /\ FlightFits /\ PermitsFit /\ WindowsFit /\ BucketsFit /\ PressureFits
      /\ UNCHANGED <<gateConf, clock, permits, buckets, passed, spent, statuses, pressure, arrivals>>
      /\ flight[r].pc = "abuse" /\ (Go(r, "budget") \/ Reply(r, 429))
      /\ windows' = windows \/ windows' = w1 \/ windows' = w2 \/ windows' = w3
  BY DEF GateIInv, AbuseLimit, abuse_counted
<1>1. FlightFits' /\ PermitsFit'
  <2>1. CASE Go(r, "budget")
    BY <1>0, <2>1, GoKeeps DEF Places, Early
  <2>2. CASE Reply(r, 429)
    BY <1>0, <2>2, ReplyKeeps
  <2> QED BY <1>0, <2>1, <2>2
<1>2. ASSUME NEW p
      PROVE  /\ RpmKey(p) \in DOMAIN windows' <=> RpmKey(p) \in DOMAIN windows
             /\ RpmKey(p) \in DOMAIN windows => windows'[RpmKey(p)] = windows[RpmKey(p)]
  <2>1. <<"ip", ip>> # RpmKey(p) /\ <<"actor", ip, q.hk>> # RpmKey(p)
    BY DEF RpmKey
  <2>2. /\ RpmKey(p) \in DOMAIN w1 <=> RpmKey(p) \in DOMAIN windows
        /\ RpmKey(p) \in DOMAIN windows => w1[RpmKey(p)] = windows[RpmKey(p)]
    BY <2>1, OtherKeys
  <2>3. /\ RpmKey(p) \in DOMAIN w2 <=> RpmKey(p) \in DOMAIN w1
        /\ RpmKey(p) \in DOMAIN w1 => w2[RpmKey(p)] = w1[RpmKey(p)]
    BY <2>1, OtherKeys
  <2>4. /\ RpmKey(p) \in DOMAIN w3 <=> RpmKey(p) \in DOMAIN windows
        /\ RpmKey(p) \in DOMAIN windows => w3[RpmKey(p)] = windows[RpmKey(p)]
    BY <2>1, OtherKeys
  <2> HIDE DEF w1, w2, w3
  <2> QED BY <1>0, <2>2, <2>3, <2>4
<1>3. WindowsFit'
  BY <1>0, <1>2 DEF WindowsFit, PeerFits, EdgeAppends
<1>4. BucketsFit'
  BY <1>0 DEF BucketsFit, HotkeyFits
<1> QED BY <1>0, <1>1, <1>3, <1>4, ConfStays, PressureStays DEF GateIInv

LEMMA RateStep ==
    ASSUME GateIInv, NEW r \in GateSlots, RateLimit(r) PROVE GateIInv'
<1>0. /\ ConfFits /\ FlightFits /\ PermitsFit /\ WindowsFit /\ BucketsFit /\ PressureFits
      /\ UNCHANGED <<gateConf, clock, permits, buckets, spent, statuses, pressure, arrivals>>
      /\ flight[r].pc = "window" /\ (Go(r, "route") \/ Reply(r, 429))
  BY DEF GateIInv, RateLimit
<1>1. FlightFits' /\ PermitsFit'
  <2>1. CASE Go(r, "route")
    BY <1>0, <2>1, GoKeeps DEF Places, Early
  <2>2. CASE Reply(r, 429)
    BY <1>0, <2>2, ReplyKeeps
  <2> QED BY <1>0, <2>1, <2>2
<1>2. BucketsFit'
  BY <1>0 DEF BucketsFit, HotkeyFits
<1>3. PICK q : q = flight[r].req /\ q \in GateRequests
  BY <1>0, FlightFact DEF RequestFits
<1>4. PICK ip : ip = client_ip(q)
  OBVIOUS
<1>5. PICK rpm : rpm = gateConf.rpm /\ rpm \in Nat
  BY <1>0, ConfFacts
<1>6. PICK ws, e : ws = tick(windows, RpmKey(ip)) /\ e = ws[RpmKey(ip)]
  OBVIOUS
<1>7. \/ UNCHANGED <<windows, passed>>
      \/ /\ rpm # 0 /\ ip # NONE /\ windows' = ws
         /\ passed' = IF e.count <= rpm THEN [passed EXCEPT ![q.peer][clock] = @ + 1] ELSE passed
  BY <1>3, <1>4, <1>5, <1>6 DEF RateLimit, check, RpmKey
<1>8. WindowsFit'
  <2>1. CASE UNCHANGED <<windows, passed>>
    BY <1>0, <2>1 DEF WindowsFit, PeerFits, EdgeAppends
  <2>2. CASE /\ rpm # 0 /\ ip # NONE /\ windows' = ws
             /\ passed' = IF e.count <= rpm THEN [passed EXCEPT ![q.peer][clock] = @ + 1] ELSE passed
    <3>0. q.peer \in Peers /\ passed \in [Peers -> [Ticks -> Nat]] /\ clock \in Ticks
      BY <1>0, <1>3 DEF Peers, WindowsFit, ConfFits
    <3>1. ASSUME NEW p \in Peers
          PROVE  passed'[p] = IF e.count <= rpm /\ p = q.peer THEN Plus(passed[p], clock) ELSE passed[p]
      BY <2>2, <3>0, <3>1 DEF Plus
    <3>2. passed' \in [Peers -> [Ticks -> Nat]]
      <4>1. CASE e.count <= rpm
        <5>1. passed' = [passed EXCEPT ![q.peer] = Plus(passed[q.peer], clock)]
          BY <2>2, <4>1 DEF Plus
        <5>2. Plus(passed[q.peer], clock) \in [Ticks -> Nat]
          BY <3>0, PlusCounts
        <5> QED BY <3>0, <5>1, <5>2
      <4>2. CASE ~(e.count <= rpm)
        BY <2>2, <3>0, <4>2
      <4> QED BY <4>1, <4>2
    <3>3. ASSUME NEW p \in Peers, EdgeAppends(p), gateConf.rpm > 0 PROVE PeerFits(p)'
      <4>1. PeerFits(p) /\ passed[p] \in [Ticks -> Nat]
        BY <1>0, <3>0, <3>3 DEF WindowsFit
      <4>2. CASE ip = p
        <5>1. RpmKey(p) \in DOMAIN ws /\ e = ws[RpmKey(p)]
          BY <1>6, <4>2 DEF tick
        <5>2. /\ InWindow(passed[p], e, clock, rpm)
              /\ e.count <= rpm /\ Spans(passed[p], rpm) =>
                    InWindow(Plus(passed[p], clock), e, clock, rpm) /\ Spans(Plus(passed[p], clock), rpm)
          <6>1. PICK f, k : f = passed[p] /\ k = RpmKey(p)
            OBVIOUS
          <6>2. /\ f \in [Ticks -> Nat] /\ rpm \in Nat \ {0} /\ clock \in Ticks
                /\ k \notin DOMAIN windows => Quiet(f)
                /\ k \in DOMAIN windows => InWindow(f, windows[k], clock, rpm)
            BY <1>5, <2>2, <3>0, <4>1, <6>1 DEF PeerFits
          <6>3. e = tick(windows, k)[k]
            BY <1>6, <4>2, <6>1
          <6> QED BY <6>1, <6>2, <6>3, WindowTicks
        <5>3. Spans(passed[p], rpm)
          BY <1>5, <4>1 DEF PeerFits
        <5>4. InWindow(passed'[p], e, clock, rpm) /\ Spans(passed'[p], rpm)
          BY <3>1, <5>2, <5>3
        <5>5. windows'[RpmKey(p)] = e /\ RpmKey(p) \in DOMAIN windows'
          BY <2>2, <5>1
        <5> QED BY <1>0, <1>5, <5>4, <5>5 DEF PeerFits
      <4>3. CASE ip # p
        <5>1. q.peer # p
          BY <1>0, <1>3, <1>4, <2>2, <3>3, <4>3, ClientAddress
        <5>2. passed'[p] = passed[p]
          BY <3>1, <5>1
        <5>3. RpmKey(ip) # RpmKey(p)
          BY <4>3 DEF RpmKey
        <5>4. /\ RpmKey(p) \in DOMAIN ws <=> RpmKey(p) \in DOMAIN windows
              /\ RpmKey(p) \in DOMAIN windows => ws[RpmKey(p)] = windows[RpmKey(p)]
          BY <1>6, <5>3, OtherKeys
        <5> QED BY <1>0, <2>2, <4>1, <5>2, <5>4 DEF PeerFits
      <4> QED BY <4>2, <4>3
    <3> QED BY <1>0, <3>2, <3>3 DEF WindowsFit, EdgeAppends
  <2> QED BY <1>7, <2>1, <2>2
<1> QED BY <1>0, <1>1, <1>2, <1>8, ConfStays, PressureStays DEF GateIInv

LEMMA AllowStep ==
    ASSUME GateIInv, NEW r \in GateSlots, NEW gc \in BOOLEAN, allow(r, gc) PROVE GateIInv'
<1>0. /\ ConfFits /\ FlightFits /\ PermitsFit /\ WindowsFit /\ BucketsFit /\ PressureFits
      /\ UNCHANGED <<gateConf, clock, permits, windows, passed, statuses, pressure, arrivals>>
      /\ flight[r].pc = "budget" /\ (Go(r, "gate") \/ Reply(r, 429))
  BY DEF GateIInv, allow
<1>1. FlightFits' /\ PermitsFit'
  <2>1. CASE Go(r, "gate")
    BY <1>0, <2>1, GoKeeps DEF Places, Early
  <2>2. CASE Reply(r, 429)
    BY <1>0, <2>2, ReplyKeeps
  <2> QED BY <1>0, <2>1, <2>2
<1>2. WindowsFit'
  BY <1>0 DEF WindowsFit, PeerFits, EdgeAppends
<1>3. PICK q : q = flight[r].req /\ q \in GateRequests
  BY <1>0, FlightFact DEF RequestFits
<1>4. PICK k : k = q.hk
  OBVIOUS
<1>5. PICK b : b = IF k \in DOMAIN buckets THEN refilled(buckets[k])
                   ELSE [tokens |-> gateConf.burst, at |-> clock]
  OBVIOUS
<1>6. PICK bu, re : bu = gateConf.burst /\ re = gateConf.refill /\ bu \in Nat /\ re \in Nat /\ re * IdleTtl >= bu
  BY <1>0, ConfFacts
<1>7. PICK left : left = {x \in DOMAIN buckets : ~gc \/ clock - buckets[x].at <= IdleTtl} \cup {k}
  OBVIOUS
<1>8. \/ UNCHANGED <<buckets, spent>>
      \/ /\ bu # 0 /\ k # NONE
         /\ buckets' = [x \in left |->
                IF x # k THEN buckets[x] ELSE IF b.tokens >= 1 THEN [b EXCEPT !.tokens = @ - 1] ELSE b]
         /\ spent' = IF b.tokens >= 1 THEN [spent EXCEPT ![k][clock] = @ + 1] ELSE spent
  BY <1>3, <1>4, <1>5, <1>6, <1>7 DEF allow
<1>9. BucketsFit'
  <2>1. CASE UNCHANGED <<buckets, spent>>
    BY <1>0, <2>1 DEF BucketsFit, HotkeyFits
  <2>2. CASE /\ bu # 0 /\ k # NONE
             /\ buckets' = [x \in left |->
                    IF x # k THEN buckets[x] ELSE IF b.tokens >= 1 THEN [b EXCEPT !.tokens = @ - 1] ELSE b]
             /\ spent' = IF b.tokens >= 1 THEN [spent EXCEPT ![k][clock] = @ + 1] ELSE spent
    <3>0. /\ k \in Hotkeys /\ spent \in [Hotkeys -> [Ticks -> Nat]] /\ clock \in Ticks
          /\ DOMAIN buckets \subseteq Hotkeys /\ gateConf.burst > 0
      BY <1>0, <1>3, <1>4, <1>6, <2>2 DEF Hotkeys, BucketsFit, ConfFits
    <3>1. PICK f : f = spent[k] /\ f \in [Ticks -> Nat]
      BY <3>0
    <3>2. HotkeyFits(k)
      BY <1>0, <3>0 DEF BucketsFit
    <3>3. BucketFits(f, b, clock, bu, re) /\ b \in [tokens : Nat, at : {clock}]
      <4>1. CASE k \in DOMAIN buckets
        <5>1. PICK c : c = buckets[k]
          OBVIOUS
        <5>2. BucketFits(f, c, clock, gateConf.burst, gateConf.refill)
          BY <3>1, <3>2, <4>1, <5>1 DEF HotkeyFits
        <5>3. BucketFits(f, refilled(c), clock, gateConf.burst, gateConf.refill)
          BY <1>6, <3>0, <3>1, <5>2, BucketRefills
        <5>4. b = refilled(c)
          BY <1>5, <4>1, <5>1
        <5>5. BucketFits(f, b, clock, bu, re)
          BY <1>6, <5>3, <5>4
        <5>6. b.at = clock
          BY <5>4 DEF refilled
        <5>7. PICK to, at : b = [tokens |-> to, at |-> at] /\ to \in Nat
          BY <5>5 DEF BucketFits
        <5> QED BY <5>5, <5>6, <5>7
      <4>2. CASE k \notin DOMAIN buckets
        <5>1. b = [tokens |-> bu, at |-> clock]
          BY <1>5, <1>6, <4>2
        <5>2. Collected(f, clock, re)
          BY <1>6, <3>1, <3>2, <4>2 DEF HotkeyFits
        <5>3. BucketFits(f, b, clock, bu, re)
          BY <1>6, <3>0, <3>1, <5>1, <5>2, BucketStarts
        <5> QED BY <1>6, <5>1, <5>3
      <4> QED BY <4>1, <4>2
    <3>4. PICK to : b = [tokens |-> to, at |-> clock] /\ to \in Nat
      BY <3>3
    <3>5. PICK c, g : /\ c = [tokens |-> IF to >= 1 THEN to - 1 ELSE to, at |-> clock]
                      /\ g = IF to >= 1 THEN Plus(f, clock) ELSE f
      OBVIOUS
    <3>6. Stretches(f, bu, re)
      BY <1>6, <3>1, <3>2 DEF HotkeyFits
    <3>7. BucketFits(g, c, clock, bu, re) /\ Stretches(g, bu, re) /\ g \in [Ticks -> Nat]
      <4>1. CASE to >= 1
        <5>1. c = [tokens |-> to - 1, at |-> clock] /\ g = Plus(f, clock)
          BY <3>5, <4>1
        <5>2. BucketFits(f, [tokens |-> to, at |-> clock], clock, bu, re)
          BY <3>3, <3>4
        <5>3. /\ BucketFits(Plus(f, clock), [tokens |-> to - 1, at |-> clock], clock, bu, re)
              /\ Stretches(Plus(f, clock), bu, re)
          BY <1>6, <3>0, <3>1, <3>4, <3>6, <4>1, <5>2, BucketSpends
        <5>4. Plus(f, clock) \in [Ticks -> Nat]
          BY <3>0, <3>1, PlusCounts
        <5> QED BY <5>1, <5>3, <5>4
      <4>2. CASE ~(to >= 1)
        BY <3>1, <3>3, <3>4, <3>5, <3>6, <4>2
      <4> QED BY <4>1, <4>2
    <3>8. spent' = [spent EXCEPT ![k] = g]
      <4>1. CASE to >= 1
        <5>1. spent' = [spent EXCEPT ![k][clock] = @ + 1]
          BY <2>2, <3>4, <4>1
        <5> QED BY <3>1, <3>5, <4>1, <5>1 DEF Plus
      <4>2. CASE ~(to >= 1)
        <5>1. spent' = spent /\ g = spent[k]
          BY <2>2, <3>1, <3>4, <3>5, <4>2
        <5> QED BY <3>0, <5>1
      <4> QED BY <4>1, <4>2
    <3>9. /\ buckets' = [x \in left |-> IF x # k THEN buckets[x] ELSE c]
      <4>1. PICK d : d = IF b.tokens >= 1 THEN [b EXCEPT !.tokens = @ - 1] ELSE b
        OBVIOUS
      <4>2. d = c
        <5>1. CASE to >= 1
          <6>1. d = [b EXCEPT !.tokens = @ - 1] /\ to - 1 \in Nat
            BY <3>4, <4>1, <5>1
          <6>2. d = [tokens |-> to - 1, at |-> clock]
            BY <3>4, <6>1
          <6> QED BY <3>5, <5>1, <6>2
        <5>2. CASE ~(to >= 1)
          BY <3>4, <3>5, <4>1, <5>2
        <5> QED BY <5>1, <5>2
      <4> QED BY <2>2, <4>1, <4>2
    <3>10. spent' \in [Hotkeys -> [Ticks -> Nat]]
      BY <3>0, <3>7, <3>8
    <3>11. DOMAIN buckets' = left /\ left \subseteq Hotkeys
      BY <1>7, <3>0, <3>9
    <3>12. ASSUME NEW h \in Hotkeys PROVE HotkeyFits(h)'
      <4>1. CASE h = k
        <5>1. k \in left
          BY <1>7
        <5>2. h \in DOMAIN buckets' /\ buckets'[h] = c /\ spent'[h] = g
          BY <3>0, <3>8, <3>9, <4>1, <5>1
        <5> QED BY <1>0, <1>6, <3>7, <5>2 DEF HotkeyFits
      <4>2. CASE h # k
        <5>1. HotkeyFits(h) /\ spent'[h] = spent[h] /\ spent[h] \in [Ticks -> Nat]
          BY <1>0, <3>0, <3>8, <4>2 DEF BucketsFit
        <5>2. CASE h \in left
          <6>1. h \in DOMAIN buckets /\ h \in DOMAIN buckets' /\ buckets'[h] = buckets[h]
            BY <1>7, <3>9, <4>2, <5>2
          <6> QED BY <1>0, <5>1, <6>1 DEF HotkeyFits
        <5>3. CASE h \notin left
          <6>1. h \notin DOMAIN buckets'
            BY <3>11, <5>3
          <6>2. Collected(spent[h], clock, re)
            <7>1. CASE h \notin DOMAIN buckets
              BY <1>6, <5>1, <7>1 DEF HotkeyFits
            <7>2. CASE h \in DOMAIN buckets
              <8>1. PICK d, e : d = buckets[h] /\ e = spent[h]
                OBVIOUS
              <8>2. ~(clock - d.at <= IdleTtl)
                BY <1>7, <5>3, <7>2, <8>1
              <8>3. BucketFits(e, d, clock, bu, re) /\ e \in [Ticks -> Nat]
                BY <1>6, <5>1, <7>2, <8>1 DEF HotkeyFits
              <8>4. clock - d.at > IdleTtl
                <9>1. clock \in Nat /\ IdleTtl \in Nat /\ d.at \in Nat
                  BY <3>0, <8>3, GateAssumption DEF BucketFits, Ticks
                <9> QED BY <8>2, <9>1
              <8> QED BY <1>6, <3>0, <8>1, <8>3, <8>4, BucketCollected
            <7> QED BY <7>1, <7>2
          <6> QED BY <1>0, <1>6, <5>1, <6>1, <6>2 DEF HotkeyFits
        <5> QED BY <5>2, <5>3
      <4> QED BY <4>1, <4>2
    <3> QED BY <1>0, <3>0, <3>10, <3>11, <3>12 DEF BucketsFit
  <2> QED BY <1>8, <2>1, <2>2
<1> QED BY <1>0, <1>1, <1>2, <1>9, ConfStays, PressureStays DEF GateIInv

LEMMA HotPathStep ==
    ASSUME GateIInv, NEW r \in GateSlots, HotPathGate(r) PROVE GateIInv'
<1> DEFINE g == GateOf(flight[r].req)
<1>0. /\ ConfFits /\ FlightFits /\ PermitsFit /\ WindowsFit /\ BucketsFit /\ PressureFits
      /\ UNCHANGED <<gateConf, clock, windows, buckets, passed, spent, statuses, pressure, arrivals>>
      /\ flight[r].pc \in {"gate", "polling"}
  BY DEF GateIInv, HotPathGate
<1>1. FlightFits' /\ PermitsFit'
  <2>1. CASE UNCHANGED permits /\ Go(r, "window")
    BY <1>0, <2>1, GoKeeps DEF Places, Early
  <2>2. CASE UNCHANGED permits /\ Go(r, "polling")
    BY <1>0, <2>2, GoKeeps DEF Places, Early
  <2>3. CASE UNCHANGED permits /\ Reply(r, 429)
    BY <1>0, <2>3, ReplyKeeps
  <2>4. CASE /\ g # NONE /\ permits[g] > 0
             /\ permits' = [permits EXCEPT ![g] = @ - 1]
             /\ flight' = [flight EXCEPT ![r].pc = "window", ![r].gate = g]
    <3>1. PICK p, q, st : /\ flight[r] = [pc |-> p, req |-> q, gate |-> NONE, slot |-> FALSE, status |-> st]
                          /\ p \in {"gate", "polling"} /\ st \in Nat /\ q \in GateRequests
      BY <1>0, FlightFact DEF RequestFits, AnyRequest, Early
    <3>2. g \in {"submit", "pm_read", "poll"}
      BY <2>4 DEF GateOf
    <3>3. PICK h : h = g
      OBVIOUS
    <3>4. PICK x : x = [pc |-> "window", req |-> q, gate |-> h, slot |-> FALSE, status |-> st]
      OBVIOUS
    <3>5. flight' = [flight EXCEPT ![r] = x]
      <4>1. PICK y : y = flight[r]
        OBVIOUS
      <4>2. PICK z : z = [y EXCEPT !.pc = "window", !.gate = h]
        OBVIOUS
      <4>3. y = [pc |-> p, req |-> q, gate |-> NONE, slot |-> FALSE, status |-> st]
        BY <3>1, <4>1
      <4>4. z = [pc |-> "window", req |-> q, gate |-> h, slot |-> FALSE, status |-> st]
        BY <3>1, <4>2, <4>3
      <4>5. flight' = [flight EXCEPT ![r] = z]
        <5>1. flight' = [[flight EXCEPT ![r].pc = "window"] EXCEPT ![r].gate = h]
          BY <2>4, <3>3
        <5> QED BY <1>0, <4>1, <4>2, <5>1 DEF FlightFits
      <4> QED BY <3>4, <4>4, <4>5
    <3>6. RequestFits(x)
      BY <3>1, <3>2, <3>3, <3>4 DEF RequestFits, AnyRequest, Places, Early
    <3>7. FlightFits'
      BY <1>0, <3>5, <3>6, FlightMoves
    <3>8. /\ permits' = [permits EXCEPT ![h] = @ - 1] /\ permits[h] > 0 /\ h \in Gates
          /\ permits \in [Gates -> Nat]
      BY <1>0, <2>4, <3>2, <3>3 DEF PermitsFit, Gates
    <3>9. permits' \in [Gates -> Nat]
      BY <3>8
    <3>10. ASSUME NEW c \in Gates
           PROVE  permits'[c] + (IF Holds(x, c) THEN 1 ELSE 0)
                    = permits[c] + (IF Holds(flight[r], c) THEN 1 ELSE 0)
      <4>1. ~Holds(flight[r], c)
        BY <3>1, GateAssumption DEF Holds, Gates
      <4>2. Holds(x, c) <=> c = h
        BY <3>4 DEF Holds
      <4> QED BY <3>8, <4>1, <4>2
    <3> QED BY <1>0, <3>5, <3>7, <3>9, <3>10, PermitsMove
  <2> QED BY <2>1, <2>2, <2>3, <2>4 DEF HotPathGate
<1> QED BY <1>0, <1>1, ConfStays, LimitersStay, PressureStays DEF GateIInv

LEMMA SlotStep ==
    ASSUME GateIInv, NEW r \in GateSlots, SubmitSlot(r) PROVE GateIInv'
<1>0. /\ ConfFits /\ FlightFits /\ PermitsFit /\ WindowsFit /\ BucketsFit /\ PressureFits
      /\ UNCHANGED <<gateConf, clock, windows, buckets, passed, spent, statuses, pressure, arrivals>>
      /\ flight[r].pc = "route"
  BY DEF GateIInv, SubmitSlot
<1>1. FlightFits' /\ PermitsFit'
  <2>1. CASE UNCHANGED permits /\ Go(r, "handler")
    BY <1>0, <2>1, GoKeeps DEF Places, Early
  <2>2. CASE UNCHANGED permits /\ Reply(r, 429)
    BY <1>0, <2>2, ReplyKeeps
  <2>3. CASE /\ permits["slot"] > 0
             /\ permits' = [permits EXCEPT !["slot"] = @ - 1]
             /\ flight' = [flight EXCEPT ![r].pc = "handler", ![r].slot = TRUE]
    <3>1. PICK g, q, st : /\ flight[r] = [pc |-> "route", req |-> q, gate |-> g, slot |-> FALSE, status |-> st]
                          /\ g \in {"submit", "pm_read", "poll", NONE} /\ st \in Nat /\ q \in GateRequests
      BY <1>0, FlightFact DEF RequestFits, AnyRequest, Early
    <3>2. PICK x : x = [pc |-> "handler", req |-> q, gate |-> g, slot |-> TRUE, status |-> st]
      OBVIOUS
    <3>3. flight' = [flight EXCEPT ![r] = x]
      <4>1. PICK y : y = flight[r]
        OBVIOUS
      <4>2. PICK z : z = [y EXCEPT !.pc = "handler", !.slot = TRUE]
        OBVIOUS
      <4>3. y = [pc |-> "route", req |-> q, gate |-> g, slot |-> FALSE, status |-> st]
        BY <3>1, <4>1
      <4>4. z = [pc |-> "handler", req |-> q, gate |-> g, slot |-> TRUE, status |-> st]
        BY <4>2, <4>3
      <4>5. flight' = [flight EXCEPT ![r] = z]
        <5>1. flight' = [[flight EXCEPT ![r].pc = "handler"] EXCEPT ![r].slot = TRUE]
          BY <2>3
        <5> QED BY <1>0, <4>1, <4>2, <5>1 DEF FlightFits
      <4> QED BY <3>2, <4>4, <4>5
    <3>4. RequestFits(x)
      BY <3>1, <3>2 DEF RequestFits, AnyRequest, Places, Early
    <3>5. FlightFits'
      BY <1>0, <3>3, <3>4, FlightMoves
    <3>6. "slot" \in Gates /\ permits \in [Gates -> Nat]
      BY <1>0 DEF PermitsFit, Gates
    <3>7. permits' \in [Gates -> Nat]
      BY <2>3, <3>6
    <3>8. ASSUME NEW c \in Gates
          PROVE  permits'[c] + (IF Holds(x, c) THEN 1 ELSE 0)
                   = permits[c] + (IF Holds(flight[r], c) THEN 1 ELSE 0)
      <4>1. CASE c = "slot"
        <5>1. ~Holds(flight[r], c) /\ Holds(x, c)
          BY <3>1, <3>2, <4>1, GateAssumption DEF Holds
        <5> QED BY <2>3, <3>6, <4>1, <5>1
      <4>2. CASE c # "slot"
        <5>1. Holds(flight[r], c) <=> Holds(x, c)
          BY <3>1, <3>2, <4>2 DEF Holds
        <5> QED BY <2>3, <3>6, <4>2, <5>1
      <4> QED BY <4>1, <4>2
    <3> QED BY <1>0, <3>3, <3>5, <3>7, <3>8, PermitsMove
  <2> QED BY <2>1, <2>2, <2>3 DEF SubmitSlot
<1> QED BY <1>0, <1>1, ConfStays, LimitersStay, PressureStays DEF GateIInv

\* Whatever ends a request, its slot is vacant again and its permits are back.
LEMMA VacantKeeps ==
    ASSUME ConfFits, FlightFits, PermitsFit, UNCHANGED gateConf, NEW r \in GateSlots, NEW late,
           permits' = released(r, late), flight' = [flight EXCEPT ![r] = Vacant]
    PROVE  FlightFits' /\ PermitsFit'
<1>1. RequestFits(Vacant)
  BY DEF RequestFits, AnyRequest, Places, Early, Vacant
<1>2. FlightFits'
  BY <1>1, FlightMoves
<1>3. \A c \in Gates : permits'[c] = permits[c] + (IF Holds(flight[r], c) THEN 1 ELSE 0)
  BY DEF released, Holds
<1>4. permits \in [Gates -> Nat]
  BY DEF PermitsFit
<1>5. permits' \in [Gates -> Nat]
  <2>1. permits' = [c \in Gates |-> permits'[c]]
    BY DEF released
  <2>2. \A c \in Gates : permits'[c] \in Nat
    BY <1>3, <1>4
  <2> QED BY <2>1, <2>2
<1>6. \A c \in Gates : ~Holds(Vacant, c)
  BY GateAssumption DEF Holds, Vacant, Gates
<1>7. \A c \in Gates : permits'[c] + (IF Holds(Vacant, c) THEN 1 ELSE 0)
                         = permits[c] + (IF Holds(flight[r], c) THEN 1 ELSE 0)
  BY <1>3, <1>4, <1>6
<1>8. PICK x : x = Vacant
  OBVIOUS
<1>9. PermitsFit'
  BY <1>5, <1>7, <1>8, PermitsMove
<1> QED BY <1>2, <1>9

LEMMA Recorded ==
    ASSUME NEW t \in Nat, NEW d \in Nat, NEW n \in Nat, NEW G, GroupsFit(G, n), t = d + n,
           NEW p, p = [total |-> t, dropped |-> d, groups |-> G], NEW q, NEW s
    PROVE  \E t2 \in Nat, d2 \in Nat, n2 \in Nat : \E G2 :
              /\ record(p, q, s) = [total |-> t2, dropped |-> d2, groups |-> G2]
              /\ GroupsFit(G2, n2) /\ t2 = d2 + n2
<1> DEFINE g == <<q.route, s, q.hk>>
           idle == (s # 429 /\ s < 500) \/ q.route \notin {"submit", "pm_read"}
           full == g \notin DOMAIN G /\ Cardinality(DOMAIN G) >= MaxGroups
           H == [x \in DOMAIN G \cup {g} |-> (IF x \in DOMAIN G THEN G[x] ELSE 0) + IF x = g THEN 1 ELSE 0]
<1>0. /\ IsFiniteSet(DOMAIN G) /\ Cardinality(DOMAIN G) \in Nat /\ MaxGroups \in Nat
      /\ Cardinality(DOMAIN G) <= MaxGroups /\ \A x \in DOMAIN G : G[x] \in Nat
      /\ SumFunctionOnSet(G, DOMAIN G) = n
  BY FS_CardinalityType, GateAssumption DEF GroupsFit
<1>1. CASE idle
  BY <1>1 DEF record
<1>2. CASE ~idle /\ full
  <2>1. record(p, q, s) = [p EXCEPT !.total = @ + 1, !.dropped = @ + 1]
    BY <1>2 DEF record
  <2>2. record(p, q, s) = [total |-> t + 1, dropped |-> d + 1, groups |-> G]
    BY <2>1
  <2>3. t + 1 \in Nat /\ d + 1 \in Nat /\ t + 1 = (d + 1) + n
    OBVIOUS
  <2> QED BY <2>2, <2>3
<1>3. CASE ~idle /\ ~full
  <2>1. record(p, q, s) = [p EXCEPT !.total = @ + 1, !.groups = H]
    BY <1>3 DEF record
  <2> HIDE DEF g, idle
  <2>2. DOMAIN H = DOMAIN G \cup {g} /\ \A x \in DOMAIN H : H[x] \in Nat
    BY <1>0
  <2>3. IsFiniteSet(DOMAIN H) /\ Cardinality(DOMAIN H) <= MaxGroups
    <3>1. CASE g \in DOMAIN G
      <4>1. DOMAIN H = DOMAIN G
        BY <2>2, <3>1
      <4> QED BY <1>0, <4>1
    <3>2. CASE g \notin DOMAIN G
      <4>1. IsFiniteSet(DOMAIN G \cup {g}) /\ Cardinality(DOMAIN G \cup {g}) = Cardinality(DOMAIN G) + 1
        BY <1>0, <3>2, FS_AddElement
      <4>2. Cardinality(DOMAIN G) < MaxGroups
        BY <1>0, <1>3, <3>2
      <4> QED BY <1>0, <2>2, <4>1, <4>2
    <3> QED BY <3>1, <3>2
  <2>4. SumFunctionOnSet(H, DOMAIN H) = n + 1
    <3>1. CASE g \in DOMAIN G
      <4>1. \A x \in DOMAIN G : H[x] = IF x = g THEN G[x] + 1 ELSE G[x]
        BY <1>0
      <4>2. DOMAIN H = DOMAIN G
        BY <2>2, <3>1
      <4> HIDE DEF H
      <4> QED BY <1>0, <3>1, <4>1, <4>2, SumPlusOne
    <3>2. CASE g \notin DOMAIN G
      <4>1. (\A x \in DOMAIN G : H[x] = G[x]) /\ H[g] = 1
        BY <1>0, <3>2
      <4>2. g \in DOMAIN H /\ DOMAIN H \ {g} = DOMAIN G
        BY <2>2, <3>2
      <4> HIDE DEF H
      <4>3. SumFunctionOnSet(H, DOMAIN G) = SumFunctionOnSet(G, DOMAIN G)
        BY <1>0, <4>1, SumFacts
      <4>4. SumFunctionOnSet(H, DOMAIN H) = H[g] + SumFunctionOnSet(H, DOMAIN H \ {g})
        BY <2>2, <2>3, <4>2, SumSplit
      <4> QED BY <1>0, <4>1, <4>2, <4>3, <4>4
    <3> QED BY <3>1, <3>2
  <2>5. GroupsFit(H, n + 1)
    <3> HIDE DEF H
    <3> QED BY <2>2, <2>3, <2>4 DEF GroupsFit
  <2>6. PICK K : K = H
    OBVIOUS
  <2>7. record(p, q, s) = [total |-> t + 1, dropped |-> d, groups |-> K]
    <3>1. record(p, q, s) = [p EXCEPT !.total = @ + 1, !.groups = K]
      BY <2>1, <2>6
    <3> QED BY <3>1
  <2>8. t + 1 \in Nat /\ n + 1 \in Nat /\ t + 1 = d + (n + 1)
    OBVIOUS
  <2> QED BY <2>5, <2>6, <2>7, <2>8
<1> QED BY <1>1, <1>2, <1>3

LEMMA LeaveStep ==
    ASSUME GateIInv, NEW r \in GateSlots, Leave(r) PROVE GateIInv'
<1>0. /\ ConfFits /\ FlightFits /\ PermitsFit /\ WindowsFit /\ BucketsFit /\ PressureFits
      /\ UNCHANGED <<gateConf, clock, windows, buckets, passed, spent, arrivals>>
      /\ permits' = released(r, FALSE) /\ flight' = [flight EXCEPT ![r] = Vacant]
      /\ pressure' = record(pressure, flight[r].req, flight[r].status)
  BY DEF GateIInv, Leave
<1>1. FlightFits' /\ PermitsFit'
  BY <1>0, VacantKeeps
<1>2. PressureFits'
  <2>1. PICK t \in Nat, d \in Nat, n \in Nat : \E G :
            pressure = [total |-> t, dropped |-> d, groups |-> G] /\ GroupsFit(G, n) /\ t = d + n
    BY <1>0 DEF PressureFits
  <2>2. PICK G : pressure = [total |-> t, dropped |-> d, groups |-> G] /\ GroupsFit(G, n) /\ t = d + n
    BY <2>1
  <2>3. PICK p, q, s : p = pressure /\ q = flight[r].req /\ s = flight[r].status
    OBVIOUS
  <2>4. p = [total |-> t, dropped |-> d, groups |-> G] /\ pressure' = record(p, q, s)
    BY <1>0, <2>2, <2>3
  <2>5. \E t2 \in Nat, d2 \in Nat, n2 \in Nat : \E G2 :
            /\ record(p, q, s) = [total |-> t2, dropped |-> d2, groups |-> G2]
            /\ GroupsFit(G2, n2) /\ t2 = d2 + n2
    BY <2>2, <2>4, Recorded
  <2> QED BY <2>4, <2>5 DEF PressureFits
<1> QED BY <1>0, <1>1, <1>2, ConfStays, LimitersStay DEF GateIInv

LEMMA DisconnectStep ==
    ASSUME GateIInv, NEW r \in GateSlots, Disconnect(r) PROVE GateIInv'
<1>0. /\ ConfFits /\ FlightFits /\ PermitsFit /\ WindowsFit /\ BucketsFit /\ PressureFits
      /\ UNCHANGED <<gateConf, clock, windows, buckets, passed, spent, statuses, pressure, arrivals>>
      /\ permits' = released(r, TRUE) /\ flight' = [flight EXCEPT ![r] = Vacant]
  BY DEF GateIInv, Disconnect
<1>1. FlightFits' /\ PermitsFit'
  BY <1>0, VacantKeeps
<1> QED BY <1>0, <1>1, ConfStays, LimitersStay, PressureStays DEF GateIInv

LEMMA TickStep == ASSUME GateIInv, GateTick PROVE GateIInv'
<1>0. /\ ConfFits /\ FlightFits /\ PermitsFit /\ WindowsFit /\ BucketsFit /\ PressureFits
      /\ UNCHANGED <<gateConf, flight, permits, windows, buckets, passed, spent, statuses, pressure, arrivals>>
      /\ clock < MaxGateTime /\ clock' = clock + 1
  BY DEF GateIInv, GateTick
<1>1. /\ clock \in Nat /\ MaxGateTime \in Nat /\ gateConf.refill \in Nat /\ clock' \in Ticks
  BY <1>0, ConfFacts DEF Ticks
<1>2. ConfFits' /\ FlightFits' /\ PermitsFit' /\ PressureFits'
  BY <1>0, <1>1 DEF ConfFits, FlightFits, PermitsFit, Holders, PressureFits
<1>3. \A f, w, rpm : InWindow(f, w, clock, rpm) => InWindow(f, w, clock + 1, rpm)
  BY <1>1 DEF InWindow
<1>4. WindowsFit'
  BY <1>0, <1>3 DEF WindowsFit, PeerFits, EdgeAppends
<1>5. \A f, b, bu, re : BucketFits(f, b, clock, bu, re) => BucketFits(f, b, clock + 1, bu, re)
  BY <1>1 DEF BucketFits
<1>6. ASSUME NEW f \in [Ticks -> Nat], NEW re \in Nat, Collected(f, clock, re)
      PROVE  Collected(f, clock + 1, re)
  <2>1. \A t \in Ticks : t > clock => f[t] = 0
    BY <1>6 DEF Collected
  <2>2. \A t \in Ticks : t > clock + 1 => f[t] = 0
    BY <1>1, <2>1 DEF Ticks
  <2>3. PICK next : next = clock + 1
    OBVIOUS
  <2>4. ASSUME NEW s \in 0..next PROVE Between(f, s, MaxGateTime) <= (next - s) * re
    <3>1. CASE s = next
      <4>1. \A x \in s..MaxGateTime : f[x] = 0
        BY <1>0, <1>1, <2>1, <2>3, <3>1 DEF Ticks
      <4>2. Between(f, s, MaxGateTime) = 0
        BY <1>1, <2>3, <4>1, BetweenZero
      <4>3. (next - s) * re = 0
        BY <1>1, <2>3, <3>1
      <4> QED BY <4>2, <4>3
    <3>2. CASE s # next
      <4>1. s \in 0..clock
        BY <1>1, <2>3, <3>2
      <4>2. Between(f, s, MaxGateTime) <= (clock - s) * re
        BY <1>6, <4>1 DEF Collected
      <4>3. /\ (clock - s) * re \in Nat /\ (next - clock) * re \in Nat /\ (next - s) * re \in Nat
            /\ (clock - s) * re + (next - clock) * re = (next - s) * re
        BY <1>1, <2>3, <4>1, Distances
      <4>4. Between(f, s, MaxGateTime) \in Nat
        BY <1>1, <2>3, BetweenNat
      <4>5. PICK a, b, c, w : a = (clock - s) * re /\ b = (next - clock) * re /\ c = (next - s) * re
                              /\ w = Between(f, s, MaxGateTime)
        OBVIOUS
      <4>6. a \in Nat /\ b \in Nat /\ c \in Nat /\ a + b = c /\ w <= a /\ w \in Nat
        BY <4>2, <4>3, <4>4, <4>5
      <4>7. w <= c
        BY <4>6
      <4> QED BY <4>5, <4>7
    <3> QED BY <3>1, <3>2
  <2>5. \A t \in Ticks : t > next => f[t] = 0
    BY <2>2, <2>3
  <2>6. Collected(f, next, re)
    BY <2>4, <2>5 DEF Collected
  <2> QED BY <2>3, <2>6
<1>7. BucketsFit'
  <2>1. ASSUME NEW h \in Hotkeys, gateConf.burst > 0 PROVE HotkeyFits(h)'
    <3>1. HotkeyFits(h) /\ spent[h] \in [Ticks -> Nat]
      BY <1>0, <2>1 DEF BucketsFit
    <3>2. h \notin DOMAIN buckets => Collected(spent[h], clock + 1, gateConf.refill)
      BY <1>1, <1>6, <3>1 DEF HotkeyFits
    <3>3. h \in DOMAIN buckets =>
             BucketFits(spent[h], buckets[h], clock + 1, gateConf.burst, gateConf.refill)
      BY <1>5, <3>1 DEF HotkeyFits
    <3> QED BY <1>0, <3>1, <3>2, <3>3 DEF HotkeyFits
  <2> QED BY <1>0, <2>1 DEF BucketsFit
<1> QED BY <1>2, <1>4, <1>7 DEF GateIInv

LEMMA GateStarts == ASSUME GateInit PROVE GateIInv
<1>1. ConfFits
  BY GateAssumption DEF GateInit, ConfFits, Ticks
<1>2. /\ gateConf.cap \in Nat /\ gateConf.refill \in Nat /\ gateConf.burst \in Nat /\ gateConf.rpm \in Nat
      /\ MaxGateTime \in Nat /\ clock = 0 /\ clock \in Nat
  BY <1>1, ConfFacts DEF GateInit
<1>3. FlightFits
  BY DEF GateInit, FlightFits, RequestFits, AnyRequest, Places, Early, Vacant
<1>4. PermitsFit
  <2>1. \A g \in Gates : Holders(g) = {}
    BY GateAssumption DEF GateInit, Holders, Holds, Vacant, Gates
  <2>2. Cardinality({}) = 0
    BY FS_EmptySet
  <2>3. \A g \in Gates : permits[g] = gateConf.cap /\ Cardinality(Holders(g)) = 0
    BY <2>1, <2>2 DEF GateInit
  <2>4. permits \in [Gates -> Nat]
    BY <1>2 DEF GateInit
  <2> QED BY <1>2, <2>3, <2>4 DEF PermitsFit
<1>5. PICK zero : zero = [t \in Ticks |-> 0]
  OBVIOUS
<1>6. zero \in [Ticks -> Nat] /\ \A t \in Ticks : zero[t] = 0
  BY <1>5
<1>7. \A s \in Nat, t \in Int : t <= MaxGateTime => Between(zero, s, t) = 0
  <2>1. ASSUME NEW s \in Nat, NEW t \in Int, t <= MaxGateTime PROVE Between(zero, s, t) = 0
    <3>1. \A x \in s..t : zero[x] = 0
      BY <1>2, <1>6, <2>1 DEF Ticks
    <3> QED BY <1>6, <2>1, <3>1, BetweenZero
  <2> QED BY <2>1
<1>8. WindowsFit
  <2>1. Quiet(zero)
    BY <1>6 DEF Quiet
  <2>2. ASSUME NEW n \in Nat PROVE Spans(zero, n)
    <3>1. ASSUME NEW t \in 0..(MaxGateTime - Window + 1) PROVE Between(zero, t, t + Window - 1) <= 2 * n
      <4>1. t \in Nat /\ t + Window - 1 \in Int /\ t + Window - 1 <= MaxGateTime
        BY <1>2, GateAssumption
      <4>2. Between(zero, t, t + Window - 1) = 0
        BY <1>7, <4>1
      <4> QED BY <4>2
    <3> QED BY <3>1 DEF Spans
  <2>3. DOMAIN windows = {} /\ passed = [p \in Peers |-> zero]
    BY <1>5 DEF GateInit
  <2> QED BY <1>2, <1>6, <2>1, <2>2, <2>3 DEF WindowsFit, PeerFits
<1>9. BucketsFit
  <2>1. ASSUME NEW n \in Nat PROVE Collected(zero, 0, n)
    <3>1. ASSUME NEW s \in 0..0 PROVE Between(zero, s, MaxGateTime) <= (0 - s) * n
      <4>1. s = 0 /\ (0 - s) * n = 0 /\ s \in Nat /\ MaxGateTime \in Int
        BY <1>2
      <4>2. Between(zero, s, MaxGateTime) = 0
        BY <1>2, <1>7, <4>1
      <4> QED BY <4>1, <4>2
    <3> QED BY <1>6, <3>1 DEF Collected
  <2>2. ASSUME NEW n \in Nat, NEW b \in Nat PROVE Stretches(zero, b, n)
    <3>1. ASSUME NEW s \in Ticks, NEW t \in s..MaxGateTime PROVE Between(zero, s, t) <= b + (t - s) * n
      <4>1. s \in Nat /\ t \in Nat /\ s <= t /\ t <= MaxGateTime
        BY <1>2 DEF Ticks
      <4>2. Between(zero, s, t) = 0 /\ (t - s) * n \in Nat
        BY <1>7, <4>1, Distances
      <4> QED BY <4>2
    <3> QED BY <3>1 DEF Stretches
  <2>3. DOMAIN buckets = {} /\ spent = [h \in Hotkeys |-> zero]
    BY <1>5 DEF GateInit
  <2> QED BY <1>2, <1>6, <2>1, <2>2, <2>3 DEF BucketsFit, HotkeyFits
<1>10. PressureFits
  <2>1. DOMAIN <<>> = {} /\ Cardinality({}) = 0 /\ IsFiniteSet({})
    BY FS_EmptySet
  <2>2. PICK G : G = <<>>
    OBVIOUS
  <2>3. DOMAIN G = {}
    BY <2>2
  <2>4. SumFunctionOnSet(G, {}) = 0
    <3>1. IsFiniteSet({}) /\ \A x \in {} : G[x] \in Nat /\ G[x] = 0
      BY <2>1
    <3> QED BY <3>1, SumFacts
  <2>5. GroupsFit(G, 0)
    BY <2>1, <2>3, <2>4, GateAssumption DEF GroupsFit
  <2>6. pressure = [total |-> 0, dropped |-> 0, groups |-> G]
    BY <2>2 DEF GateInit
  <2>7. 0 \in Nat /\ 0 = 0 + 0
    OBVIOUS
  <2> QED BY <2>5, <2>6, <2>7 DEF PressureFits
<1> QED BY <1>1, <1>3, <1>4, <1>8, <1>9, <1>10 DEF GateIInv

LEMMA GateSteps == ASSUME GateIInv, [GateNext]_gateVars PROVE GateIInv'
<1>1. CASE UNCHANGED gateVars
  <2>0. /\ ConfFits /\ FlightFits /\ PermitsFit /\ WindowsFit /\ BucketsFit /\ PressureFits
        /\ UNCHANGED <<gateConf, clock, flight, permits, windows, buckets, passed, spent, statuses,
                       pressure, arrivals>>
    BY <1>1 DEF GateIInv, gateVars
  <2>1. ConfFits' /\ FlightFits' /\ PermitsFit' /\ PressureFits'
    BY <2>0 DEF ConfFits, FlightFits, PermitsFit, Holders, PressureFits
  <2> QED BY <2>0, <2>1, LimitersStay DEF GateIInv
<1>2. CASE \E r \in GateSlots :
             \/ \E q \in GateRequests : Arrive(r, q)
             \/ \E gc \in BOOLEAN : allow(r, gc)
             \/ \E s \in {200, 500} : Handler(r, s)
             \/ ServiceRoleGuard(r) \/ AbuseLimit(r) \/ HotPathGate(r) \/ RateLimit(r)
             \/ SubmitSlot(r) \/ Leave(r) \/ Disconnect(r)
  BY <1>2, ArriveStep, AllowStep, HandlerStep, RoleStep, AbuseStep, HotPathStep, RateStep, SlotStep,
     LeaveStep, DisconnectStep
<1> QED BY <1>1, <1>2, TickStep DEF GateNext

LEMMA GateImplied == ASSUME GateIInv PROVE GateInv
<1>0. ConfFits /\ FlightFits /\ PermitsFit /\ WindowsFit /\ BucketsFit /\ PressureFits
  BY DEF GateIInv
<1>1. GatesBalanced
  BY <1>0 DEF GatesBalanced, PermitsFit, Holders, Holds
<1>2. GateTypeOK
  <2>1. \A g \in Gates : permits[g] \in 0..gateConf.cap
    <3>1. ASSUME NEW g \in Gates PROVE permits[g] \in 0..gateConf.cap
      <4>1. IsFiniteSet(Holders(g))
        <5>1. Holders(g) \in SUBSET GateSlots
          BY DEF Holders
        <5> QED BY <5>1, GateAssumption, FS_Subset
      <4>2. Cardinality(Holders(g)) \in Nat
        BY <4>1, FS_CardinalityType
      <4> QED BY <1>0, <4>2, ConfFacts DEF PermitsFit
    <3> QED BY <3>1
  <2>2. \A k \in DOMAIN buckets : buckets[k].tokens \in Nat
    <3>1. ASSUME NEW k \in DOMAIN buckets PROVE buckets[k].tokens \in Nat
      <4>1. k \in Hotkeys /\ gateConf.burst > 0
        BY <1>0, <3>1, ConfFacts DEF BucketsFit
      <4>2. BucketFits(spent[k], buckets[k], clock, gateConf.burst, gateConf.refill)
        BY <1>0, <3>1, <4>1 DEF BucketsFit, HotkeyFits
      <4> QED BY <4>2 DEF BucketFits
    <3> QED BY <3>1
  <2>3. Cardinality(DOMAIN pressure.groups) <= MaxGroups
        /\ pressure.total = pressure.dropped + SumFunction(pressure.groups)
    <3>1. PICK t \in Nat, d \in Nat, n \in Nat : \E G :
              pressure = [total |-> t, dropped |-> d, groups |-> G] /\ GroupsFit(G, n) /\ t = d + n
      BY <1>0 DEF PressureFits
    <3>2. PICK G : pressure = [total |-> t, dropped |-> d, groups |-> G] /\ GroupsFit(G, n) /\ t = d + n
      BY <3>1
    <3>3. pressure.groups = G /\ pressure.total = t /\ pressure.dropped = d
      BY <3>2
    <3> QED BY <3>2, <3>3 DEF GroupsFit, SumFunction
  <2> QED BY <1>0, <2>1, <2>2, <2>3 DEF GateTypeOK, ConfFits
<1>3. FloodBounded
  <2>1. ASSUME gateConf.rpm > 0, NEW p \in Peers, NEW t \in 0..(MaxGateTime - Window + 1), EdgeAppends(p)
        PROVE  Between(passed[p], t, t + Window - 1) <= 2 * gateConf.rpm
    BY <1>0, <2>1 DEF WindowsFit, PeerFits, Spans
  <2>2. ASSUME gateConf.burst > 0, NEW h \in Hotkeys, NEW s \in Ticks, NEW t \in s..MaxGateTime
        PROVE  Between(spent[h], s, t) <= gateConf.burst + (t - s) * gateConf.refill
    BY <1>0, <2>2 DEF BucketsFit, HotkeyFits, Stretches
  <2> QED BY <2>1, <2>2 DEF FloodBounded
<1> QED BY <1>1, <1>2, <1>3 DEF GateInv

THEOREM GatesHold == GateInit /\ [][GateNext]_gateVars => []GateInv
<1>1. GateInit => GateIInv
  BY GateStarts
<1>2. GateIInv /\ [GateNext]_gateVars => GateIInv'
  BY GateSteps
<1>3. GateIInv => GateInv
  BY GateImplied
<1> QED BY <1>1, <1>2, <1>3, PTL

----------------------------------------------------------------------------
(* The seeding of the thin publisher                                        *)

IsKey(k) == k.ran \in Nat /\ k.id \in Nat \cup {NONE}

LEMMA RowKeys == \A r \in FeedRows : IsKey(r) /\ r.id \in Nat /\ r.id # NONE /\ OrZero(r.id) = r.id
BY SeedAssumption DEF IsKey, OrZero

LEMMA KeyOrder ==
    /\ \A a, b, c : IsKey(a) /\ IsKey(b) /\ IsKey(c) /\ tuple_gt(a, b) /\ tuple_gt(b, c) => tuple_gt(a, c)
    /\ \A a, b, c : IsKey(a) /\ IsKey(b) /\ IsKey(c) /\ ~tuple_gt(a, b) /\ ~tuple_gt(b, c) => ~tuple_gt(a, c)
    /\ \A a, b : IsKey(a) /\ IsKey(b) /\ tuple_gt(a, b) => ~tuple_gt(b, a)
    /\ \A r, s \in FeedRows : ~tuple_gt(r, s) /\ ~tuple_gt(s, r) => r = s
    /\ \A r \in FeedRows : ~tuple_gt(r, r)
<1>1. \A a : IsKey(a) => a.ran \in Nat /\ OrZero(a.id) \in Nat
  BY DEF IsKey, OrZero
<1>2. \A a, b, c : IsKey(a) /\ IsKey(b) /\ IsKey(c) /\ tuple_gt(a, b) /\ tuple_gt(b, c) => tuple_gt(a, c)
  BY <1>1 DEF tuple_gt
<1>3. \A a, b, c : IsKey(a) /\ IsKey(b) /\ IsKey(c) /\ ~tuple_gt(a, b) /\ ~tuple_gt(b, c) => ~tuple_gt(a, c)
  BY <1>1 DEF tuple_gt
<1>4. \A a, b : IsKey(a) /\ IsKey(b) /\ tuple_gt(a, b) => ~tuple_gt(b, a)
  BY <1>1 DEF tuple_gt
<1>5. ASSUME NEW r \in FeedRows, NEW s \in FeedRows, ~tuple_gt(r, s), ~tuple_gt(s, r) PROVE r = s
  <2>1. r.ran = s.ran /\ r.id = s.id
    BY <1>5, RowKeys DEF tuple_gt, IsKey
  <2> QED BY <2>1, SeedAssumption
<1>6. \A r \in FeedRows : ~tuple_gt(r, r)
  BY <1>4, RowKeys
<1> QED BY <1>2, <1>3, <1>4, <1>5, <1>6

Under(S, r) == {x \in S : tuple_gt(r, x)}

LEMMA Ranks ==
    ASSUME NEW S \in SUBSET FeedRows
    PROVE  /\ Cardinality(S) \in Nat
           /\ \A r \in S : Cardinality(Under(S, r)) \in 0..(Cardinality(S) - 1)
           /\ \A r, s \in S : tuple_gt(r, s) => Cardinality(Under(S, s)) < Cardinality(Under(S, r))
           /\ \A k \in 0..(Cardinality(S) - 1) : \E r \in S : Cardinality(Under(S, r)) = k
<1> DEFINE n == Cardinality(S)
           f == [r \in S |-> Cardinality(Under(S, r))]
<1>1. IsFiniteSet(S) /\ n \in Nat
  BY SeedAssumption, FS_Subset, FS_CardinalityType
<1>2. ASSUME NEW r \in S PROVE IsFiniteSet(Under(S, r)) /\ Cardinality(Under(S, r)) \in Nat
  <2>1. Under(S, r) \in SUBSET S
    BY DEF Under
  <2> QED BY <1>1, <2>1, FS_Subset, FS_CardinalityType
<1>3. ASSUME NEW r \in S PROVE Cardinality(Under(S, r)) \in 0..(n - 1)
  <2>1. Under(S, r) \in SUBSET (S \ {r})
    BY KeyOrder DEF Under
  <2>2. IsFiniteSet(S \ {r}) /\ Cardinality(S \ {r}) = n - 1
    BY <1>1, FS_RemoveElement
  <2>3. Cardinality(Under(S, r)) <= n - 1
    BY <2>1, <2>2, FS_Subset
  <2> QED BY <1>1, <1>2, <2>3
<1>4. ASSUME NEW r \in S, NEW s \in S, tuple_gt(r, s)
      PROVE  Cardinality(Under(S, s)) < Cardinality(Under(S, r))
  <2>1. Under(S, s) \cup {s} \in SUBSET Under(S, r)
    BY <1>4, KeyOrder, RowKeys DEF Under
  <2>2. s \notin Under(S, s)
    BY KeyOrder DEF Under
  <2>3. Cardinality(Under(S, s) \cup {s}) = Cardinality(Under(S, s)) + 1
    BY <1>2, <2>2, FS_AddElement
  <2>4. Cardinality(Under(S, s) \cup {s}) <= Cardinality(Under(S, r))
    BY <1>2, <2>1, FS_Subset
  <2> QED BY <1>2, <2>3, <2>4
<1>5. f \in Injection(S, 0..(n - 1))
  <2>1. f \in [S -> 0..(n - 1)]
    BY <1>3
  <2>2. ASSUME NEW r \in S, NEW s \in S, f[r] = f[s] PROVE r = s
    <3>1. ~tuple_gt(r, s) /\ ~tuple_gt(s, r)
      BY <1>2, <1>4, <2>2
    <3> QED BY <3>1, KeyOrder
  <2> HIDE DEF f
  <2> QED BY <2>1, <2>2 DEF Injection, IsInjective
<1>6. IsFiniteSet(0..(n - 1)) /\ Cardinality(0..(n - 1)) = n
  <2>1. n - 1 \in Int /\ 0 \in Int
    BY <1>1
  <2> HIDE DEF n
  <2>2. IsFiniteSet(0..(n - 1)) /\ Cardinality(0..(n - 1)) = IF 0 > n - 1 THEN 0 ELSE (n - 1) - 0 + 1
    BY <2>1, FS_Interval
  <2> QED BY <1>1, <2>2
<1>7. f \in Surjection(S, 0..(n - 1))
  <2> HIDE DEF f
  <2> QED BY <1>5, <1>6, FS_Injection
<1>8. ASSUME NEW k \in 0..(n - 1) PROVE \E r \in S : Cardinality(Under(S, r)) = k
  <2>1. \E r \in S : f[r] = k
    BY <1>7 DEF Surjection
  <2> QED BY <2>1
<1> QED BY <1>1, <1>3, <1>4, <1>8

LEMMA OrderedFacts ==
    ASSUME NEW S \in SUBSET FeedRows
    PROVE  /\ Ordered(S) \in Seq(S) /\ Len(Ordered(S)) = Cardinality(S)
           /\ \A i, j \in 1..Cardinality(S) : i < j => tuple_gt(Ordered(S)[j], Ordered(S)[i])
           /\ \A r \in S : \E i \in 1..Cardinality(S) : r = Ordered(S)[i]
<1> DEFINE n == Cardinality(S)
           o == Ordered(S)
           rank(r) == Cardinality(Under(S, r))
<1>1. /\ n \in Nat
      /\ \A r \in S : rank(r) \in 0..(n - 1)
      /\ \A r, s \in S : tuple_gt(r, s) => rank(s) < rank(r)
      /\ \A k \in 0..(n - 1) : \E r \in S : rank(r) = k
  BY Ranks
<1>2. o = [k \in 1..n |-> CHOOSE r \in S : rank(r) = k - 1]
  BY DEF Ordered, Under
<1> HIDE DEF rank, n, o
<1>3. ASSUME NEW k \in 1..n PROVE o[k] \in S /\ rank(o[k]) = k - 1
  <2>1. k - 1 \in 0..(n - 1)
    BY <1>1
  <2>2. \E r \in S : rank(r) = k - 1
    BY <1>1, <2>1
  <2> QED BY <1>2, <2>2
<1>4. o \in Seq(S) /\ Len(o) = n
  <2>1. DOMAIN o = 1..n /\ o \in [1..n -> S]
    BY <1>2, <1>3
  <2>2. o \in Seq(S)
    BY <1>1, <2>1, SeqDef
  <2>3. Len(o) \in Nat /\ 1..Len(o) = 1..n
    BY <2>1, <2>2, LenProperties
  <2>4. Len(o) = n
    BY <1>1, <2>3
  <2> QED BY <2>2, <2>4
<1>5. ASSUME NEW i \in 1..n, NEW j \in 1..n, i < j PROVE tuple_gt(o[j], o[i])
  <2>1. rank(o[i]) < rank(o[j])
    BY <1>1, <1>3, <1>5
  <2>2. ~tuple_gt(o[i], o[j]) /\ o[i] # o[j]
    BY <1>1, <1>3, <2>1
  <2>3. o[i] \in FeedRows /\ o[j] \in FeedRows
    BY <1>3
  <2> QED BY <2>2, <2>3, KeyOrder
<1>6. ASSUME NEW r \in S PROVE \E i \in 1..n : r = o[i]
  <2>1. rank(r) + 1 \in 1..n /\ (rank(r) + 1) - 1 = rank(r)
    BY <1>1
  <2>2. rank(o[rank(r) + 1]) = rank(r) /\ o[rank(r) + 1] \in S
    BY <1>3, <2>1
  <2>3. ~tuple_gt(r, o[rank(r) + 1]) /\ ~tuple_gt(o[rank(r) + 1], r)
    BY <1>1, <2>2
  <2>4. r \in FeedRows /\ o[rank(r) + 1] \in FeedRows
    BY <2>2
  <2>5. r = o[rank(r) + 1]
    BY <2>3, <2>4, KeyOrder
  <2> QED BY <2>1, <2>5
<1> QED BY <1>4, <1>5, <1>6 DEF n, o

\* A page is increasing, behind the cursor, and leaves no row out up to its last.
InOrder(p) == \A i, j \in 1..Len(p) : i < j => tuple_gt(p[j], p[i])

LEMMA PageFacts ==
    ASSUME NEW ran \in Nat, NEW id \in Nat \cup {NONE}
    PROVE  /\ recent_rows(ran, id) \in Seq(FeedRows)
           /\ InOrder(recent_rows(ran, id))
           /\ \A r \in FeedRows : \A j \in 1..Len(recent_rows(ran, id)) :
                 tuple_gt(r, [ran |-> ran, id |-> id]) /\ ~tuple_gt(r, recent_rows(ran, id)[j]) =>
                     \E i \in 1..Len(recent_rows(ran, id)) : r = recent_rows(ran, id)[i]
<1> DEFINE S == {r \in FeedRows : tuple_gt(r, [ran |-> ran, id |-> id])}
           o == Ordered(S)
           n == Cardinality(S)
           m == IF Len(o) < PageLimit THEN Len(o) ELSE PageLimit
           p == recent_rows(ran, id)
<1>1. S \in SUBSET FeedRows
  OBVIOUS
<1>2. /\ o \in Seq(S) /\ Len(o) = n /\ n \in Nat
      /\ \A i, j \in 1..n : i < j => tuple_gt(o[j], o[i])
      /\ \A r \in S : \E i \in 1..n : r = o[i]
  <2> HIDE DEF S
  <2> QED BY <1>1, OrderedFacts, Ranks
<1>3. p = SubSeq(o, 1, m)
  BY DEF recent_rows
<1> HIDE DEF o, n
<1>4. m \in 0..n
  BY <1>2, SeedAssumption
<1> HIDE DEF m, p
<1>5. p \in Seq(S) /\ Len(p) = m /\ \A i \in 1..m : p[i] = o[i]
  <2> HIDE DEF S
  <2>1. \A i \in 1..m : o[i] \in S
    BY <1>2, <1>4, LenProperties
  <2>2. m \in Int /\ 1 \in Int
    BY <1>4
  <2>3. /\ p \in Seq(S) /\ Len(p) = (IF 1 <= m THEN m - 1 + 1 ELSE 0)
        /\ \A i \in 1..(m - 1 + 1) : p[i] = o[1 + i - 1]
    BY <1>3, <2>1, <2>2, SubSeqProperties
  <2>4. Len(p) = m
    BY <1>4, <2>3
  <2>5. ASSUME NEW i \in 1..m PROVE p[i] = o[i]
    <3>1. i \in 1..(m - 1 + 1) /\ 1 + i - 1 = i
      BY <1>4
    <3> QED BY <2>3, <3>1
  <2> QED BY <2>3, <2>4, <2>5
<1>6. p \in Seq(FeedRows)
  BY <1>1, <1>5, SeqMonotonic
<1>7. InOrder(p)
  BY <1>2, <1>4, <1>5 DEF InOrder
<1>8. ASSUME NEW r \in FeedRows, NEW j \in 1..Len(p), tuple_gt(r, [ran |-> ran, id |-> id]),
             ~tuple_gt(r, p[j])
      PROVE  \E i \in 1..Len(p) : r = p[i]
  <2>1. PICK i \in 1..n : r = o[i]
    BY <1>2, <1>8
  <2>2. j \in 1..n /\ p[j] = o[j]
    <3>1. j \in 1..m
      BY <1>5
    <3> QED BY <1>2, <1>4, <1>5, <3>1
  <2>3. ~(j < i)
    BY <1>2, <1>8, <2>1, <2>2
  <2>4. i \in 1..m
    BY <1>4, <1>5, <2>1, <2>2, <2>3
  <2> QED BY <1>5, <2>1, <2>4
<1> QED BY <1>6, <1>7, <1>8 DEF p

\* Every sound row not above a key is stored, or was passed over by a half-written
\* watermark.
Settled == stored \cup jumped
RowsBelow(ran, id) ==
    \A r \in FeedRows : r.kind = "sound" /\ ~tuple_gt(r, [ran |-> ran, id |-> id]) => r \in Settled

SeedShapes ==
    /\ stored \in SUBSET FeedRows /\ jumped \in SUBSET FeedRows
    /\ mark \in [ran : Nat, id : Nat \cup {NONE}]
    /\ seeder \in [pc : {"rest", "fetch", "insert", "ran", "id", "board"}, ran : Nat,
                   id : Nat \cup {NONE}, page : Seq(FeedRows), short : BOOLEAN,
                   newest : [ran : Nat, id : Nat \cup {NONE}]]
    /\ \A i \in DOMAIN mirror : mirror[i] \in {"external", "local"}
    /\ passes \in 0..MaxPasses /\ seedFaults \in 0..MaxSeedFaults

\* Between the two writes of a checkpoint the watermark is half moved.
MarkFits ==
    /\ seeder.pc # "id" => RowsBelow(mark.ran, mark.id)
    /\ seeder.pc = "id" => /\ mark.ran = seeder.newest.ran
                           /\ seeder.newest.id = NONE => RowsBelow(mark.ran, mark.id)

NewestFits ==
    seeder.pc \in {"fetch", "insert", "ran", "id"} =>
        /\ RowsBelow(seeder.newest.ran, seeder.newest.id)
        /\ seeder.newest.id = NONE => seeder.newest.ran = mark.ran

CursorFits ==
    seeder.pc \in {"fetch", "ran", "id"} => RowsBelow(seeder.ran, seeder.id)

PageCovers(p) ==
    \A r \in FeedRows : r.kind = "sound" /\ ~tuple_gt(r, p[Len(p)]) =>
        r \in Settled \/ \E i \in 1..Len(p) : r = p[i]
PageFits ==
    seeder.pc = "insert" => /\ seeder.page # <<>>
                            /\ InOrder(seeder.page)
                            /\ PageCovers(seeder.page)

SeedIInv == SeedShapes /\ MarkFits /\ NewestFits /\ CursorFits /\ PageFits

LEMMA KeyOf2 ==
    /\ \A r, k : tuple_gt(r, [ran |-> k.ran, id |-> k.id]) <=> tuple_gt(r, k)
BY DEF tuple_gt

LEMMA NothingBelowZero == RowsBelow(0, NONE)
<1> SUFFICES ASSUME NEW r \in FeedRows PROVE tuple_gt(r, [ran |-> 0, id |-> NONE])
  BY DEF RowsBelow
<1>1. r.ran \in Nat /\ r.id \in Nat \ {0} /\ r.id # NONE
  BY SeedAssumption
<1>2. OrZero(r.id) = r.id /\ OrZero(NONE) = 0
  BY <1>1 DEF OrZero
<1> QED BY <1>1, <1>2 DEF tuple_gt

LEMMA SeedStarts == SeedInit => SeedIInv
<1> SUFFICES ASSUME SeedInit PROVE SeedIInv
  OBVIOUS
<1>1. seeder.pc = "rest" /\ mark.ran = 0 /\ mark.id = NONE
  BY DEF SeedInit, Started
<1>2. SeedShapes
  <2>1. <<>> \in Seq(FeedRows)
    BY EmptySeq
  <2> QED BY <2>1, SeedAssumption DEF SeedInit, SeedShapes, Started
<1>3. MarkFits
  BY <1>1, NothingBelowZero DEF MarkFits
<1> QED BY <1>1, <1>2, <1>3 DEF SeedIInv, NewestFits, CursorFits, PageFits

LEMMA BelowGrows ==
    stored \subseteq stored' /\ jumped \subseteq jumped' =>
        \A ran, id : RowsBelow(ran, id) => RowsBelow(ran, id)'
BY DEF RowsBelow, Settled

LEMMA StartSeedKeeps == SeedIInv /\ StartSeed => SeedIInv'
<1> SUFFICES ASSUME SeedIInv, StartSeed PROVE SeedIInv'
  OBVIOUS
<1> DEFINE i == IF mark.ran = 0 THEN NONE ELSE mark.id
<1>0. SeedShapes /\ MarkFits
  BY DEF SeedIInv
<1>1. mark.ran \in Nat /\ mark.id \in Nat \cup {NONE} /\ seeder.pc = "rest"
  BY <1>0 DEF SeedShapes, StartSeed
<1>2. seeder' = [pc |-> "fetch", ran |-> mark.ran, id |-> i, page |-> <<>>, short |-> FALSE,
                 newest |-> [ran |-> mark.ran, id |-> i]]
  BY DEF StartSeed, Started
<1>3. RowsBelow(mark.ran, i)
  BY <1>0, <1>1, NothingBelowZero DEF MarkFits
<1>5. i \in Nat \cup {NONE}
  BY <1>1
<1> HIDE DEF i
<1>6. UNCHANGED <<stored, mark, mirror, seedFaults, jumped>> /\ passes' = passes + 1 /\ passes < MaxPasses
  BY DEF StartSeed
<1>7. SeedShapes'
  <2>1. <<>> \in Seq(FeedRows)
    BY EmptySeq
  <2>2. seeder' \in [pc : {"rest", "fetch", "insert", "ran", "id", "board"}, ran : Nat,
                     id : Nat \cup {NONE}, page : Seq(FeedRows), short : BOOLEAN,
                     newest : [ran : Nat, id : Nat \cup {NONE}]]
    BY <1>1, <1>2, <1>5, <2>1
  <2>3. passes' \in 0..MaxPasses
    BY <1>0, <1>6, SeedAssumption DEF SeedShapes
  <2> QED BY <1>0, <1>6, <2>2, <2>3 DEF SeedShapes
<1>8. \A a, b : RowsBelow(a, b) => RowsBelow(a, b)'
  BY <1>6, BelowGrows
<1>9. MarkFits'
  BY <1>0, <1>1, <1>2, <1>6, <1>8 DEF MarkFits
<1>10. NewestFits' /\ CursorFits' /\ PageFits'
  BY <1>2, <1>3, <1>6, <1>8 DEF NewestFits, CursorFits, PageFits
<1> QED BY <1>7, <1>9, <1>10 DEF SeedIInv

LEMMA ReadKeeps == SeedIInv /\ leaderboard_recent => SeedIInv'
<1> SUFFICES ASSUME SeedIInv, leaderboard_recent PROVE SeedIInv'
  OBVIOUS
<1> DEFINE page == recent_rows(seeder.ran, seeder.id)
<1>0. SeedShapes /\ MarkFits /\ NewestFits /\ CursorFits /\ seeder.pc = "fetch"
  BY DEF SeedIInv, leaderboard_recent
<1>1. PICK ra, i, pg, sh, ne : /\ seeder = [pc |-> "fetch", ran |-> ra, id |-> i, page |-> pg,
                                            short |-> sh, newest |-> ne]
                               /\ ra \in Nat /\ i \in Nat \cup {NONE} /\ pg \in Seq(FeedRows)
                               /\ sh \in BOOLEAN /\ ne \in [ran : Nat, id : Nat \cup {NONE}]
  BY <1>0 DEF SeedShapes
<1>2. /\ page \in Seq(FeedRows) /\ InOrder(page)
      /\ \A r \in FeedRows : \A j \in 1..Len(page) :
            tuple_gt(r, [ran |-> ra, id |-> i]) /\ ~tuple_gt(r, page[j]) =>
                \E k \in 1..Len(page) : r = page[k]
  <2>1. page = recent_rows(ra, i)
    BY <1>1
  <2> HIDE DEF page
  <2> QED BY <1>1, <2>1, PageFacts
<1>3. UNCHANGED <<stored, mark, mirror, passes, seedFaults, jumped>>
  BY DEF leaderboard_recent
<1>4. \/ seeder' = [seeder EXCEPT !.pc = "board"]
      \/ page # <<>> /\ seeder' = [seeder EXCEPT !.pc = "insert", !.page = page,
                                                !.short = Len(page) < PageLimit]
  BY DEF leaderboard_recent
<1> HIDE DEF page
<1>5. \A a, b : RowsBelow(a, b) => RowsBelow(a, b)'
  BY <1>3, BelowGrows
<1>6. CASE seeder' = [seeder EXCEPT !.pc = "board"]
  <2>1. seeder' = [pc |-> "board", ran |-> ra, id |-> i, page |-> pg, short |-> sh, newest |-> ne]
    BY <1>1, <1>6
  <2>2. SeedShapes'
    BY <1>0, <1>1, <1>3, <2>1 DEF SeedShapes
  <2>3. MarkFits'
    BY <1>0, <1>3, <1>5, <2>1 DEF MarkFits
  <2> QED BY <2>1, <2>2, <2>3 DEF SeedIInv, NewestFits, CursorFits, PageFits
<1>7. CASE page # <<>> /\ seeder' = [seeder EXCEPT !.pc = "insert", !.page = page,
                                                !.short = Len(page) < PageLimit]
  <2> DEFINE short == Len(page) < PageLimit
  <2>0. short \in BOOLEAN
    OBVIOUS
  <2>1. seeder' = [pc |-> "insert", ran |-> ra, id |-> i, page |-> page, short |-> short, newest |-> ne]
    BY <1>1, <1>7
  <2> HIDE DEF short
  <2>2. SeedShapes'
    <3>1. seeder' \in [pc : {"rest", "fetch", "insert", "ran", "id", "board"}, ran : Nat,
                       id : Nat \cup {NONE}, page : Seq(FeedRows), short : BOOLEAN,
                       newest : [ran : Nat, id : Nat \cup {NONE}]]
      BY <1>1, <1>2, <2>0, <2>1
    <3> QED BY <1>0, <1>3, <3>1 DEF SeedShapes
  <2>3. MarkFits' /\ NewestFits' /\ CursorFits'
    BY <1>0, <1>1, <1>3, <1>5, <2>1 DEF MarkFits, NewestFits, CursorFits
  <2>4. Len(page) \in 1..Len(page)
    BY <1>2, <1>7, EmptySeq
  <2>5. RowsBelow(ra, i)
    BY <1>0, <1>1 DEF CursorFits
  <2>6. PageCovers(page)
    <3>1. SUFFICES ASSUME NEW r \in FeedRows, r.kind = "sound", ~tuple_gt(r, page[Len(page)])
                   PROVE  r \in Settled \/ \E k \in 1..Len(page) : r = page[k]
      BY DEF PageCovers
    <3>2. CASE tuple_gt(r, [ran |-> ra, id |-> i])
      BY <1>2, <2>4, <3>1, <3>2
    <3>3. CASE ~tuple_gt(r, [ran |-> ra, id |-> i])
      BY <2>5, <3>1, <3>3 DEF RowsBelow
    <3> QED BY <3>2, <3>3
  <2>8. PageFits'
    <3>1. PICK p : p = page
      OBVIOUS
    <3>2. PageCovers(p)
      BY <2>6, <3>1
    <3>3. \A q : PageCovers(q) => PageCovers(q)'
      BY <1>3 DEF PageCovers, Settled
    <3>4. seeder'.page = p
      BY <2>1, <3>1
    <3>5. p # <<>> /\ InOrder(p)
      BY <1>2, <1>7, <3>1
    <3> QED BY <3>2, <3>3, <3>4, <3>5 DEF PageFits, InOrder
  <2> QED BY <2>2, <2>3, <2>8 DEF SeedIInv
<1> QED BY <1>4, <1>6, <1>7

LEMMA RowKeeps == SeedIInv /\ SeedRow => SeedIInv'
<1> SUFFICES ASSUME SeedIInv, SeedRow PROVE SeedIInv'
  OBVIOUS
<1>0. /\ SeedShapes /\ MarkFits /\ NewestFits /\ PageFits /\ seeder.pc = "insert"
  BY DEF SeedIInv, SeedRow
<1>1. PICK ra, i, pg, sh, ne : /\ seeder = [pc |-> "insert", ran |-> ra, id |-> i, page |-> pg,
                                            short |-> sh, newest |-> ne]
                               /\ ra \in Nat /\ i \in Nat \cup {NONE} /\ pg \in Seq(FeedRows)
                               /\ sh \in BOOLEAN /\ ne \in [ran : Nat, id : Nat \cup {NONE}]
  BY <1>0 DEF SeedShapes
<1>2. pg # <<>> /\ InOrder(pg) /\ PageCovers(pg)
  BY <1>0, <1>1 DEF PageFits
<1>3. PICK r : r = Head(pg)
  OBVIOUS
<1>4. PICK n : n = Len(pg)
  OBVIOUS
<1>5. n \in Nat \ {0} /\ pg[1] = r /\ r \in FeedRows /\ \A k \in 1..n : pg[k] \in FeedRows
  BY <1>1, <1>2, <1>3, <1>4, EmptySeq, HeadTailProperties, LenProperties
<1>6. PICK q : q = Tail(pg)
  OBVIOUS
<1>7. q \in Seq(FeedRows) /\ Len(q) = n - 1 /\ \A k \in 1..(n - 1) : q[k] = pg[k + 1]
  BY <1>1, <1>2, <1>4, <1>6, HeadTailProperties
<1>8. /\ r.ran \in Nat /\ r.id \in Nat /\ r.id # NONE
  BY <1>5, RowKeys, SeedAssumption
<1>9. PICK w : w = IF r.kind # "nokey" /\ tuple_gt(r, ne) THEN [ran |-> r.ran, id |-> r.id] ELSE ne
  OBVIOUS
<1>10. /\ stored' = IF r.kind = "nokey" THEN stored ELSE stored \cup {r}
       /\ seeder' = IF n = 1
            THEN [pc |-> "ran", ran |-> r.ran, id |-> r.id, page |-> q, short |-> sh, newest |-> w]
            ELSE [pc |-> "insert", ran |-> ra, id |-> i, page |-> q, short |-> sh, newest |-> w]
       /\ UNCHANGED <<mark, mirror, passes, seedFaults, jumped>>
  <2>1. /\ seeder.page = pg /\ seeder.newest = ne /\ Head(seeder.page) = r
        /\ Len(seeder.page) = n /\ Tail(seeder.page) = q
    BY <1>1, <1>3, <1>4, <1>6
  <2>2. insert_row(r) = w
    BY <1>9, <2>1 DEF insert_row
  <2>3. /\ stored' = IF r.kind = "nokey" THEN stored ELSE stored \cup {r}
        /\ UNCHANGED <<mark, mirror, passes, seedFaults, jumped>>
        /\ seeder' = [seeder EXCEPT !.page = q, !.newest = w,
                           !.pc = IF n = 1 THEN "ran" ELSE "insert",
                           !.ran = IF n = 1 THEN r.ran ELSE seeder.ran,
                           !.id = IF n = 1 THEN r.id ELSE seeder.id]
    BY <2>1, <2>2 DEF SeedRow
  <2>4. CASE n = 1
    <3>1. seeder' = [seeder EXCEPT !.page = q, !.newest = w, !.pc = "ran", !.ran = r.ran, !.id = r.id]
      BY <2>3, <2>4
    <3> QED BY <1>1, <2>3, <2>4, <3>1
  <2>5. CASE n # 1
    <3>1. seeder' = [seeder EXCEPT !.page = q, !.newest = w, !.pc = "insert", !.ran = seeder.ran,
                                   !.id = seeder.id]
      BY <2>3, <2>5
    <3> QED BY <1>1, <2>3, <2>5, <3>1
  <2> QED BY <2>4, <2>5
<1>11. stored \subseteq stored' /\ stored' \in SUBSET FeedRows
  BY <1>0, <1>5, <1>10 DEF SeedShapes
<1>12. \A a, b : RowsBelow(a, b) => RowsBelow(a, b)'
  BY <1>10, <1>11, BelowGrows
<1>13. w \in [ran : Nat, id : Nat \cup {NONE}]
  BY <1>1, <1>8, <1>9
<1>14. ASSUME NEW s \in FeedRows, s.kind = "sound", ~tuple_gt(s, r) PROVE s \in Settled'
  <2>1. ~tuple_gt(s, pg[n])
    <3>1. CASE n = 1
      BY <1>5, <1>14, <3>1
    <3>2. CASE n # 1
      <4>1. 1 < n /\ n \in 1..Len(pg) /\ 1 \in 1..Len(pg)
        BY <1>4, <1>5, <3>2
      <4>2. tuple_gt(pg[n], r) /\ pg[n] \in FeedRows
        BY <1>2, <1>5, <4>1 DEF InOrder
      <4> QED BY <1>5, <1>14, <4>2, KeyOrder, RowKeys
    <3> QED BY <3>1, <3>2
  <2>2. CASE s \in Settled
    BY <1>10, <1>11, <2>2 DEF Settled
  <2>3. CASE \E k \in 1..n : s = pg[k]
    <3>1. PICK k \in 1..n : s = pg[k]
      BY <2>3
    <3>2. k = 1
      <4>1. SUFFICES ASSUME k # 1 PROVE FALSE
        OBVIOUS
      <4>2. 1 < k /\ k \in 1..Len(pg) /\ 1 \in 1..Len(pg)
        BY <1>4, <1>5, <4>1
      <4>3. tuple_gt(pg[k], pg[1])
        BY <1>2, <4>2 DEF InOrder
      <4> QED BY <1>5, <1>14, <3>1, <4>3
    <3> QED BY <1>5, <1>10, <1>14, <3>1, <3>2 DEF Settled
  <2> QED BY <1>2, <1>4, <1>14, <2>1, <2>2, <2>3 DEF PageCovers
<1>15. RowsBelow(r.ran, r.id)'
  <2>1. \A s \in FeedRows : s.kind = "sound" /\ ~tuple_gt(s, [ran |-> r.ran, id |-> r.id]) => s \in Settled'
    BY <1>14, KeyOf2
  <2>2. PICK a, b : a = r.ran /\ b = r.id
    OBVIOUS
  <2>3. \A s \in FeedRows : s.kind = "sound" /\ ~tuple_gt(s, [ran |-> a, id |-> b]) => s \in Settled'
    BY <2>1, <2>2
  <2> QED BY <2>2, <2>3 DEF RowsBelow
<1>16. RowsBelow(w.ran, w.id)' /\ (w.id = NONE => w.ran = mark.ran)
  <2>1. RowsBelow(ne.ran, ne.id) /\ (ne.id = NONE => ne.ran = mark.ran)
    BY <1>0, <1>1 DEF NewestFits
  <2>2. RowsBelow(ne.ran, ne.id)'
    BY <1>12, <2>1
  <2>3. CASE w = ne
    BY <2>1, <2>2, <2>3
  <2>4. CASE w = [ran |-> r.ran, id |-> r.id]
    <3>1. w.ran = r.ran /\ w.id = r.id
      BY <2>4
    <3>2. RowsBelow(w.ran, w.id)'
      BY <1>15, <3>1
    <3> QED BY <1>8, <3>1, <3>2
  <2> QED BY <1>9, <2>3, <2>4
<1>17. SeedShapes'
  <2>1. seeder' \in [pc : {"rest", "fetch", "insert", "ran", "id", "board"}, ran : Nat,
                     id : Nat \cup {NONE}, page : Seq(FeedRows), short : BOOLEAN,
                     newest : [ran : Nat, id : Nat \cup {NONE}]]
    BY <1>1, <1>7, <1>8, <1>10, <1>13
  <2> QED BY <1>0, <1>10, <1>11, <2>1 DEF SeedShapes
<1>18. MarkFits'
  <2>1. RowsBelow(mark.ran, mark.id)
    BY <1>0 DEF MarkFits
  <2>2. mark' = mark /\ seeder'.pc # "id"
    BY <1>10
  <2> QED BY <1>12, <2>1, <2>2 DEF MarkFits
<1>19. NewestFits'
  <2>1. seeder'.newest = w /\ mark' = mark
    BY <1>10
  <2> QED BY <1>16, <2>1 DEF NewestFits
<1>20. CursorFits'
  <2>1. seeder'.pc \in {"fetch", "ran", "id"} => seeder'.ran = r.ran /\ seeder'.id = r.id
    BY <1>10
  <2> QED BY <1>15, <2>1 DEF CursorFits
<1>21. PageFits'
  <2>1. CASE n = 1
    BY <1>10, <2>1 DEF PageFits
  <2>2. CASE n # 1
    <3>1. n - 1 \in 1..(n - 1) /\ q # <<>> /\ q[n - 1] = pg[n]
      BY <1>5, <1>7, <2>2, EmptySeq
    <3>2. InOrder(q)
      <4>1. SUFFICES ASSUME NEW a \in 1..Len(q), NEW b \in 1..Len(q), a < b
                     PROVE  tuple_gt(q[b], q[a])
        BY DEF InOrder
      <4>2. a + 1 \in 1..n /\ b + 1 \in 1..n /\ a + 1 < b + 1
        BY <1>5, <1>7, <4>1
      <4> QED BY <1>2, <1>4, <1>7, <4>1, <4>2 DEF InOrder
    <3>3. ASSUME NEW s \in FeedRows, s.kind = "sound", ~tuple_gt(s, q[Len(q)])
          PROVE  s \in Settled' \/ \E k \in 1..Len(q) : s = q[k]
      <4>1. s \in Settled \/ \E k \in 1..n : s = pg[k]
        BY <1>2, <1>4, <1>7, <3>1, <3>3 DEF PageCovers
      <4>2. CASE s \in Settled
        BY <1>10, <1>11, <4>2 DEF Settled
      <4>3. CASE \E k \in 1..n : s = pg[k]
        <5>1. PICK k \in 1..n : s = pg[k]
          BY <4>3
        <5>2. CASE k = 1
          BY <1>5, <1>10, <3>3, <5>1, <5>2 DEF Settled
        <5>3. CASE k # 1
          <6>1. k - 1 \in 1..(n - 1) /\ (k - 1) + 1 = k
            BY <1>5, <5>3
          <6> QED BY <1>7, <5>1, <6>1
        <5> QED BY <5>2, <5>3
      <4> QED BY <4>1, <4>2, <4>3
    <3>4. seeder'.page = q
      BY <1>10
    <3> QED BY <3>1, <3>2, <3>3, <3>4 DEF PageFits, PageCovers, InOrder
  <2> QED BY <2>1, <2>2
<1> QED BY <1>17, <1>18, <1>19, <1>20, <1>21 DEF SeedIInv

LEMMA MarkRanAtKeeps == SeedIInv /\ MarkRanAt => SeedIInv'
<1> SUFFICES ASSUME SeedIInv, MarkRanAt PROVE SeedIInv'
  OBVIOUS
<1>0. SeedShapes /\ MarkFits /\ NewestFits /\ CursorFits /\ seeder.pc = "ran"
  BY DEF SeedIInv, MarkRanAt
<1>1. PICK ra, i, pg, sh, ne : /\ seeder = [pc |-> "ran", ran |-> ra, id |-> i, page |-> pg,
                                            short |-> sh, newest |-> ne]
                               /\ ra \in Nat /\ i \in Nat \cup {NONE} /\ pg \in Seq(FeedRows)
                               /\ sh \in BOOLEAN /\ ne \in [ran : Nat, id : Nat \cup {NONE}]
  BY <1>0 DEF SeedShapes
<1>2. PICK mr, mi : mark = [ran |-> mr, id |-> mi] /\ mr \in Nat /\ mi \in Nat \cup {NONE}
  BY <1>0 DEF SeedShapes
<1>3. /\ seeder' = [pc |-> "id", ran |-> ra, id |-> i, page |-> pg, short |-> sh, newest |-> ne]
      /\ mark' = [ran |-> ne.ran, id |-> mi]
      /\ UNCHANGED <<stored, mirror, passes, seedFaults, jumped>>
  BY <1>1, <1>2 DEF MarkRanAt
<1>4. \A a, b : RowsBelow(a, b) => RowsBelow(a, b)'
  BY <1>3, BelowGrows
<1>5. SeedShapes'
  BY <1>0, <1>1, <1>2, <1>3 DEF SeedShapes
<1>6. /\ RowsBelow(mr, mi)
      /\ RowsBelow(ne.ran, ne.id) /\ (ne.id = NONE => ne.ran = mr)
      /\ RowsBelow(ra, i)
  BY <1>0, <1>1, <1>2 DEF MarkFits, NewestFits, CursorFits
<1>7. MarkFits'
  <2>1. mark'.ran = ne.ran /\ mark'.id = mi /\ seeder'.pc = "id" /\ seeder'.newest = ne
    BY <1>3
  <2>2. ne.id = NONE => RowsBelow(ne.ran, mi)
    BY <1>6
  <2>3. ne.id = NONE => RowsBelow(ne.ran, mi)'
    BY <1>4, <2>2
  <2> QED BY <2>1, <2>2, <2>3 DEF MarkFits
<1>8. NewestFits' /\ CursorFits'
  <2>1. seeder'.newest = ne /\ mark'.ran = ne.ran /\ seeder'.ran = ra /\ seeder'.id = i
    BY <1>3
  <2>2. RowsBelow(ne.ran, ne.id)' /\ RowsBelow(ra, i)'
    BY <1>4, <1>6
  <2> QED BY <1>6, <2>1, <2>2 DEF NewestFits, CursorFits
<1>9. PageFits'
  BY <1>3 DEF PageFits
<1> QED BY <1>5, <1>7, <1>8, <1>9 DEF SeedIInv

LEMMA MarkIdKeeps == SeedIInv /\ MarkId => SeedIInv'
<1> SUFFICES ASSUME SeedIInv, MarkId PROVE SeedIInv'
  OBVIOUS
<1>0. SeedShapes /\ MarkFits /\ NewestFits /\ CursorFits /\ seeder.pc = "id"
  BY DEF SeedIInv, MarkId
<1>1. PICK ra, i, pg, sh, ne : /\ seeder = [pc |-> "id", ran |-> ra, id |-> i, page |-> pg,
                                            short |-> sh, newest |-> ne]
                               /\ ra \in Nat /\ i \in Nat \cup {NONE} /\ pg \in Seq(FeedRows)
                               /\ sh \in BOOLEAN /\ ne \in [ran : Nat, id : Nat \cup {NONE}]
  BY <1>0 DEF SeedShapes
<1>2. PICK mr, mi : mark = [ran |-> mr, id |-> mi] /\ mr \in Nat /\ mi \in Nat \cup {NONE}
  BY <1>0 DEF SeedShapes
<1>3. PICK j : j = IF ne.id = NONE THEN mi ELSE ne.id
  OBVIOUS
<1>4. PICK pc : pc = IF sh THEN "board" ELSE "fetch"
  OBVIOUS
<1>5. /\ seeder' = [pc |-> pc, ran |-> ra, id |-> i, page |-> pg, short |-> sh, newest |-> ne]
      /\ mark' = [ran |-> mr, id |-> j]
      /\ UNCHANGED <<stored, mirror, passes, seedFaults, jumped>>
  BY <1>1, <1>2, <1>3, <1>4 DEF MarkId
<1>6. \A a, b : RowsBelow(a, b) => RowsBelow(a, b)'
  BY <1>5, BelowGrows
<1>7. pc \in {"board", "fetch"} /\ j \in Nat \cup {NONE}
  BY <1>1, <1>2, <1>3, <1>4
<1>8. SeedShapes'
  BY <1>0, <1>1, <1>2, <1>5, <1>7 DEF SeedShapes
<1>9. /\ mr = ne.ran /\ (ne.id = NONE => RowsBelow(mr, mi))
      /\ RowsBelow(ne.ran, ne.id)
      /\ RowsBelow(ra, i)
  BY <1>0, <1>1, <1>2 DEF MarkFits, NewestFits, CursorFits
<1>10. RowsBelow(mr, j)
  BY <1>3, <1>9
<1>11. RowsBelow(mr, j)' /\ RowsBelow(ne.ran, ne.id)' /\ RowsBelow(ra, i)'
  BY <1>6, <1>9, <1>10
<1>12. /\ mark'.ran = mr /\ mark'.id = j /\ seeder'.pc = pc /\ seeder'.newest = ne
       /\ seeder'.ran = ra /\ seeder'.id = i
  BY <1>5
<1>13. MarkFits'
  BY <1>7, <1>10, <1>11, <1>12 DEF MarkFits
<1>14. NewestFits' /\ CursorFits'
  BY <1>9, <1>11, <1>12 DEF NewestFits, CursorFits
<1>15. PageFits'
  BY <1>7, <1>12 DEF PageFits
<1> QED BY <1>8, <1>13, <1>14, <1>15 DEF SeedIInv

\* A pass that ends leaves the watermark where it is, and what a half-written one
\* lies above is in jumped.
LEMMA RestKeeps ==
    ASSUME SeedIInv, seeder' = Started, UNCHANGED <<stored, mark>>, passes' = passes,
           jumped \subseteq jumped', jumped' \in SUBSET FeedRows,
           seeder.pc = "id" => {r \in FeedRows : tuple_gt(r, seeder.newest) /\ ~tuple_gt(r, mark)}
                                  \subseteq jumped',
           seedFaults' \in 0..MaxSeedFaults, \A i \in DOMAIN mirror' : mirror'[i] \in {"external", "local"}
    PROVE  SeedIInv'
<1>0. SeedShapes /\ MarkFits /\ NewestFits
  BY DEF SeedIInv
<1>1. <<>> \in Seq(FeedRows)
  BY EmptySeq
<1>2. SeedShapes'
  BY <1>0, <1>1 DEF SeedShapes, Started
<1>3. seeder'.pc = "rest"
  BY DEF Started
<1>4. \A a, b : RowsBelow(a, b) => RowsBelow(a, b)'
  BY BelowGrows
<1>5. RowsBelow(mark.ran, mark.id)'
  <2>1. CASE seeder.pc # "id"
    BY <1>0, <1>4, <2>1 DEF MarkFits
  <2>2. CASE seeder.pc = "id"
    <3>1. RowsBelow(seeder.newest.ran, seeder.newest.id)
      BY <1>0, <2>2 DEF NewestFits
    <3>2. ASSUME NEW r \in FeedRows, r.kind = "sound", ~tuple_gt(r, mark)
          PROVE  r \in stored' \cup jumped'
      <4>1. CASE tuple_gt(r, seeder.newest)
        BY <2>2, <3>2, <4>1
      <4>2. CASE ~tuple_gt(r, seeder.newest)
        BY <3>1, <3>2, <4>2, KeyOf2 DEF RowsBelow, Settled
      <4> QED BY <4>1, <4>2
    <3> QED BY <3>2, KeyOf2 DEF RowsBelow, Settled
  <2> QED BY <2>1, <2>2
<1>6. MarkFits'
  BY <1>3, <1>5 DEF MarkFits
<1> QED BY <1>2, <1>3, <1>6 DEF SeedIInv, NewestFits, CursorFits, PageFits

LEMMA SeedSteps ==
    ASSUME SeedIInv, [SeedNext]_seedVars PROVE SeedIInv'
<1>0. SeedShapes
  BY DEF SeedIInv
<1>1. CASE SeedFails
  <2>1. seeder' = Started /\ UNCHANGED <<stored, mark, mirror, passes>>
    BY <1>1 DEF SeedFails
  <2>2. seedFaults' \in 0..MaxSeedFaults
    BY <1>0, <1>1, SeedAssumption DEF SeedFails, SeedFault, SeedShapes
  <2>3. \A i \in DOMAIN mirror' : mirror'[i] \in {"external", "local"}
    BY <1>0, <2>1 DEF SeedShapes
  <2>4. /\ jumped \subseteq jumped' /\ jumped' \in SUBSET FeedRows
        /\ seeder.pc = "id" => {r \in FeedRows : tuple_gt(r, seeder.newest) /\ ~tuple_gt(r, mark)}
                                  \subseteq jumped'
    BY <1>0, <1>1 DEF SeedFails, SeedShapes
  <2> QED BY <2>1, <2>2, <2>3, <2>4, RestKeeps
<1>2. CASE seed_board
  <2>1. seeder.pc # "id" /\ seeder' = Started /\ UNCHANGED <<stored, mark, passes, seedFaults, jumped>>
    BY <1>2 DEF seed_board
  <2>2. seedFaults' \in 0..MaxSeedFaults /\ jumped' \in SUBSET FeedRows
    BY <1>0, <2>1 DEF SeedShapes
  <2>3. \A i \in DOMAIN mirror' : mirror'[i] \in {"external", "local"}
    BY <1>0, <1>2 DEF seed_board, SeedShapes
  <2> QED BY <2>1, <2>2, <2>3, RestKeeps
<1>3. CASE UNCHANGED seedVars
  <2>1. UNCHANGED <<stored, mark, seeder, mirror, passes, seedFaults, jumped>>
    BY <1>3 DEF seedVars
  <2>2. SeedShapes'
    BY <1>0, <2>1 DEF SeedShapes
  <2>3. \A a, b : RowsBelow(a, b) => RowsBelow(a, b)'
    BY <2>1, BelowGrows
  <2>4. MarkFits' /\ NewestFits' /\ CursorFits'
    BY <2>1, <2>3 DEF SeedIInv, MarkFits, NewestFits, CursorFits
  <2>5. PageFits'
    BY <2>1 DEF SeedIInv, PageFits, PageCovers, InOrder, Settled
  <2> QED BY <2>2, <2>4, <2>5 DEF SeedIInv
<1> QED BY <1>1, <1>2, <1>3, StartSeedKeeps, ReadKeeps, RowKeeps, MarkRanAtKeeps, MarkIdKeeps DEF SeedNext

LEMMA SeedImplied == SeedIInv => SeedInv
<1> SUFFICES ASSUME SeedIInv PROVE SeedInv
  OBVIOUS
<1>1. SeedTypeOK
  BY DEF SeedIInv, SeedShapes, SeedTypeOK
<1>2. seeder.pc = "rest" => RowsBelow(mark.ran, mark.id)
  BY DEF SeedIInv, MarkFits
<1>3. ResumeMissesNothing
  BY <1>2, KeyOf2 DEF ResumeMissesNothing, RowsBelow, Settled
<1> QED BY <1>1, <1>3 DEF SeedInv

\* A pass that resumes at the watermark misses no row of the feed, wherever the
\* passes before it failed, but those a half-written watermark passed over
\* (seed_rows).
THEOREM SeedResumes == SeedInit /\ [][SeedNext]_seedVars => []SeedInv
<1>2. SeedInit => SeedIInv
  BY SeedStarts
<1>3. SeedIInv /\ [SeedNext]_seedVars => SeedIInv'
  BY SeedSteps
<1>4. SeedIInv => SeedInv
  BY SeedImplied
<1> QED BY <1>2, <1>3, <1>4, PTL

----------------------------------------------------------------------------
(* The unplanted challenges                                                 *)

(* A number below n * k is one pair of a quotient and a remainder.         *)
LEMMA Products ==
    \A a, b, k \in Nat : a < b => a * k + k <= b * k /\ a * k \in Nat /\ b * k \in Nat
<1>1. ASSUME NEW a \in Nat, NEW b \in Nat, NEW k \in Nat, a < b
      PROVE  a * k + k <= b * k /\ a * k \in Nat /\ b * k \in Nat
  <2>1. PICK d \in Nat : b = a + 1 + d
    <3>1. b - a - 1 \in Nat /\ b = a + 1 + (b - a - 1)
      BY <1>1
    <3> QED BY <3>1
  <2>2. b * k = a * k + k + d * k
    BY <2>1
  <2>3. a * k \in Nat /\ d * k \in Nat /\ b * k \in Nat
    OBVIOUS
  <2> QED BY <2>2, <2>3
<1> QED BY <1>1

LEMMA CodeUnique ==
    \A k \in Nat \ {0} : \A a, b \in Nat, c, d \in 0..(k - 1) :
       a * k + c = b * k + d => a = b /\ c = d
<1>1. ASSUME NEW k \in Nat \ {0}, NEW a \in Nat, NEW b \in Nat, NEW c \in 0..(k - 1), NEW d \in 0..(k - 1),
             a * k + c = b * k + d
      PROVE  a = b /\ c = d
  <2>1. PICK A, B : A = a * k /\ B = b * k
    OBVIOUS
  <2>2. A \in Nat /\ B \in Nat /\ A + c = B + d /\ (a < b => A + k <= B) /\ (b < a => B + k <= A)
    BY <1>1, <2>1, Products
  <2>3. ~(a < b) /\ ~(b < a)
    BY <2>2
  <2>4. a = b
    BY <2>3
  <2>5. A = B
    BY <2>1, <2>4
  <2> QED BY <2>2, <2>4, <2>5
<1> QED BY <1>1

LEMMA CodeInside ==
    \A k \in Nat \ {0}, n \in Nat : \A a \in 0..(n - 1), c \in 0..(k - 1) :
       a * k + c \in Nat /\ a * k + c < n * k
<1>1. ASSUME NEW k \in Nat \ {0}, NEW n \in Nat, NEW a \in 0..(n - 1), NEW c \in 0..(k - 1)
      PROVE  a * k + c \in Nat /\ a * k + c < n * k
  <2>1. PICK A, B : A = a * k /\ B = n * k
    OBVIOUS
  <2>2. A \in Nat /\ B \in Nat /\ A + k <= B
    BY <2>1, Products
  <2>3. A + c \in Nat /\ A + c < B
    BY <2>2
  <2> QED BY <2>1, <2>3
<1> QED BY <1>1

LEMMA CodeSplit ==
    \A k \in Nat \ {0}, n \in Nat : \A x \in 0..(n * k - 1) :
       \E a \in 0..(n - 1), c \in 0..(k - 1) : x = a * k + c
<1>1. ASSUME NEW k \in Nat \ {0}, NEW n \in Nat, NEW x \in 0..(n * k - 1)
      PROVE  \E a \in 0..(n - 1), c \in 0..(k - 1) : x = a * k + c
  <2>1. n * k \in Nat /\ x \in Nat /\ x < n * k
    OBVIOUS
  <2>2. x \div k \in Nat /\ k * (x \div k) <= x /\ x < k * (x \div k) + k
    BY <2>1, Division
  <2>3. PICK a \in Nat : a = x \div k
    BY <2>2
  <2>4. PICK A : A = a * k
    OBVIOUS
  <2>5. A \in Nat /\ A = k * a
    BY <2>3, <2>4
  <2>6. A <= x /\ x < A + k
    BY <2>2, <2>3, <2>5
  <2>7. a < n
    <3>1. CASE a = n
      BY <2>1, <2>4, <2>6, <3>1
    <3>2. CASE n < a
      <4>1. n * k + k <= a * k
        BY <3>2, Products
      <4>2. PICK B : B = n * k
        OBVIOUS
      <4> QED BY <2>1, <2>4, <2>5, <2>6, <4>1, <4>2
    <3> QED BY <3>1, <3>2
  <2>8. x - A \in 0..(k - 1) /\ x = A + (x - A)
    BY <2>1, <2>5, <2>6
  <2>9. a \in 0..(n - 1) /\ x = a * k + (x - A)
    BY <2>4, <2>7, <2>8
  <2> QED BY <2>8, <2>9
<1> QED BY <1>1

LEMMA CorpusFacts ==
    /\ GraphNodes \in Nat \ {0} /\ Colors \in Nat \ {0} /\ Order \in Nat \ {0} /\ MaxDraws \in Nat
BY CorpusAssumption

(* Clauses: a disjunction of variables, and "not both".                    *)
Holding(true, clause) == \E l \in clause : IF l > 0 THEN l \in true ELSE -l \notin true

LEMMA PositiveClause ==
    ASSUME NEW S, NEW f, \A x \in S : f[x] \in Nat \ {0}, NEW true
    PROVE  Holding(true, {f[x] : x \in S}) <=> \E x \in S : f[x] \in true
BY DEF Holding

LEMMA NegativeClause ==
    ASSUME NEW a \in Nat \ {0}, NEW b \in Nat \ {0}, NEW true
    PROVE  Holding(true, {-a, -b}) <=> (a \notin true \/ b \notin true)
<1>1. Holding(true, {-a, -b})
        <=> \/ (IF -a > 0 THEN -a \in true ELSE -(-a) \notin true)
            \/ (IF -b > 0 THEN -b \in true ELSE -(-b) \notin true)
  BY DEF Holding
<1>2. ~(-a > 0) /\ ~(-b > 0) /\ -(-a) = a /\ -(-b) = b
  OBVIOUS
<1> QED BY <1>1, <1>2

LEMMA SatisfiesHolding ==
    ASSUME NEW true, NEW cnf
    PROVE  Satisfies(true, cnf) <=> \A clause \in cnf : Holding(true, clause)
BY DEF Satisfies, Holding

(* The variable of slot s with value c, of k values.                       *)
Choice(s, c, k) == s * k + c + 1

LEMMA ChoiceUnique ==
    \A k \in Nat \ {0} : \A a, b \in Nat, c, d \in 0..(k - 1) :
       Choice(a, c, k) = Choice(b, d, k) => a = b /\ c = d
<1>1. ASSUME NEW k \in Nat \ {0}, NEW a \in Nat, NEW b \in Nat, NEW c \in 0..(k - 1), NEW d \in 0..(k - 1),
             Choice(a, c, k) = Choice(b, d, k)
      PROVE  a = b /\ c = d
  <2>1. a * k + c \in Nat /\ b * k + d \in Nat
    OBVIOUS
  <2>2. a * k + c + 1 = b * k + d + 1
    BY <1>1 DEF Choice
  <2>3. a * k + c = b * k + d
    BY <2>1, <2>2
  <2> QED BY <2>3, CodeUnique
<1> QED BY <1>1

LEMMA ChoiceInside ==
    \A k \in Nat \ {0}, n \in Nat : \A a \in 0..(n - 1), c \in 0..(k - 1) :
       Choice(a, c, k) \in 1..(n * k) /\ Choice(a, c, k) \in Nat \ {0}
<1>1. ASSUME NEW k \in Nat \ {0}, NEW n \in Nat, NEW a \in 0..(n - 1), NEW c \in 0..(k - 1)
      PROVE  Choice(a, c, k) \in 1..(n * k) /\ Choice(a, c, k) \in Nat \ {0}
  <2>1. PICK x, m : x = a * k + c /\ m = n * k
    OBVIOUS
  <2>2. x \in Nat /\ m \in Nat /\ x < m
    BY <2>1, CodeInside
  <2>3. Choice(a, c, k) = x + 1
    BY <2>1 DEF Choice
  <2>4. x + 1 \in 1..m /\ x + 1 \in Nat \ {0}
    BY <2>2
  <2> QED BY <2>1, <2>3, <2>4
<1> QED BY <1>1

LEMMA ChoiceSplit ==
    \A k \in Nat \ {0}, n \in Nat : \A x \in 1..(n * k) :
       \E a \in 0..(n - 1), c \in 0..(k - 1) : x = Choice(a, c, k)
<1>1. ASSUME NEW k \in Nat \ {0}, NEW n \in Nat, NEW x \in 1..(n * k)
      PROVE  \E a \in 0..(n - 1), c \in 0..(k - 1) : x = Choice(a, c, k)
  <2>1. n * k \in Nat
    OBVIOUS
  <2>2. x - 1 \in 0..(n * k - 1) /\ x = (x - 1) + 1
    BY <2>1
  <2>3. PICK a \in 0..(n - 1), c \in 0..(k - 1) : x - 1 = a * k + c
    BY <2>2, CodeSplit
  <2>4. x = a * k + c + 1
    BY <2>2, <2>3
  <2> QED BY <2>4 DEF Choice
<1> QED BY <1>1

(* The slots X are numbered by ix; one value in 0..k-1 is chosen for each. *)
Numbers(ix, X, n) ==
    /\ ix \in [X -> 0..(n - 1)]
    /\ \A x, y \in X : ix[x] = ix[y] => x = y
    /\ \A s \in 0..(n - 1) : \E x \in X : ix[x] = s
AtLeast(true, X, ix, k) == \A x \in X : \E c \in 0..(k - 1) : Choice(ix[x], c, k) \in true
AtMost(true, X, ix, k) ==
    \A x \in X : \A c, d \in 0..(k - 1) :
       c < d => (Choice(ix[x], c, k) \notin true \/ Choice(ix[x], d, k) \notin true)
Chosen(f, X, ix, k) == {Choice(ix[x], f[x], k) : x \in X}

LEMMA ChosenHas ==
    ASSUME NEW k \in Nat \ {0}, NEW n \in Nat, NEW X, NEW ix, Numbers(ix, X, n),
           NEW f \in [X -> 0..(k - 1)]
    PROVE  /\ Chosen(f, X, ix, k) \in SUBSET (1..(n * k))
           /\ \A x \in X, c \in 0..(k - 1) : Choice(ix[x], c, k) \in Chosen(f, X, ix, k) <=> f[x] = c
           /\ AtLeast(Chosen(f, X, ix, k), X, ix, k)
           /\ AtMost(Chosen(f, X, ix, k), X, ix, k)
<1>1. \A x \in X : ix[x] \in 0..(n - 1) /\ ix[x] \in Nat /\ f[x] \in 0..(k - 1)
  BY DEF Numbers
<1>2. Chosen(f, X, ix, k) \in SUBSET (1..(n * k))
  BY <1>1, ChoiceInside DEF Chosen
<1>3. ASSUME NEW x \in X, NEW c \in 0..(k - 1)
      PROVE  Choice(ix[x], c, k) \in Chosen(f, X, ix, k) <=> f[x] = c
  <2>1. ASSUME NEW y \in X, Choice(ix[x], c, k) = Choice(ix[y], f[y], k) PROVE f[x] = c
    <3>1. ix[x] = ix[y] /\ c = f[y]
      BY <1>1, <2>1, ChoiceUnique
    <3>2. x = y
      BY <3>1 DEF Numbers
    <3> QED BY <3>1, <3>2
  <2>2. f[x] = c => Choice(ix[x], c, k) \in Chosen(f, X, ix, k)
    BY DEF Chosen
  <2> QED BY <2>1, <2>2 DEF Chosen
<1>4. AtLeast(Chosen(f, X, ix, k), X, ix, k)
  BY <1>1, <1>3 DEF AtLeast
<1>5. AtMost(Chosen(f, X, ix, k), X, ix, k)
  <2>1. ASSUME NEW x \in X, NEW c \in 0..(k - 1), NEW d \in 0..(k - 1), c < d
        PROVE  Choice(ix[x], c, k) \notin Chosen(f, X, ix, k) \/ Choice(ix[x], d, k) \notin Chosen(f, X, ix, k)
    BY <1>3, <2>1
  <2> QED BY <2>1 DEF AtMost
<1> QED BY <1>2, <1>3, <1>4, <1>5

LEMMA ChosenOnly ==
    ASSUME NEW k \in Nat \ {0}, NEW n \in Nat, NEW X, NEW ix, Numbers(ix, X, n),
           NEW true \in SUBSET (1..(n * k)), AtLeast(true, X, ix, k), AtMost(true, X, ix, k)
    PROVE  \E f \in [X -> 0..(k - 1)] : true = Chosen(f, X, ix, k)
<1>1. PICK f : f = [x \in X |-> CHOOSE c \in 0..(k - 1) : Choice(ix[x], c, k) \in true]
  OBVIOUS
<1>2. ASSUME NEW x \in X PROVE f[x] \in 0..(k - 1) /\ Choice(ix[x], f[x], k) \in true
  <2>1. \E c \in 0..(k - 1) : Choice(ix[x], c, k) \in true
    BY DEF AtLeast
  <2>2. f[x] = CHOOSE c \in 0..(k - 1) : Choice(ix[x], c, k) \in true
    BY <1>1
  <2> QED BY <2>1, <2>2
<1>3. f \in [X -> 0..(k - 1)]
  BY <1>1, <1>2
<1>4. ASSUME NEW m \in true PROVE m \in Chosen(f, X, ix, k)
  <2>1. PICK s \in 0..(n - 1), c \in 0..(k - 1) : m = Choice(s, c, k)
    BY ChoiceSplit
  <2>2. PICK x \in X : ix[x] = s
    BY DEF Numbers
  <2>3. f[x] \in 0..(k - 1) /\ Choice(ix[x], f[x], k) \in true /\ Choice(ix[x], c, k) \in true
    BY <1>2, <2>1, <2>2
  <2>4. ~(c < f[x]) /\ ~(f[x] < c)
    BY <2>3 DEF AtMost
  <2>5. c = f[x]
    BY <2>3, <2>4
  <2> QED BY <2>1, <2>2, <2>5 DEF Chosen
<1>5. Chosen(f, X, ix, k) \subseteq true
  BY <1>2 DEF Chosen
<1>6. true = Chosen(f, X, ix, k)
  BY <1>4, <1>5
<1> QED BY <1>3, <1>6

(* The clauses of the encodings, and what they ask of an assignment.       *)
LeastClauses(X, ix, k) == {{Choice(ix[x], c, k) : c \in 0..(k - 1)} : x \in X}
MostClauses(X, ix, k) ==
    {{-Choice(ix[x], p[1], k), -Choice(ix[x], p[2], k)} :
        x \in X, p \in {q \in (0..(k - 1)) \X (0..(k - 1)) : q[1] < q[2]}}

LEMMA SatisfiesBoth ==
    \A true, A, B : Satisfies(true, A \cup B) <=> (Satisfies(true, A) /\ Satisfies(true, B))
<1>1. ASSUME NEW true, NEW A, NEW B
      PROVE  Satisfies(true, A \cup B) <=> (Satisfies(true, A) /\ Satisfies(true, B))
  <2>1. (\A clause \in A \cup B : Holding(true, clause))
          <=> ((\A clause \in A : Holding(true, clause)) /\ (\A clause \in B : Holding(true, clause)))
    OBVIOUS
  <2> QED BY <2>1, SatisfiesHolding
<1> QED BY <1>1

LEMMA LeastMeans ==
    ASSUME NEW k \in Nat \ {0}, NEW n \in Nat, NEW X, NEW ix, Numbers(ix, X, n), NEW true
    PROVE  Satisfies(true, LeastClauses(X, ix, k)) <=> AtLeast(true, X, ix, k)
<1>1. \A x \in X, c \in 0..(k - 1) : Choice(ix[x], c, k) \in Nat \ {0}
  BY ChoiceInside DEF Numbers
<1>2. ASSUME NEW x \in X
      PROVE  Holding(true, {Choice(ix[x], c, k) : c \in 0..(k - 1)})
               <=> \E c \in 0..(k - 1) : Choice(ix[x], c, k) \in true
  BY <1>1 DEF Holding
<1>3. (\A clause \in LeastClauses(X, ix, k) : Holding(true, clause))
        <=> \A x \in X : Holding(true, {Choice(ix[x], c, k) : c \in 0..(k - 1)})
  BY DEF LeastClauses
<1> QED BY <1>2, <1>3, SatisfiesHolding DEF AtLeast

LEMMA MostMeans ==
    ASSUME NEW k \in Nat \ {0}, NEW n \in Nat, NEW X, NEW ix, Numbers(ix, X, n), NEW true
    PROVE  Satisfies(true, MostClauses(X, ix, k)) <=> AtMost(true, X, ix, k)
<1>1. \A x \in X, c \in 0..(k - 1) : Choice(ix[x], c, k) \in Nat \ {0}
  BY ChoiceInside DEF Numbers
<1>2. ASSUME NEW x \in X, NEW c \in 0..(k - 1), NEW d \in 0..(k - 1)
      PROVE  Holding(true, {-Choice(ix[x], c, k), -Choice(ix[x], d, k)})
               <=> (Choice(ix[x], c, k) \notin true \/ Choice(ix[x], d, k) \notin true)
  BY <1>1, NegativeClause
<1>3. (\A clause \in MostClauses(X, ix, k) : Holding(true, clause))
        <=> \A x \in X : \A c, d \in 0..(k - 1) :
               c < d => Holding(true, {-Choice(ix[x], c, k), -Choice(ix[x], d, k)})
  <2>1. ASSUME \A clause \in MostClauses(X, ix, k) : Holding(true, clause),
               NEW x \in X, NEW c \in 0..(k - 1), NEW d \in 0..(k - 1), c < d
        PROVE  Holding(true, {-Choice(ix[x], c, k), -Choice(ix[x], d, k)})
    <3>1. /\ <<c, d>> \in {q \in (0..(k - 1)) \X (0..(k - 1)) : q[1] < q[2]}
          /\ <<c, d>>[1] = c /\ <<c, d>>[2] = d
      BY <2>1
    <3>2. {-Choice(ix[x], c, k), -Choice(ix[x], d, k)} \in MostClauses(X, ix, k)
      BY <3>1 DEF MostClauses
    <3> QED BY <2>1, <3>2
  <2>2. ASSUME \A x \in X : \A c, d \in 0..(k - 1) :
                  c < d => Holding(true, {-Choice(ix[x], c, k), -Choice(ix[x], d, k)}),
               NEW clause \in MostClauses(X, ix, k)
        PROVE  Holding(true, clause)
    <3>1. PICK x \in X, p \in {q \in (0..(k - 1)) \X (0..(k - 1)) : q[1] < q[2]} :
                 clause = {-Choice(ix[x], p[1], k), -Choice(ix[x], p[2], k)}
      BY <2>2 DEF MostClauses
    <3>2. p[1] \in 0..(k - 1) /\ p[2] \in 0..(k - 1) /\ p[1] < p[2]
      BY <3>1
    <3> QED BY <2>2, <3>1, <3>2
  <2> QED BY <2>1, <2>2
<1> QED BY <1>2, <1>3, SatisfiesHolding DEF AtMost

(* Graph colouring: the models of the encoding are the proper colourings.  *)
Nodes == 0..(GraphNodes - 1)
NodeIx == [v \in Nodes |-> v]
ConflictClauses(edges) ==
    {{-Choice(NodeIx[e[1]], c, Colors), -Choice(NodeIx[e[2]], c, Colors)} :
        e \in edges, c \in 0..(Colors - 1)}
Apart(true, edges) ==
    \A e \in edges, c \in 0..(Colors - 1) :
       Choice(NodeIx[e[1]], c, Colors) \notin true \/ Choice(NodeIx[e[2]], c, Colors) \notin true

LEMMA NodesNumbered == Numbers(NodeIx, Nodes, GraphNodes)
BY DEF Numbers, NodeIx, Nodes

LEMMA EdgeEnds ==
    ASSUME NEW edges \in SUBSET NodePairs, NEW e \in edges
    PROVE  /\ e[1] \in Nodes /\ e[2] \in Nodes /\ e[1] < e[2] /\ e = <<e[1], e[2]>>
           /\ NodeIx[e[1]] = e[1] /\ NodeIx[e[2]] = e[2]
BY DEF NodePairs, Nodes, NodeIx

LEMMA GraphClauses ==
    ASSUME NEW edges \in SUBSET NodePairs
    PROVE  gen_graph_coloring(edges) =
              LeastClauses(Nodes, NodeIx, Colors) \cup MostClauses(Nodes, NodeIx, Colors)
                 \cup ConflictClauses(edges)
<1>1. \A v \in Nodes : NodeIx[v] = v
  BY DEF NodeIx
<1>2. LeastClauses(Nodes, NodeIx, Colors)
        = {{v * Colors + c + 1 : c \in 0..(Colors - 1)} : v \in Nodes}
  BY <1>1 DEF LeastClauses, Choice
<1>3. MostClauses(Nodes, NodeIx, Colors)
        = {{-(v * Colors + p[1] + 1), -(v * Colors + p[2] + 1)} :
             v \in Nodes, p \in {q \in (0..(Colors - 1)) \X (0..(Colors - 1)) : q[1] < q[2]}}
  BY <1>1 DEF MostClauses, Choice
<1>4. ConflictClauses(edges)
        = {{-(e[1] * Colors + c + 1), -(e[2] * Colors + c + 1)} : e \in edges, c \in 0..(Colors - 1)}
  BY EdgeEnds DEF ConflictClauses, Choice
<1> QED BY <1>2, <1>3, <1>4 DEF gen_graph_coloring, Nodes

LEMMA ConflictsMean ==
    ASSUME NEW edges \in SUBSET NodePairs, NEW true
    PROVE  Satisfies(true, ConflictClauses(edges)) <=> Apart(true, edges)
<1>1. Colors \in Nat \ {0} /\ GraphNodes \in Nat
  BY CorpusFacts
<1>2. \A e \in edges, c \in 0..(Colors - 1) :
         Choice(NodeIx[e[1]], c, Colors) \in Nat \ {0} /\ Choice(NodeIx[e[2]], c, Colors) \in Nat \ {0}
  BY <1>1, EdgeEnds, ChoiceInside DEF Nodes
<1>3. \A e \in edges, c \in 0..(Colors - 1) :
         Holding(true, {-Choice(NodeIx[e[1]], c, Colors), -Choice(NodeIx[e[2]], c, Colors)})
           <=> (Choice(NodeIx[e[1]], c, Colors) \notin true \/ Choice(NodeIx[e[2]], c, Colors) \notin true)
  BY <1>2, NegativeClause
<1>4. (\A clause \in ConflictClauses(edges) : Holding(true, clause))
        <=> \A e \in edges, c \in 0..(Colors - 1) :
              Holding(true, {-Choice(NodeIx[e[1]], c, Colors), -Choice(NodeIx[e[2]], c, Colors)})
  <2>1. ASSUME \A clause \in ConflictClauses(edges) : Holding(true, clause),
               NEW e \in edges, NEW c \in 0..(Colors - 1)
        PROVE  Holding(true, {-Choice(NodeIx[e[1]], c, Colors), -Choice(NodeIx[e[2]], c, Colors)})
    <3>1. {-Choice(NodeIx[e[1]], c, Colors), -Choice(NodeIx[e[2]], c, Colors)} \in ConflictClauses(edges)
      BY DEF ConflictClauses
    <3> QED BY <2>1, <3>1
  <2>2. ASSUME \A e \in edges, c \in 0..(Colors - 1) :
                  Holding(true, {-Choice(NodeIx[e[1]], c, Colors), -Choice(NodeIx[e[2]], c, Colors)}),
               NEW clause \in ConflictClauses(edges)
        PROVE  Holding(true, clause)
    <3>1. PICK e \in edges, c \in 0..(Colors - 1) :
                 clause = {-Choice(NodeIx[e[1]], c, Colors), -Choice(NodeIx[e[2]], c, Colors)}
      BY DEF ConflictClauses
    <3> QED BY <2>2, <3>1
  <2> QED BY <2>1, <2>2
<1> QED BY <1>3, <1>4, SatisfiesHolding DEF Apart

LEMMA GraphMeans ==
    ASSUME NEW edges \in SUBSET NodePairs, NEW true
    PROVE  Satisfies(true, gen_graph_coloring(edges))
             <=> /\ AtLeast(true, Nodes, NodeIx, Colors)
                 /\ AtMost(true, Nodes, NodeIx, Colors)
                 /\ Apart(true, edges)
<1>1. Colors \in Nat \ {0} /\ GraphNodes \in Nat
  BY CorpusFacts
<1>2. Satisfies(true, gen_graph_coloring(edges))
        <=> /\ Satisfies(true, LeastClauses(Nodes, NodeIx, Colors))
            /\ Satisfies(true, MostClauses(Nodes, NodeIx, Colors))
            /\ Satisfies(true, ConflictClauses(edges))
  <2>1. PICK A, B, C : A = LeastClauses(Nodes, NodeIx, Colors) /\ B = MostClauses(Nodes, NodeIx, Colors)
                       /\ C = ConflictClauses(edges)
    OBVIOUS
  <2>2. /\ Satisfies(true, (A \cup B) \cup C) <=> (Satisfies(true, A \cup B) /\ Satisfies(true, C))
        /\ Satisfies(true, A \cup B) <=> (Satisfies(true, A) /\ Satisfies(true, B))
    BY SatisfiesBoth
  <2>3. gen_graph_coloring(edges) = (A \cup B) \cup C
    BY <2>1, GraphClauses
  <2> QED BY <2>1, <2>2, <2>3
<1> QED BY <1>1, <1>2, NodesNumbered, LeastMeans, MostMeans, ConflictsMean

LEMMA ColoringChosen ==
    ASSUME NEW col \in [Nodes -> 0..(Colors - 1)]
    PROVE  ColoringModel(col) = Chosen(col, Nodes, NodeIx, Colors)
<1>1. \A v \in Nodes : NodeIx[v] = v
  BY DEF NodeIx
<1>2. Chosen(col, Nodes, NodeIx, Colors) = {v * Colors + col[v] + 1 : v \in Nodes}
  BY <1>1 DEF Chosen, Choice
<1> QED BY <1>2 DEF ColoringModel, Nodes

LEMMA GraphModels ==
    ASSUME NEW edges \in SUBSET NodePairs
    PROVE  Models(gen_graph_coloring(edges), GraphNodes * Colors)
             = {ColoringModel(col) : col \in ProperColorings(edges)}
<1>1. Colors \in Nat \ {0} /\ GraphNodes \in Nat
  BY CorpusFacts
<1>2. \A col \in ProperColorings(edges) :
         col \in [Nodes -> 0..(Colors - 1)] /\ \A e \in edges : col[e[1]] # col[e[2]]
  BY DEF ProperColorings, Nodes
<1>3. ASSUME NEW col \in ProperColorings(edges)
      PROVE  ColoringModel(col) \in Models(gen_graph_coloring(edges), GraphNodes * Colors)
  <2>1. /\ Chosen(col, Nodes, NodeIx, Colors) \in SUBSET (1..(GraphNodes * Colors))
        /\ AtLeast(Chosen(col, Nodes, NodeIx, Colors), Nodes, NodeIx, Colors)
        /\ AtMost(Chosen(col, Nodes, NodeIx, Colors), Nodes, NodeIx, Colors)
        /\ \A v \in Nodes, c \in 0..(Colors - 1) :
              Choice(NodeIx[v], c, Colors) \in Chosen(col, Nodes, NodeIx, Colors) <=> col[v] = c
    BY <1>1, <1>2, NodesNumbered, ChosenHas
  <2>2. Apart(Chosen(col, Nodes, NodeIx, Colors), edges)
    <3>1. ASSUME NEW e \in edges, NEW c \in 0..(Colors - 1)
          PROVE  \/ Choice(NodeIx[e[1]], c, Colors) \notin Chosen(col, Nodes, NodeIx, Colors)
                 \/ Choice(NodeIx[e[2]], c, Colors) \notin Chosen(col, Nodes, NodeIx, Colors)
      <4>1. e[1] \in Nodes /\ e[2] \in Nodes /\ col[e[1]] # col[e[2]]
        BY <1>2, EdgeEnds
      <4> QED BY <2>1, <4>1
    <3> QED BY <3>1 DEF Apart
  <2>3. Satisfies(Chosen(col, Nodes, NodeIx, Colors), gen_graph_coloring(edges))
    BY <2>1, <2>2, GraphMeans
  <2> QED BY <1>2, <2>1, <2>3, ColoringChosen DEF Models
<1>4. ASSUME NEW true \in Models(gen_graph_coloring(edges), GraphNodes * Colors)
      PROVE  \E col \in ProperColorings(edges) : true = ColoringModel(col)
  <2>1. true \in SUBSET (1..(GraphNodes * Colors)) /\ Satisfies(true, gen_graph_coloring(edges))
    BY DEF Models
  <2>2. AtLeast(true, Nodes, NodeIx, Colors) /\ AtMost(true, Nodes, NodeIx, Colors) /\ Apart(true, edges)
    BY <2>1, GraphMeans
  <2>3. PICK col \in [Nodes -> 0..(Colors - 1)] : true = Chosen(col, Nodes, NodeIx, Colors)
    BY <1>1, <2>1, <2>2, NodesNumbered, ChosenOnly
  <2>4. ASSUME NEW e \in edges PROVE col[e[1]] # col[e[2]]
    <3>1. /\ e[1] \in Nodes /\ e[2] \in Nodes
          /\ col[e[1]] \in 0..(Colors - 1) /\ col[e[2]] \in 0..(Colors - 1)
      BY EdgeEnds
    <3>2. \A v \in Nodes : Choice(NodeIx[v], col[v], Colors) \in true
      BY <2>3 DEF Chosen
    <3> QED BY <2>2, <3>1, <3>2 DEF Apart
  <2>5. col \in ProperColorings(edges)
    BY <2>4 DEF ProperColorings, Nodes
  <2> QED BY <2>3, <2>5, ColoringChosen
<1>5. Models(gen_graph_coloring(edges), GraphNodes * Colors)
        \subseteq {ColoringModel(col) : col \in ProperColorings(edges)}
  BY <1>4
<1>6. {ColoringModel(col) : col \in ProperColorings(edges)}
        \subseteq Models(gen_graph_coloring(edges), GraphNodes * Colors)
  BY <1>3
<1> QED BY <1>5, <1>6

(* Latin squares: the models of the encoding are the completions.          *)
CellIx == [x \in Cells |-> x[1] * Order + x[2]]
RowClauses == {{Choice(CellIx[<<r, c>>], v, Order) : c \in Values} : r \in Values, v \in Values}
ColumnClauses == {{Choice(CellIx[<<r, c>>], v, Order) : r \in Values} : c \in Values, v \in Values}
ClueClauses(grid, clues) == {{Choice(CellIx[x], grid[x], Order)} : x \in clues}
Rows(true) == \A r, v \in Values : \E c \in Values : Choice(CellIx[<<r, c>>], v, Order) \in true
Columns(true) == \A c, v \in Values : \E r \in Values : Choice(CellIx[<<r, c>>], v, Order) \in true
Given(true, grid, clues) == \A x \in clues : Choice(CellIx[x], grid[x], Order) \in true

LEMMA OrderFacts ==
    /\ Order \in Nat \ {0} /\ Order \in Nat /\ Order * Order \in Nat
    /\ Values = 0..(Order - 1) /\ Cells = Values \X Values
BY CorpusFacts DEF Values, Cells

LEMMA CellParts ==
    ASSUME NEW x \in Cells
    PROVE  x[1] \in Values /\ x[2] \in Values /\ x = <<x[1], x[2]>> /\ CellIx[x] = x[1] * Order + x[2]
BY OrderFacts DEF CellIx

LEMMA CellOf ==
    ASSUME NEW r \in Values, NEW c \in Values
    PROVE  <<r, c>> \in Cells /\ CellIx[<<r, c>>] = r * Order + c
BY OrderFacts DEF CellIx

LEMMA CellsNumbered == Numbers(CellIx, Cells, Order * Order)
<1>1. CellIx \in [Cells -> 0..(Order * Order - 1)]
  <2>1. ASSUME NEW x \in Cells PROVE CellIx[x] \in 0..(Order * Order - 1)
    <3>1. /\ x[1] \in 0..(Order - 1) /\ x[2] \in 0..(Order - 1) /\ CellIx[x] = x[1] * Order + x[2]
      BY CellParts, OrderFacts
    <3>2. CellIx[x] \in Nat /\ CellIx[x] < Order * Order
      BY <3>1, OrderFacts, CodeInside
    <3>3. PICK m, n : m = CellIx[x] /\ n = Order * Order
      OBVIOUS
    <3>4. m \in Nat /\ n \in Nat /\ m < n
      BY <3>2, <3>3, OrderFacts
    <3>5. m \in 0..(n - 1)
      BY <3>4
    <3> QED BY <3>3, <3>5
  <2> QED BY <2>1 DEF CellIx
<1>2. ASSUME NEW x \in Cells, NEW y \in Cells, CellIx[x] = CellIx[y] PROVE x = y
  <2>1. x[1] * Order + x[2] = y[1] * Order + y[2]
    BY <1>2, CellParts
  <2>2. /\ x[1] \in 0..(Order - 1) /\ x[2] \in 0..(Order - 1) /\ x[1] \in Nat
        /\ y[1] \in 0..(Order - 1) /\ y[2] \in 0..(Order - 1) /\ y[1] \in Nat
    BY CellParts, OrderFacts
  <2>3. \A a, b \in Nat, c, d \in 0..(Order - 1) :
           a * Order + c = b * Order + d => a = b /\ c = d
    BY OrderFacts, CodeUnique
  <2>4. x[1] = y[1] /\ x[2] = y[2]
    BY <2>1, <2>2, <2>3
  <2> QED BY <2>4, CellParts
<1>3. ASSUME NEW s \in 0..(Order * Order - 1) PROVE \E x \in Cells : CellIx[x] = s
  <2>1. PICK r \in 0..(Order - 1), c \in 0..(Order - 1) : s = r * Order + c
    BY OrderFacts, CodeSplit
  <2>2. <<r, c>> \in Cells /\ CellIx[<<r, c>>] = s
    BY <2>1, OrderFacts, CellOf
  <2> QED BY <2>2
<1> QED BY <1>1, <1>2, <1>3 DEF Numbers

LEMMA LatinClauses ==
    ASSUME NEW grid \in [Cells -> Values], NEW clues \in SUBSET Cells
    PROVE  gen_latin_square(grid, clues) =
              LeastClauses(Cells, CellIx, Order) \cup MostClauses(Cells, CellIx, Order)
                 \cup RowClauses \cup ColumnClauses \cup ClueClauses(grid, clues)
<1>0. /\ \A x \in Cells, v \in Values :
            Choice(CellIx[x], v, Order) = (x[1] * Order + x[2]) * Order + v + 1
      /\ \A r, c, v \in Values :
            Choice(CellIx[<<r, c>>], v, Order) = (r * Order + c) * Order + v + 1
  BY CellParts, CellOf DEF Choice
<1>1. LeastClauses(Cells, CellIx, Order)
        = {{(x[1] * Order + x[2]) * Order + v + 1 : v \in Values} : x \in Cells}
  <2>1. \A x \in Cells : {Choice(CellIx[x], v, Order) : v \in Values}
                           = {(x[1] * Order + x[2]) * Order + v + 1 : v \in Values}
    BY <1>0
  <2>2. LeastClauses(Cells, CellIx, Order) = {{Choice(CellIx[x], v, Order) : v \in Values} : x \in Cells}
    BY OrderFacts DEF LeastClauses
  <2>3. ASSUME NEW clause \in LeastClauses(Cells, CellIx, Order) PROVE clause \in {{(x[1] * Order + x[2]) * Order + v + 1 : v \in Values} : x \in Cells}
    <3>1. PICK x \in Cells : clause = {Choice(CellIx[x], v, Order) : v \in Values}
      BY <2>2
    <3>2. clause = {(x[1] * Order + x[2]) * Order + v + 1 : v \in Values}
      BY <2>1, <3>1
    <3> QED BY <3>2
  <2>4. ASSUME NEW clause \in {{(x[1] * Order + x[2]) * Order + v + 1 : v \in Values} : x \in Cells} PROVE clause \in LeastClauses(Cells, CellIx, Order)
    <3>1. PICK x \in Cells : clause = {(x[1] * Order + x[2]) * Order + v + 1 : v \in Values}
      BY <2>4
    <3>2. clause = {Choice(CellIx[x], v, Order) : v \in Values}
      BY <2>1, <3>1
    <3> QED BY <2>2, <3>2
  <2> QED BY <2>3, <2>4
<1>2. MostClauses(Cells, CellIx, Order)
        = {{-((x[1] * Order + x[2]) * Order + p[1] + 1), -((x[1] * Order + x[2]) * Order + p[2] + 1)} :
             x \in Cells, p \in {q \in Values \X Values : q[1] < q[2]}}
  <2>1. \A x \in Cells, p \in {q \in Values \X Values : q[1] < q[2]} :
           /\ Choice(CellIx[x], p[1], Order) = (x[1] * Order + x[2]) * Order + p[1] + 1
           /\ Choice(CellIx[x], p[2], Order) = (x[1] * Order + x[2]) * Order + p[2] + 1
    BY <1>0
  <2>2. MostClauses(Cells, CellIx, Order)
          = {{-Choice(CellIx[x], p[1], Order), -Choice(CellIx[x], p[2], Order)} :
               x \in Cells, p \in {q \in Values \X Values : q[1] < q[2]}}
    BY OrderFacts DEF MostClauses
  <2> QED BY <2>1, <2>2
<1>3. RowClauses = {{(r * Order + c) * Order + v + 1 : c \in Values} : r \in Values, v \in Values}
  <2>1. ASSUME NEW r \in Values, NEW v \in Values
        PROVE  {Choice(CellIx[<<r, c>>], v, Order) : c \in Values} = {(r * Order + c) * Order + v + 1 : c \in Values}
    <3>1. PICK f, g : /\ f = [c \in Values |-> Choice(CellIx[<<r, c>>], v, Order)]
                      /\ g = [c \in Values |-> (r * Order + c) * Order + v + 1]
      OBVIOUS
    <3>2. f = g
      BY <1>0, <3>1
    <3>3. {Choice(CellIx[<<r, c>>], v, Order) : c \in Values} = {f[c] : c \in Values}
      BY <3>1
    <3>4. {(r * Order + c) * Order + v + 1 : c \in Values} = {g[c] : c \in Values}
      BY <3>1
    <3> QED BY <3>2, <3>3, <3>4
  <2> DEFINE Coded(i, w) == {Choice(CellIx[<<i, c>>], w, Order) : c \in Values}
             Spelt(i, w) == {(i * Order + c) * Order + w + 1 : c \in Values}
  <2>2. \A i, w \in Values : Coded(i, w) = Spelt(i, w)
    BY <2>1
  <2>3. RowClauses = {Coded(i, w) : i \in Values, w \in Values}
    BY DEF RowClauses
  <2>4. RowClauses = {Spelt(i, w) : i \in Values, w \in Values}
    <3> HIDE DEF Coded, Spelt
    <3>1. {Coded(i, w) : i \in Values, w \in Values} = {Spelt(i, w) : i \in Values, w \in Values}
      BY <2>2
    <3> QED BY <2>3, <3>1
  <2> QED BY <2>4
<1>4. ColumnClauses = {{(r * Order + c) * Order + v + 1 : r \in Values} : c \in Values, v \in Values}
  <2> DEFINE Coded(c, v) == {Choice(CellIx[<<r, c>>], v, Order) : r \in Values}
             Spelt(c, v) == {(r * Order + c) * Order + v + 1 : r \in Values}
  <2>1. ASSUME NEW c \in Values, NEW v \in Values PROVE Coded(c, v) = Spelt(c, v)
    <3>1. PICK f, g : /\ f = [r \in Values |-> Choice(CellIx[<<r, c>>], v, Order)]
                      /\ g = [r \in Values |-> (r * Order + c) * Order + v + 1]
      OBVIOUS
    <3>2. f = g
      BY <1>0, <3>1
    <3>3. Coded(c, v) = {f[r] : r \in Values}
      BY <3>1
    <3>4. Spelt(c, v) = {g[r] : r \in Values}
      BY <3>1
    <3> QED BY <3>2, <3>3, <3>4
  <2>2. ColumnClauses = {Coded(c, v) : c \in Values, v \in Values}
    BY DEF ColumnClauses
  <2>3. ColumnClauses = {Spelt(c, v) : c \in Values, v \in Values}
    <3> HIDE DEF Coded, Spelt
    <3>1. {Coded(c, v) : c \in Values, v \in Values} = {Spelt(c, v) : c \in Values, v \in Values}
      BY <2>1
    <3> QED BY <2>2, <3>1
  <2> QED BY <2>3
<1>5. ClueClauses(grid, clues) = {{(x[1] * Order + x[2]) * Order + grid[x] + 1} : x \in clues}
  BY CellParts DEF ClueClauses, Choice
<1> QED BY <1>1, <1>2, <1>3, <1>4, <1>5 DEF gen_latin_square

LEMMA LinesMean ==
    ASSUME NEW true
    PROVE  /\ Satisfies(true, RowClauses) <=> Rows(true)
           /\ Satisfies(true, ColumnClauses) <=> Columns(true)
<1>1. \A r, c, v \in Values : Choice(CellIx[<<r, c>>], v, Order) \in Nat \ {0}
  <2>1. ASSUME NEW r \in Values, NEW c \in Values, NEW v \in Values
        PROVE  Choice(CellIx[<<r, c>>], v, Order) \in Nat \ {0}
    <3>1. CellIx[<<r, c>>] \in 0..(Order * Order - 1)
      BY CellOf, CellsNumbered DEF Numbers
    <3> QED BY <3>1, OrderFacts, ChoiceInside
  <2> QED BY <2>1
<1>2. ASSUME NEW r \in Values, NEW v \in Values
      PROVE  Holding(true, {Choice(CellIx[<<r, c>>], v, Order) : c \in Values})
               <=> \E c \in Values : Choice(CellIx[<<r, c>>], v, Order) \in true
  <2>1. PICK f : f = [c \in Values |-> Choice(CellIx[<<r, c>>], v, Order)]
    OBVIOUS
  <2>2. \A c \in Values : f[c] \in Nat \ {0} /\ f[c] = Choice(CellIx[<<r, c>>], v, Order)
    BY <1>1, <2>1
  <2>3. {Choice(CellIx[<<r, c>>], v, Order) : c \in Values} = {f[c] : c \in Values}
    BY <2>1
  <2>4. Holding(true, {f[c] : c \in Values}) <=> \E c \in Values : f[c] \in true
    BY <2>2, PositiveClause
  <2> QED BY <2>2, <2>3, <2>4
<1>3. ASSUME NEW c \in Values, NEW v \in Values
      PROVE  Holding(true, {Choice(CellIx[<<r, c>>], v, Order) : r \in Values})
               <=> \E r \in Values : Choice(CellIx[<<r, c>>], v, Order) \in true
  <2>1. PICK f : f = [r \in Values |-> Choice(CellIx[<<r, c>>], v, Order)]
    OBVIOUS
  <2>2. \A r \in Values : f[r] \in Nat \ {0} /\ f[r] = Choice(CellIx[<<r, c>>], v, Order)
    BY <1>1, <2>1
  <2>3. {Choice(CellIx[<<r, c>>], v, Order) : r \in Values} = {f[r] : r \in Values}
    BY <2>1
  <2>4. Holding(true, {f[r] : r \in Values}) <=> \E r \in Values : f[r] \in true
    BY <2>2, PositiveClause
  <2> QED BY <2>2, <2>3, <2>4
<1>4. (\A clause \in RowClauses : Holding(true, clause))
        <=> \A j, w \in Values : Holding(true, {Choice(CellIx[<<j, c>>], w, Order) : c \in Values})
  <2> DEFINE Coded(j, w) == {Choice(CellIx[<<j, c>>], w, Order) : c \in Values}
  <2>1. RowClauses = {Coded(j, w) : j \in Values, w \in Values}
    BY DEF RowClauses
  <2>2. (\A clause \in RowClauses : Holding(true, clause)) <=> \A j, w \in Values : Holding(true, Coded(j, w))
    <3> HIDE DEF Coded
    <3> QED BY <2>1
  <2> QED BY <2>2
<1>5. (\A clause \in ColumnClauses : Holding(true, clause))
        <=> \A j, w \in Values : Holding(true, {Choice(CellIx[<<r, j>>], w, Order) : r \in Values})
  <2> DEFINE Coded(j, w) == {Choice(CellIx[<<r, j>>], w, Order) : r \in Values}
  <2>1. ColumnClauses = {Coded(j, w) : j \in Values, w \in Values}
    BY DEF ColumnClauses
  <2>2. (\A clause \in ColumnClauses : Holding(true, clause)) <=> \A j, w \in Values : Holding(true, Coded(j, w))
    <3> HIDE DEF Coded
    <3> QED BY <2>1
  <2> QED BY <2>2
<1>6. Satisfies(true, RowClauses) <=> Rows(true)
  BY <1>2, <1>4, SatisfiesHolding DEF Rows
<1>7. Satisfies(true, ColumnClauses) <=> Columns(true)
  BY <1>3, <1>5, SatisfiesHolding DEF Columns
<1> QED BY <1>6, <1>7

LEMMA CluesMean ==
    ASSUME NEW grid \in [Cells -> Values], NEW clues \in SUBSET Cells, NEW true
    PROVE  Satisfies(true, ClueClauses(grid, clues)) <=> Given(true, grid, clues)
<1>1. \A x \in clues : Choice(CellIx[x], grid[x], Order) \in Nat \ {0}
  <2>1. ASSUME NEW x \in clues PROVE Choice(CellIx[x], grid[x], Order) \in Nat \ {0}
    <3>1. CellIx[x] \in 0..(Order * Order - 1) /\ grid[x] \in 0..(Order - 1)
      BY CellsNumbered, OrderFacts DEF Numbers
    <3> QED BY <3>1, OrderFacts, ChoiceInside
  <2> QED BY <2>1
<1>2. \A x \in clues : Holding(true, {Choice(CellIx[x], grid[x], Order)})
                         <=> Choice(CellIx[x], grid[x], Order) \in true
  BY <1>1 DEF Holding
<1>3. (\A clause \in ClueClauses(grid, clues) : Holding(true, clause))
        <=> \A x \in clues : Holding(true, {Choice(CellIx[x], grid[x], Order)})
  BY DEF ClueClauses
<1> QED BY <1>2, <1>3, SatisfiesHolding DEF Given

LEMMA LatinMeans ==
    ASSUME NEW grid \in [Cells -> Values], NEW clues \in SUBSET Cells, NEW true
    PROVE  Satisfies(true, gen_latin_square(grid, clues))
             <=> /\ AtLeast(true, Cells, CellIx, Order) /\ AtMost(true, Cells, CellIx, Order)
                 /\ Rows(true) /\ Columns(true) /\ Given(true, grid, clues)
<1>1. PICK A, B, C, D, E : /\ A = LeastClauses(Cells, CellIx, Order)
                           /\ B = MostClauses(Cells, CellIx, Order)
                           /\ C = RowClauses /\ D = ColumnClauses /\ E = ClueClauses(grid, clues)
  OBVIOUS
<1>2. gen_latin_square(grid, clues) = A \cup B \cup C \cup D \cup E
  BY <1>1, LatinClauses
<1>3. /\ Satisfies(true, A \cup B \cup C \cup D \cup E)
           <=> (Satisfies(true, A \cup B \cup C \cup D) /\ Satisfies(true, E))
      /\ Satisfies(true, A \cup B \cup C \cup D) <=> (Satisfies(true, A \cup B \cup C) /\ Satisfies(true, D))
      /\ Satisfies(true, A \cup B \cup C) <=> (Satisfies(true, A \cup B) /\ Satisfies(true, C))
      /\ Satisfies(true, A \cup B) <=> (Satisfies(true, A) /\ Satisfies(true, B))
  BY SatisfiesBoth
<1>4. Satisfies(true, A) <=> AtLeast(true, Cells, CellIx, Order)
  BY <1>1, OrderFacts, CellsNumbered, LeastMeans
<1>5. Satisfies(true, B) <=> AtMost(true, Cells, CellIx, Order)
  BY <1>1, OrderFacts, CellsNumbered, MostMeans
<1>6. /\ Satisfies(true, C) <=> Rows(true)
      /\ Satisfies(true, D) <=> Columns(true)
      /\ Satisfies(true, E) <=> Given(true, grid, clues)
  BY <1>1, LinesMean, CluesMean
<1> QED BY <1>2, <1>3, <1>4, <1>5, <1>6

(* On the values, every value met and no value met twice are the same.     *)
LEMMA Pigeons ==
    ASSUME NEW h \in [Values -> Values]
    PROVE  (\A v \in Values : \E c \in Values : h[c] = v)
             <=> (\A c, d \in Values : h[c] = h[d] => c = d)
<1>1. IsFiniteSet(Values)
  <2>1. 0 \in Int /\ Order - 1 \in Int
    BY OrderFacts
  <2> QED BY <2>1, OrderFacts, FS_Interval
<1>2. (\A v \in Values : \E c \in Values : h[c] = v) <=> h \in Surjection(Values, Values)
  BY DEF Surjection
<1>3. (\A c, d \in Values : h[c] = h[d] => c = d) <=> h \in Injection(Values, Values)
  BY DEF Injection, IsInjective
<1>4. h \in Surjection(Values, Values) => h \in Injection(Values, Values)
  BY <1>1, FS_Surjection
<1>5. h \in Injection(Values, Values) => h \in Surjection(Values, Values)
  BY <1>1, FS_Injection
<1> QED BY <1>2, <1>3, <1>4, <1>5

RowsDiffer(f) == \A r, c, d \in Values : f[<<r, c>>] = f[<<r, d>>] => c = d
ColumnsDiffer(f) == \A c, r, q \in Values : f[<<r, c>>] = f[<<q, c>>] => r = q

LEMMA LatinSquare ==
    ASSUME NEW f \in [Cells -> Values]
    PROVE  RowsDiffer(f) /\ ColumnsDiffer(f)
             <=> \A x, y \in Cells : (x # y /\ (x[1] = y[1] \/ x[2] = y[2])) => f[x] # f[y]
<1>1. ASSUME RowsDiffer(f), ColumnsDiffer(f), NEW x \in Cells, NEW y \in Cells, x # y,
             x[1] = y[1] \/ x[2] = y[2]
      PROVE  f[x] # f[y]
  <2>1. /\ x[1] \in Values /\ x[2] \in Values /\ x = <<x[1], x[2]>>
        /\ y[1] \in Values /\ y[2] \in Values /\ y = <<y[1], y[2]>>
    BY CellParts
  <2>2. CASE x[1] = y[1]
    <3>1. x[2] # y[2]
      BY <1>1, <2>1, <2>2
    <3> QED BY <1>1, <2>1, <2>2, <3>1 DEF RowsDiffer
  <2>3. CASE x[2] = y[2]
    <3>1. x[1] # y[1]
      BY <1>1, <2>1, <2>3
    <3> QED BY <1>1, <2>1, <2>3, <3>1 DEF ColumnsDiffer
  <2> QED BY <1>1, <2>2, <2>3
<1>2. ASSUME \A x, y \in Cells : (x # y /\ (x[1] = y[1] \/ x[2] = y[2])) => f[x] # f[y]
      PROVE  RowsDiffer(f) /\ ColumnsDiffer(f)
  <2>1. ASSUME NEW r \in Values, NEW c \in Values, NEW d \in Values, f[<<r, c>>] = f[<<r, d>>] PROVE c = d
    <3>1. <<r, c>> \in Cells /\ <<r, d>> \in Cells /\ <<r, c>>[1] = <<r, d>>[1]
      BY OrderFacts
    <3>2. <<r, c>> = <<r, d>>
      BY <1>2, <2>1, <3>1
    <3> QED BY <3>2
  <2>2. ASSUME NEW c \in Values, NEW r \in Values, NEW q \in Values, f[<<r, c>>] = f[<<q, c>>] PROVE r = q
    <3>1. <<r, c>> \in Cells /\ <<q, c>> \in Cells /\ <<r, c>>[2] = <<q, c>>[2]
      BY OrderFacts
    <3>2. <<r, c>> = <<q, c>>
      BY <1>2, <2>2, <3>1
    <3> QED BY <3>2
  <2> QED BY <2>1, <2>2 DEF RowsDiffer, ColumnsDiffer
<1> QED BY <1>1, <1>2

LEMMA CellsChosen ==
    /\ \A f \in [Cells -> Values] :
          /\ Chosen(f, Cells, CellIx, Order) \in SUBSET (1..(Order * Order * Order))
          /\ AtLeast(Chosen(f, Cells, CellIx, Order), Cells, CellIx, Order)
          /\ AtMost(Chosen(f, Cells, CellIx, Order), Cells, CellIx, Order)
          /\ \A x \in Cells, v \in Values :
                Choice(CellIx[x], v, Order) \in Chosen(f, Cells, CellIx, Order) <=> f[x] = v
    /\ \A true \in SUBSET (1..(Order * Order * Order)) :
          AtLeast(true, Cells, CellIx, Order) /\ AtMost(true, Cells, CellIx, Order)
             => \E f \in [Cells -> Values] : true = Chosen(f, Cells, CellIx, Order)
<1>1. PICK n : n = Order * Order
  OBVIOUS
<1>2. n \in Nat /\ Order \in Nat \ {0} /\ Numbers(CellIx, Cells, n) /\ Values = 0..(Order - 1)
  BY <1>1, OrderFacts, CellsNumbered
<1>3. ASSUME NEW f \in [Cells -> Values]
      PROVE  /\ Chosen(f, Cells, CellIx, Order) \in SUBSET (1..(n * Order))
             /\ AtLeast(Chosen(f, Cells, CellIx, Order), Cells, CellIx, Order)
             /\ AtMost(Chosen(f, Cells, CellIx, Order), Cells, CellIx, Order)
             /\ \A x \in Cells, v \in Values :
                   Choice(CellIx[x], v, Order) \in Chosen(f, Cells, CellIx, Order) <=> f[x] = v
  <2>1. f \in [Cells -> 0..(Order - 1)]
    BY <1>2
  <2>2. \A x \in Cells, c \in 0..(Order - 1) :
           Choice(CellIx[x], c, Order) \in Chosen(f, Cells, CellIx, Order) <=> f[x] = c
    BY <1>2, <2>1, ChosenHas
  <2>3. /\ Chosen(f, Cells, CellIx, Order) \in SUBSET (1..(n * Order))
        /\ AtLeast(Chosen(f, Cells, CellIx, Order), Cells, CellIx, Order)
        /\ AtMost(Chosen(f, Cells, CellIx, Order), Cells, CellIx, Order)
    BY <1>2, <2>1, ChosenHas
  <2> QED BY <1>2, <2>2, <2>3
<1>4. ASSUME NEW true \in SUBSET (1..(n * Order)), AtLeast(true, Cells, CellIx, Order),
             AtMost(true, Cells, CellIx, Order)
      PROVE  \E f \in [Cells -> Values] : true = Chosen(f, Cells, CellIx, Order)
  <2>1. \E f \in [Cells -> 0..(Order - 1)] : true = Chosen(f, Cells, CellIx, Order)
    BY <1>2, <1>4, ChosenOnly
  <2> QED BY <1>2, <2>1
<1>5. n * Order = Order * Order * Order
  BY <1>1
<1> QED BY <1>3, <1>4, <1>5

LEMMA LinesDiffer ==
    ASSUME NEW f \in [Cells -> Values]
    PROVE  /\ Rows(Chosen(f, Cells, CellIx, Order)) <=> RowsDiffer(f)
           /\ Columns(Chosen(f, Cells, CellIx, Order)) <=> ColumnsDiffer(f)
<1>1. PICK true : true = Chosen(f, Cells, CellIx, Order)
  OBVIOUS
<1>2. \A x \in Cells, v \in Values : Choice(CellIx[x], v, Order) \in true <=> f[x] = v
  BY <1>1, CellsChosen
<1>3. \A r, c, v \in Values : Choice(CellIx[<<r, c>>], v, Order) \in true <=> f[<<r, c>>] = v
  BY <1>2, CellOf
<1>4. ASSUME NEW r \in Values
      PROVE  (\A v \in Values : \E c \in Values : f[<<r, c>>] = v)
               <=> (\A c, d \in Values : f[<<r, c>>] = f[<<r, d>>] => c = d)
  <2>1. PICK h : h = [c \in Values |-> f[<<r, c>>]]
    OBVIOUS
  <2>2. h \in [Values -> Values] /\ \A c \in Values : h[c] = f[<<r, c>>]
    BY <2>1, CellOf
  <2>3. (\A v \in Values : \E c \in Values : h[c] = v)
          <=> (\A v \in Values : \E c \in Values : f[<<r, c>>] = v)
    BY <2>2
  <2>4. (\A c, d \in Values : h[c] = h[d] => c = d)
          <=> (\A c, d \in Values : f[<<r, c>>] = f[<<r, d>>] => c = d)
    BY <2>2
  <2>5. (\A v \in Values : \E c \in Values : h[c] = v) <=> (\A c, d \in Values : h[c] = h[d] => c = d)
    BY <2>2, Pigeons
  <2> QED BY <2>3, <2>4, <2>5
<1>5. ASSUME NEW c \in Values
      PROVE  (\A v \in Values : \E r \in Values : f[<<r, c>>] = v)
               <=> (\A r, q \in Values : f[<<r, c>>] = f[<<q, c>>] => r = q)
  <2>1. PICK h : h = [r \in Values |-> f[<<r, c>>]]
    OBVIOUS
  <2>2. h \in [Values -> Values] /\ \A r \in Values : h[r] = f[<<r, c>>]
    BY <2>1, CellOf
  <2>3. (\A v \in Values : \E r \in Values : h[r] = v)
          <=> (\A v \in Values : \E r \in Values : f[<<r, c>>] = v)
    BY <2>2
  <2>4. (\A r, q \in Values : h[r] = h[q] => r = q)
          <=> (\A r, q \in Values : f[<<r, c>>] = f[<<q, c>>] => r = q)
    BY <2>2
  <2>5. (\A v \in Values : \E r \in Values : h[r] = v) <=> (\A r, q \in Values : h[r] = h[q] => r = q)
    BY <2>2, Pigeons
  <2> QED BY <2>3, <2>4, <2>5
<1>6. Rows(true) <=> \A r \in Values : \A v \in Values : \E c \in Values : f[<<r, c>>] = v
  <2>1. \A r, v \in Values : (\E c \in Values : Choice(CellIx[<<r, c>>], v, Order) \in true)
                               <=> (\E c \in Values : f[<<r, c>>] = v)
    BY <1>3
  <2> QED BY <2>1, ZenonT(30) DEF Rows
<1>7. Columns(true) <=> \A c \in Values : \A v \in Values : \E r \in Values : f[<<r, c>>] = v
  <2>1. \A c, v \in Values : (\E r \in Values : Choice(CellIx[<<r, c>>], v, Order) \in true)
                               <=> (\E r \in Values : f[<<r, c>>] = v)
    BY <1>3
  <2> QED BY <2>1 DEF Columns
<1>8. Rows(true) <=> RowsDiffer(f)
  BY <1>4, <1>6 DEF RowsDiffer
<1>9. Columns(true) <=> ColumnsDiffer(f)
  BY <1>5, <1>7 DEF ColumnsDiffer
<1> QED BY <1>1, <1>8, <1>9

LEMMA LatinChosen ==
    ASSUME NEW f \in [Cells -> Values] PROVE LatinModel(f) = Chosen(f, Cells, CellIx, Order)
BY CellParts DEF LatinModel, Chosen, Choice

LEMMA LatinModels ==
    ASSUME NEW grid \in [Cells -> Values], NEW clues \in SUBSET Cells, NEW puzzle,
           puzzle.grid = grid, puzzle.clues = clues
    PROVE  Models(gen_latin_square(grid, clues), Order * Order * Order)
             = {LatinModel(f) : f \in Completions(puzzle)}
<1>1. \A f : f \in Completions(puzzle)
               <=> /\ f \in [Cells -> Values] /\ RowsDiffer(f) /\ ColumnsDiffer(f)
                   /\ \A x \in clues : f[x] = grid[x]
  BY LatinSquare DEF Completions
<1>2. ASSUME NEW f \in [Cells -> Values]
      PROVE  Given(Chosen(f, Cells, CellIx, Order), grid, clues) <=> \A x \in clues : f[x] = grid[x]
  <2>1. \A x \in clues : Choice(CellIx[x], grid[x], Order) \in Chosen(f, Cells, CellIx, Order) <=> f[x] = grid[x]
    BY CellsChosen
  <2> QED BY <2>1 DEF Given
<1>3. ASSUME NEW f \in Completions(puzzle)
      PROVE  LatinModel(f) \in Models(gen_latin_square(grid, clues), Order * Order * Order)
  <2>1. /\ f \in [Cells -> Values] /\ RowsDiffer(f) /\ ColumnsDiffer(f)
        /\ \A x \in clues : f[x] = grid[x]
    BY <1>1
  <2>2. PICK true : true = Chosen(f, Cells, CellIx, Order)
    OBVIOUS
  <2>3. /\ true \in SUBSET (1..(Order * Order * Order))
        /\ AtLeast(true, Cells, CellIx, Order) /\ AtMost(true, Cells, CellIx, Order)
    BY <2>1, <2>2, CellsChosen
  <2>4. Rows(true) /\ Columns(true) /\ Given(true, grid, clues)
    BY <1>2, <2>1, <2>2, LinesDiffer
  <2>5. Satisfies(true, gen_latin_square(grid, clues))
    BY <2>3, <2>4, LatinMeans
  <2> QED BY <2>1, <2>2, <2>3, <2>5, LatinChosen DEF Models
<1>4. ASSUME NEW true \in Models(gen_latin_square(grid, clues), Order * Order * Order)
      PROVE  \E f \in Completions(puzzle) : true = LatinModel(f)
  <2>1. true \in SUBSET (1..(Order * Order * Order)) /\ Satisfies(true, gen_latin_square(grid, clues))
    BY DEF Models
  <2>2. /\ AtLeast(true, Cells, CellIx, Order) /\ AtMost(true, Cells, CellIx, Order)
        /\ Rows(true) /\ Columns(true) /\ Given(true, grid, clues)
    BY <2>1, LatinMeans
  <2>3. PICK f \in [Cells -> Values] : true = Chosen(f, Cells, CellIx, Order)
    BY <2>1, <2>2, CellsChosen
  <2>4. f \in Completions(puzzle)
    BY <1>1, <1>2, <2>2, <2>3, LinesDiffer
  <2> QED BY <2>3, <2>4, LatinChosen
<1>5. Models(gen_latin_square(grid, clues), Order * Order * Order)
        \subseteq {LatinModel(f) : f \in Completions(puzzle)}
  BY <1>4
<1>6. {LatinModel(f) : f \in Completions(puzzle)}
        \subseteq Models(gen_latin_square(grid, clues), Order * Order * Order)
  BY <1>3
<1> QED BY <1>5, <1>6

(* The cyclic square, permuted, is a Latin square.                         *)
LEMMA Modulo ==
    \A n \in Nat \ {0} : \A a, b \in 0..(n - 1) :
       (a + b) % n = IF a + b < n THEN a + b ELSE a + b - n
<1>1. ASSUME NEW n \in Nat \ {0}, NEW a \in 0..(n - 1), NEW b \in 0..(n - 1)
      PROVE  (a + b) % n = IF a + b < n THEN a + b ELSE a + b - n
  <2>1. PICK x \in Nat : x = a + b
    OBVIOUS
  <2>2. PICK q, m : q = x \div n /\ m = x % n
    OBVIOUS
  <2>3. q \in Nat /\ n * q <= x /\ x < n * q + n
    BY <2>2, Division
  <2>4. m \in 0..(n - 1) /\ x = n * q + m
    BY <2>2
  <2>5. x < 2 * n
    BY <2>1
  <2>6. q = 0 \/ q = 1
    <3>1. CASE q >= 2
      <4>1. PICK d \in Nat : q = d + 2
        <5>1. q - 2 \in Nat /\ q = (q - 2) + 2
          BY <2>3, <3>1
        <5> QED BY <5>1
      <4>2. n * q = n * d + 2 * n /\ n * d \in Nat
        BY <4>1
      <4> QED BY <2>3, <2>5, <4>2
    <3> QED BY <2>3, <3>1
  <2>7. CASE q = 0
    <3>1. x = m
      BY <2>4, <2>7
    <3> QED BY <2>1, <2>2, <2>4, <3>1
  <2>8. CASE q = 1
    <3>1. x = n + m
      BY <2>4, <2>8
    <3> QED BY <2>1, <2>2, <2>4, <3>1
  <2> QED BY <2>6, <2>7, <2>8
<1> QED BY <1>1

LEMMA Shifted ==
    ASSUME NEW a \in Values, NEW b \in Values, NEW c \in Values
    PROVE  /\ (a + b) % Order \in Values
           /\ (a + b) % Order = (a + c) % Order => b = c
           /\ (b + a) % Order = (c + a) % Order => b = c
<1>1. \A x, y \in Values : (x + y) % Order = IF x + y < Order THEN x + y ELSE x + y - Order
  BY OrderFacts, Modulo
<1>2. a \in 0..(Order - 1) /\ b \in 0..(Order - 1) /\ c \in 0..(Order - 1)
  BY OrderFacts
<1>3. (a + b) % Order \in Values
  <2>1. PICK m : m = (a + b) % Order
    OBVIOUS
  <2>2. m = IF a + b < Order THEN a + b ELSE a + b - Order
    BY <1>1, <2>1
  <2>3. m \in 0..(Order - 1)
    BY <1>2, <2>2, OrderFacts
  <2> QED BY <2>1, <2>3, OrderFacts
<1>4. (a + b) % Order = (a + c) % Order => b = c
  <2>1. PICK m, n : m = (a + b) % Order /\ n = (a + c) % Order
    OBVIOUS
  <2>2. /\ m = IF a + b < Order THEN a + b ELSE a + b - Order
        /\ n = IF a + c < Order THEN a + c ELSE a + c - Order
    BY <1>1, <2>1
  <2>3. m = n => b = c
    BY <1>2, <2>2, OrderFacts
  <2> QED BY <2>1, <2>3
<1>5. (b + a) % Order = (c + a) % Order => b = c
  <2>1. b + a = a + b /\ c + a = a + c
    BY <1>2
  <2> QED BY <1>4, <2>1
<1> QED BY <1>3, <1>4, <1>5

LEMMA FullSquare ==
    ASSUME NEW rp \in Perms, NEW cp \in Perms, NEW sp \in Perms
    PROVE  /\ full_latin_square(rp, cp, sp) \in [Cells -> Values]
           /\ RowsDiffer(full_latin_square(rp, cp, sp))
           /\ ColumnsDiffer(full_latin_square(rp, cp, sp))
<1>1. /\ rp \in [Values -> Values] /\ cp \in [Values -> Values] /\ sp \in [Values -> Values]
      /\ \A a, b \in Values : rp[a] = rp[b] => a = b
      /\ \A a, b \in Values : cp[a] = cp[b] => a = b
      /\ \A a, b \in Values : sp[a] = sp[b] => a = b
  BY DEF Perms
<1>2. PICK f : f = full_latin_square(rp, cp, sp)
  OBVIOUS
<1>3. f = [x \in Cells |-> sp[(rp[x[1]] + cp[x[2]]) % Order]]
  BY <1>2 DEF full_latin_square
<1>4. \A r, c \in Values : rp[r] \in Values /\ cp[c] \in Values /\ (rp[r] + cp[c]) % Order \in Values
  BY <1>1, Shifted
<1>5. \A r, c \in Values : f[<<r, c>>] = sp[(rp[r] + cp[c]) % Order]
  BY <1>3, CellOf
<1>6. f \in [Cells -> Values]
  <2>1. ASSUME NEW x \in Cells PROVE sp[(rp[x[1]] + cp[x[2]]) % Order] \in Values
    <3>1. (rp[x[1]] + cp[x[2]]) % Order \in Values
      BY <1>4, CellParts
    <3> QED BY <1>1, <3>1
  <2> QED BY <1>3, <2>1
<1>7. ASSUME NEW r \in Values, NEW c \in Values, NEW d \in Values, f[<<r, c>>] = f[<<r, d>>] PROVE c = d
  <2>1. (rp[r] + cp[c]) % Order = (rp[r] + cp[d]) % Order
    BY <1>1, <1>4, <1>5, <1>7
  <2>2. cp[c] = cp[d]
    BY <1>4, <2>1, Shifted
  <2> QED BY <1>1, <2>2
<1>8. ASSUME NEW c \in Values, NEW r \in Values, NEW q \in Values, f[<<r, c>>] = f[<<q, c>>] PROVE r = q
  <2>1. (rp[r] + cp[c]) % Order = (rp[q] + cp[c]) % Order
    BY <1>1, <1>4, <1>5, <1>8
  <2>2. rp[r] = rp[q]
    BY <1>4, <2>1, Shifted
  <2> QED BY <1>1, <2>2
<1> QED BY <1>2, <1>6, <1>7, <1>8 DEF RowsDiffer, ColumnsDiffer

(* The search keeps a proper colouring of the nodes it has coloured.       *)
Extends(edges, s) == \A e \in edges : e[2] < Len(s) => s[e[1] + 1] # s[e[2] + 1]
MintValid(pc, edges, drawn) ==
    /\ pc \in {"choose", "draw", "search", "coloring", "latin", "file"} /\ drawn \in 0..MaxDraws
    /\ pc \in {"search", "coloring"} => edges \in SUBSET NodePairs
    /\ pc = "coloring" => ProperColorings(edges) # {}
    /\ pc = "latin" => \E rp, cp, sp \in Perms, clues \in SUBSET Cells :
                          edges = [grid |-> full_latin_square(rp, cp, sp), clues |-> clues]
SearchValid(pc, edges, s, next) ==
    /\ s \in Seq(0..(Colors - 1)) /\ next \in 0..Colors /\ Len(s) <= GraphNodes
    /\ pc = "search" => Extends(edges, s)
MintFits ==
    \E pc, edges, drawn : mint = [pc |-> pc, edges |-> edges, drawn |-> drawn] /\ MintValid(pc, edges, drawn)
SearchFits ==
    \E s, next : colored = [colors |-> s, next |-> next] /\ SearchValid(mint.pc, mint.edges, s, next)
CorpusIInv == MintFits /\ SearchFits

LEMMA CorpusHolds == ASSUME CorpusIInv PROVE CorpusInv
<1>1. PICK pc, edges, drawn :
         mint = [pc |-> pc, edges |-> edges, drawn |-> drawn] /\ MintValid(pc, edges, drawn)
  BY DEF CorpusIInv, MintFits
<1>2. mint.pc = pc /\ mint.edges = edges /\ mint.drawn = drawn
  BY <1>1
<1>3. CorpusTypeOK
  BY <1>1, <1>2 DEF CorpusIInv, MintValid, SearchFits, SearchValid, CorpusTypeOK
<1>4. ASSUME pc = "coloring"
      PROVE  /\ ProperColorings(edges) # {}
             /\ Models(gen_graph_coloring(edges), GraphNodes * Colors)
                  = {ColoringModel(col) : col \in ProperColorings(edges)}
  BY <1>1, <1>4, GraphModels DEF MintValid
<1>5. ASSUME pc = "latin"
      PROVE  /\ Completions(edges) # {}
             /\ Models(gen_latin_square(edges.grid, edges.clues), Order * Order * Order)
                  = {LatinModel(g) : g \in Completions(edges)}
  <2>1. PICK rp \in Perms, cp \in Perms, sp \in Perms, clues \in SUBSET Cells :
               edges = [grid |-> full_latin_square(rp, cp, sp), clues |-> clues]
    BY <1>1, <1>5 DEF MintValid
  <2>2. PICK f : f = full_latin_square(rp, cp, sp)
    OBVIOUS
  <2>3. /\ f \in [Cells -> Values] /\ RowsDiffer(f) /\ ColumnsDiffer(f)
        /\ edges.grid = f /\ edges.clues = clues
    BY <2>1, <2>2, FullSquare
  <2>4. f \in Completions(edges)
    BY <2>3, LatinSquare DEF Completions
  <2>5. Models(gen_latin_square(f, clues), Order * Order * Order) = {LatinModel(g) : g \in Completions(edges)}
    BY <2>3, LatinModels
  <2> QED BY <2>3, <2>4, <2>5
<1> QED BY <1>2, <1>3, <1>4, <1>5 DEF CorpusInv, WitnessesAreSolutions

LEMMA MintKept ==
    ASSUME NEW pc, NEW edges, NEW drawn, MintValid(pc, edges, drawn),
           mint' = [pc |-> pc, edges |-> edges, drawn |-> drawn]
    PROVE  MintFits'
BY DEF MintFits

LEMMA SearchKept ==
    ASSUME NEW s, NEW next, SearchValid(mint'.pc, mint'.edges, s, next),
           colored' = [colors |-> s, next |-> next]
    PROVE  SearchFits'
BY DEF SearchFits

LEMMA EmptyIsValid ==
    ASSUME NEW pc, NEW edges, pc = "search" => edges \in SUBSET NodePairs
    PROVE  SearchValid(pc, edges, <<>>, 0)
<1>1. PICK s \in Seq(0..(Colors - 1)) : s = <<>> /\ Len(s) = 0
  <2>1. <<>> \in Seq(0..(Colors - 1)) /\ Len(<<>>) = 0
    BY EmptySeq
  <2> QED BY <2>1
<1>2. ASSUME pc = "search" PROVE Extends(edges, s)
  <2>1. ASSUME NEW e \in edges PROVE ~(e[2] < Len(s))
    <3>1. e[2] \in Nat
      BY <1>2, CorpusFacts DEF NodePairs
    <3> QED BY <1>1, <3>1
  <2> QED BY <2>1 DEF Extends
<1>3. SearchValid(pc, edges, s, 0)
  BY <1>1, <1>2, CorpusFacts DEF SearchValid
<1> QED BY <1>1, <1>3

LEMMA CorpusStarts == ASSUME CorpusInit PROVE CorpusIInv
<1>1. PICK pc, edges, drawn : pc = "choose" /\ edges = {} /\ drawn = 0
  OBVIOUS
<1>2. mint = [pc |-> pc, edges |-> edges, drawn |-> drawn] /\ MintValid(pc, edges, drawn)
  BY <1>1, CorpusFacts DEF CorpusInit, MintValid
<1>3. colored = [colors |-> <<>>, next |-> 0] /\ mint.pc # "search"
  BY <1>1, <1>2 DEF CorpusInit, EmptySearch
<1>4. SearchValid(mint.pc, mint.edges, <<>>, 0)
  BY <1>3, EmptyIsValid
<1>5. MintFits
  BY <1>2 DEF MintFits
<1>6. SearchFits
  BY <1>3, <1>4 DEF SearchFits
<1> QED BY <1>5, <1>6 DEF CorpusIInv

LEMMA Prefix ==
    ASSUME NEW S, NEW s \in Seq(S), NEW n \in 0..Len(s)
    PROVE  SubSeq(s, 1, n) \in Seq(S) /\ Len(SubSeq(s, 1, n)) = n /\ \A k \in 1..n : SubSeq(s, 1, n)[k] = s[k]
<1>1. Len(s) \in Nat /\ \A k \in 1..Len(s) : s[k] \in S
  BY LenProperties, ElementOfSeq
<1>2. SubSeq(s, 1, n) = [k \in 1..n |-> s[k]]
  <2>1. SubSeq(s, 1, n) = [k \in 1..(1 + n - 1) |-> s[k + 1 - 1]]
    BY <1>1
  <2> QED BY <1>1, <2>1
<1>3. SubSeq(s, 1, n) \in [1..n -> S]
  <2>1. \A k \in 1..n : s[k] \in S
    BY <1>1
  <2> QED BY <1>2, <2>1
<1>4. SubSeq(s, 1, n) \in Seq(S)
  BY <1>1, <1>3, SeqDef
<1>5. Len(SubSeq(s, 1, n)) = n
  BY <1>1, <1>2, <1>4, LenProperties
<1> QED BY <1>2, <1>4, <1>5

LEMMA CorpusSteps == ASSUME CorpusIInv, [CorpusNext]_corpusVars PROVE CorpusIInv'
<1>0. MintFits /\ SearchFits
  BY DEF CorpusIInv
<1>1. PICK pc, edges, drawn :
         mint = [pc |-> pc, edges |-> edges, drawn |-> drawn] /\ MintValid(pc, edges, drawn)
  BY <1>0 DEF MintFits
<1>2. PICK s, next : colored = [colors |-> s, next |-> next] /\ SearchValid(mint.pc, mint.edges, s, next)
  BY <1>0 DEF SearchFits
<1>3. /\ mint.pc = pc /\ mint.edges = edges /\ mint.drawn = drawn
      /\ colored.colors = s /\ colored.next = next
      /\ s \in Seq(0..(Colors - 1)) /\ next \in 0..Colors /\ Len(s) <= GraphNodes /\ drawn \in 0..MaxDraws
      /\ Len(s) \in Nat /\ next \in Nat /\ GraphNodes \in Nat \ {0} /\ Colors \in Nat \ {0} /\ MaxDraws \in Nat
  BY <1>1, <1>2, CorpusFacts DEF SearchValid, MintValid
<1>4. ASSUME DrawGraph PROVE CorpusIInv'
  <2>1. PICK e \in SUBSET NodePairs : mint' = [mint EXCEPT !.pc = "search", !.edges = e, !.drawn = @ + 1]
    BY <1>4 DEF DrawGraph
  <2>2. PICK pc2, n, was : pc2 = "search" /\ n = drawn + 1 /\ was = [pc |-> pc, edges |-> edges, drawn |-> drawn]
    OBVIOUS
  <2>3. drawn < MaxDraws /\ colored' = [colors |-> <<>>, next |-> 0]
    BY <1>3, <1>4 DEF DrawGraph, EmptySearch
  <2>4. mint' = [was EXCEPT !.pc = "search", !.edges = e, !.drawn = @ + 1]
    BY <1>1, <2>1, <2>2
  <2>5. mint' = [pc |-> pc2, edges |-> e, drawn |-> n] /\ n \in 0..MaxDraws
    <3>1. was.drawn = drawn /\ n \in 0..MaxDraws
      BY <1>3, <2>2, <2>3
    <3>2. mint' = [pc |-> "search", edges |-> e, drawn |-> drawn + 1]
      BY <2>2, <2>4
    <3> QED BY <2>2, <3>1, <3>2
  <2>6. MintValid(pc2, e, n)
    BY <2>2, <2>5 DEF MintValid
  <2>7. MintFits'
    BY <2>5, <2>6, MintKept
  <2>8. mint'.pc = pc2 /\ mint'.edges = e
    BY <2>5
  <2>9. SearchValid(mint'.pc, mint'.edges, <<>>, 0)
    BY <2>8, EmptyIsValid
  <2>10. SearchFits'
    BY <2>3, <2>9, SearchKept
  <2> QED BY <2>7, <2>10 DEF CorpusIInv
<1>5. ASSUME DrawsExhausted PROVE CorpusIInv'
  <2>1. PICK pc2, e : pc2 = "coloring" /\ e = {}
    OBVIOUS
  <2>2. mint' = [pc |-> pc2, edges |-> e, drawn |-> drawn] /\ colored' = colored
    BY <1>1, <1>5, <2>1 DEF DrawsExhausted
  <2>3. ProperColorings(e) # {}
    <3>1. [v \in 0..(GraphNodes - 1) |-> 0] \in ProperColorings(e)
      BY <1>3, <2>1 DEF ProperColorings
    <3> QED BY <3>1
  <2>4. MintFits'
    <3>1. MintValid(pc2, e, drawn)
      BY <1>3, <2>1, <2>3 DEF MintValid
    <3> QED BY <2>2, <3>1, MintKept
  <2>5. SearchFits'
    <3>1. mint'.pc # "search"
      BY <2>1, <2>2
    <3> QED BY <1>2, <1>3, <2>2, <3>1, SearchKept DEF SearchValid
  <2> QED BY <2>4, <2>5 DEF CorpusIInv
<1>6. ASSUME DrawSquare PROVE CorpusIInv'
  <2>1. PICK rp \in Perms, cp \in Perms, sp \in Perms, clues \in SUBSET Cells \ {{}} :
               mint' = [mint EXCEPT !.pc = "latin", !.edges =
                          [grid |-> full_latin_square(rp, cp, sp), clues |-> clues]]
    BY <1>6 DEF DrawSquare
  <2>2. PICK pc2, e : pc2 = "latin" /\ e = [grid |-> full_latin_square(rp, cp, sp), clues |-> clues]
    OBVIOUS
  <2>3. mint' = [pc |-> pc2, edges |-> e, drawn |-> drawn] /\ colored' = colored
    BY <1>1, <1>6, <2>1, <2>2 DEF DrawSquare
  <2>4. MintFits'
    <3>1. MintValid(pc2, e, drawn)
      BY <1>3, <2>2 DEF MintValid
    <3> QED BY <2>3, <3>1, MintKept
  <2>5. SearchFits'
    <3>1. mint'.pc # "search"
      BY <2>2, <2>3
    <3> QED BY <1>2, <1>3, <2>3, <3>1, SearchKept DEF SearchValid
  <2> QED BY <2>4, <2>5 DEF CorpusIInv
<1>7. ASSUME NEW source, generate_real_instance(source) PROVE CorpusIInv'
  <2>0. UNCHANGED colored /\ (\/ \E f : mint' = [mint EXCEPT !.pc = "file", !.edges = f]
                              \/ mint' = [mint EXCEPT !.pc = "draw"])
    BY <1>7 DEF generate_real_instance
  <2>1. ASSUME NEW pc2, NEW e, pc2 = "file" \/ pc2 = "draw",
               mint' = [pc |-> pc2, edges |-> e, drawn |-> drawn]
        PROVE  CorpusIInv'
    <3>1. MintValid(pc2, e, drawn)
      BY <1>3, <2>1 DEF MintValid
    <3>2. MintFits'
      BY <2>1, <3>1, MintKept
    <3>3. mint'.pc # "search" /\ colored' = colored
      BY <2>0, <2>1
    <3>4. SearchFits'
      BY <1>2, <1>3, <3>3, SearchKept DEF SearchValid
    <3> QED BY <3>2, <3>4 DEF CorpusIInv
  <2>2. ASSUME NEW f, mint' = [mint EXCEPT !.pc = "file", !.edges = f] PROVE CorpusIInv'
    <3>1. PICK to : to = "file"
      OBVIOUS
    <3>2. mint' = [pc |-> to, edges |-> f, drawn |-> drawn]
      BY <1>1, <2>2, <3>1
    <3> QED BY <2>1, <3>1, <3>2
  <2>3. ASSUME mint' = [mint EXCEPT !.pc = "draw"] PROVE CorpusIInv'
    <3>1. PICK to : to = "draw"
      OBVIOUS
    <3>2. mint' = [pc |-> to, edges |-> edges, drawn |-> drawn]
      BY <1>1, <2>3, <3>1
    <3> QED BY <2>1, <3>1, <3>2
  <2> QED BY <2>0, <2>2, <2>3
<1>8. ASSUME find_coloring PROVE CorpusIInv'
  <2>0. /\ pc = "search" /\ edges \in SUBSET NodePairs /\ Extends(edges, s)
        /\ \A k \in 1..Len(s) : s[k] \in 0..(Colors - 1)
    BY <1>1, <1>2, <1>3, <1>8, ElementOfSeq DEF find_coloring, MintValid, SearchValid
  <2>1. CASE Len(s) = GraphNodes /\ mint' = [mint EXCEPT !.pc = "coloring"] /\ UNCHANGED colored
    <3>1. PICK pc2 : pc2 = "coloring"
      OBVIOUS
    <3>2. mint' = [pc |-> pc2, edges |-> edges, drawn |-> drawn] /\ colored' = colored
      BY <1>1, <2>1, <3>1
    <3>3. ProperColorings(edges) # {}
      <4>1. PICK col : col = [v \in 0..(GraphNodes - 1) |-> s[v + 1]]
        OBVIOUS
      <4>2. col \in [0..(GraphNodes - 1) -> 0..(Colors - 1)]
        <5>1. ASSUME NEW v \in 0..(GraphNodes - 1) PROVE s[v + 1] \in 0..(Colors - 1)
          <6>1. v + 1 \in 1..Len(s)
            BY <1>3, <2>1
          <6> QED BY <2>0, <6>1
        <5> QED BY <4>1, <5>1
      <4>3. ASSUME NEW e \in edges PROVE col[e[1]] # col[e[2]]
        <5>1. e[1] \in 0..(GraphNodes - 1) /\ e[2] \in 0..(GraphNodes - 1) /\ e[2] < Len(s)
          BY <1>3, <2>0, <2>1 DEF NodePairs
        <5>2. s[e[1] + 1] # s[e[2] + 1]
          BY <2>0, <5>1 DEF Extends
        <5> QED BY <4>1, <5>1, <5>2
      <4>4. col \in ProperColorings(edges)
        BY <4>2, <4>3 DEF ProperColorings
      <4> QED BY <4>4
    <3>4. MintFits'
      <4>1. MintValid(pc2, edges, drawn)
        BY <1>3, <2>0, <3>1, <3>3 DEF MintValid
      <4> QED BY <3>2, <4>1, MintKept
    <3>5. SearchFits'
      <4>1. mint'.pc # "search"
        BY <3>1, <3>2
      <4> QED BY <1>2, <1>3, <3>2, <4>1, SearchKept DEF SearchValid
    <3> QED BY <3>4, <3>5 DEF CorpusIInv
  <2>2. CASE /\ Len(s) # GraphNodes /\ next < Colors /\ clashes(Len(s), next)
             /\ colored' = [colored EXCEPT !.next = @ + 1] /\ UNCHANGED mint
    <3>1. PICK n : n = next + 1
      OBVIOUS
    <3>2. colored' = [colors |-> s, next |-> n] /\ n \in 0..Colors
      BY <1>2, <1>3, <2>2, <3>1
    <3>3. MintFits'
      BY <1>0, <2>2 DEF MintFits
    <3>4. SearchFits'
      BY <1>2, <1>3, <2>2, <3>2, SearchKept DEF SearchValid
    <3> QED BY <3>3, <3>4 DEF CorpusIInv
  <2>3. CASE /\ Len(s) # GraphNodes /\ next < Colors /\ ~clashes(Len(s), next)
             /\ colored' = [colors |-> Append(s, next), next |-> 0] /\ UNCHANGED mint
    <3>1. PICK t : t = Append(s, next)
      OBVIOUS
    <3>2. /\ t \in Seq(0..(Colors - 1)) /\ Len(t) = Len(s) + 1 /\ t[Len(s) + 1] = next
          /\ \A k \in 1..Len(s) : t[k] = s[k]
      <4>1. next \in 0..(Colors - 1)
        BY <1>3, <2>3
      <4> QED BY <1>3, <3>1, <4>1, AppendProperties
    <3>3. Extends(edges, t)
      <4>1. ASSUME NEW e \in edges, e[2] < Len(t) PROVE t[e[1] + 1] # t[e[2] + 1]
        <5>1. /\ e[1] \in Nat /\ e[2] \in Nat /\ e[1] < e[2] /\ e = <<e[1], e[2]>>
          BY <1>3, <2>0 DEF NodePairs
        <5>2. CASE e[2] < Len(s)
          <6>1. s[e[1] + 1] # s[e[2] + 1]
            BY <2>0, <5>2 DEF Extends
          <6>2. e[1] + 1 \in 1..Len(s) /\ e[2] + 1 \in 1..Len(s)
            <7>1. PICK k, a, b : k = Len(s) /\ a = e[1] /\ b = e[2]
              OBVIOUS
            <7>2. k \in Nat /\ a \in Nat /\ b \in Nat /\ a < b /\ b < k
              BY <1>3, <5>1, <5>2, <7>1
            <7>3. a + 1 \in 1..k /\ b + 1 \in 1..k
              BY <7>2
            <7> QED BY <7>1, <7>3
          <6> QED BY <3>2, <6>1, <6>2
        <5>3. CASE e[2] = Len(s)
          <6>0. <<e[1], Len(s)>> \in edges
            BY <5>1, <5>3
          <6>1. e[1] \in 0..(Len(s) - 1) /\ <<e[1], Len(s)>> \in edges /\ e[1] + 1 \in 1..Len(s)
            BY <1>3, <5>1, <5>3, <6>0, SMTT(30)
          <6>2. s[e[1] + 1] # next
            BY <1>3, <2>3, <6>1 DEF clashes
          <6> QED BY <3>2, <5>3, <6>1, <6>2
        <5> QED BY <1>3, <3>2, <4>1, <5>1, <5>2, <5>3
      <4> QED BY <4>1 DEF Extends
    <3>4. MintFits'
      BY <1>0, <2>3 DEF MintFits
    <3>5. Len(t) <= GraphNodes
      BY <1>2, <1>3, <2>3, <3>2
    <3>6. colored' = [colors |-> t, next |-> 0] /\ 0 \in 0..Colors /\ mint'.edges = edges
      BY <1>3, <2>3, <3>1
    <3>7. SearchFits'
      <4>1. SearchValid(mint'.pc, mint'.edges, t, 0)
        BY <3>2, <3>3, <3>5, <3>6 DEF SearchValid
      <4> QED BY <3>6, <4>1, SearchKept
    <3> QED BY <3>4, <3>7 DEF CorpusIInv
  <2>4. CASE /\ Len(s) > 0 /\ colored' = [colors |-> SubSeq(s, 1, Len(s) - 1), next |-> s[Len(s)] + 1]
             /\ UNCHANGED mint
    <3>1. PICK t, n : t = SubSeq(s, 1, Len(s) - 1) /\ n = s[Len(s)] + 1
      OBVIOUS
    <3>2. /\ t \in Seq(0..(Colors - 1)) /\ Len(t) = Len(s) - 1 /\ \A k \in 1..(Len(s) - 1) : t[k] = s[k]
      <4>1. PICK last : last = Len(s) - 1 /\ last \in 0..Len(s)
        BY <1>3, <2>4
      <4>2. /\ t \in Seq(0..(Colors - 1)) /\ Len(t) = last /\ \A k \in 1..last : t[k] = s[k]
        <5>1. t = SubSeq(s, 1, last)
          BY <3>1, <4>1
        <5>2. s \in Seq(0..(Colors - 1)) /\ last \in 0..Len(s)
          BY <1>3, <4>1
        <5>3. /\ SubSeq(s, 1, last) \in Seq(0..(Colors - 1)) /\ Len(SubSeq(s, 1, last)) = last
              /\ \A k \in 1..last : SubSeq(s, 1, last)[k] = s[k]
          BY <5>2, Prefix
        <5> QED BY <5>1, <5>3
      <4> QED BY <4>1, <4>2
    <3>3. n \in 0..Colors
      <4>1. Len(s) \in 1..Len(s)
        BY <1>3, <2>4
      <4>2. s[Len(s)] \in 0..(Colors - 1)
        BY <2>0, <4>1
      <4> QED BY <1>3, <3>1, <4>2
    <3>4. Extends(edges, t)
      <4>1. ASSUME NEW e \in edges, e[2] < Len(t) PROVE t[e[1] + 1] # t[e[2] + 1]
        <5>1. e[1] \in Nat /\ e[2] \in Nat /\ e[1] < e[2]
          BY <1>3, <2>0 DEF NodePairs
        <5>2. /\ e[2] < Len(s) /\ e[1] + 1 \in 1..(Len(s) - 1) /\ e[2] + 1 \in 1..(Len(s) - 1)
          <6>1. PICK m, k, a, b : m = Len(t) /\ k = Len(s) /\ a = e[1] /\ b = e[2]
            OBVIOUS
          <6>2. m = k - 1 /\ k \in Nat /\ a \in Nat /\ b \in Nat /\ a < b /\ b < m
            BY <1>3, <3>2, <4>1, <5>1, <6>1
          <6>3. b < k /\ a + 1 \in 1..(k - 1) /\ b + 1 \in 1..(k - 1)
            BY <6>2
          <6> QED BY <6>1, <6>3
        <5>3. s[e[1] + 1] # s[e[2] + 1]
          BY <2>0, <5>2 DEF Extends
        <5> QED BY <3>2, <5>2, <5>3
      <4> QED BY <4>1 DEF Extends
    <3>5. MintFits'
      BY <1>0, <2>4 DEF MintFits
    <3>6. colored' = [colors |-> t, next |-> n] /\ Len(t) <= GraphNodes /\ mint'.edges = edges
      BY <1>2, <1>3, <2>4, <3>1, <3>2
    <3>7. SearchFits'
      <4>1. SearchValid(mint'.pc, mint'.edges, t, n)
        BY <3>2, <3>3, <3>4, <3>6 DEF SearchValid
      <4> QED BY <3>6, <4>1, SearchKept
    <3> QED BY <3>5, <3>7 DEF CorpusIInv
  <2>5. CASE mint' = [mint EXCEPT !.pc = "draw"] /\ UNCHANGED colored
    <3>1. PICK pc2 : pc2 = "draw"
      OBVIOUS
    <3>2. mint' = [pc |-> pc2, edges |-> edges, drawn |-> drawn] /\ colored' = colored
      BY <1>1, <2>5, <3>1
    <3>3. MintFits'
      <4>1. MintValid(pc2, edges, drawn)
        BY <1>3, <3>1 DEF MintValid
      <4> QED BY <3>2, <4>1, MintKept
    <3>4. SearchFits'
      <4>1. mint'.pc # "search"
        BY <3>1, <3>2
      <4> QED BY <1>2, <1>3, <3>2, <4>1, SearchKept DEF SearchValid
    <3> QED BY <3>3, <3>4 DEF CorpusIInv
  <2> QED BY <1>3, <1>8, <2>1, <2>2, <2>3, <2>4, <2>5 DEF find_coloring
<1>9. ASSUME UNCHANGED corpusVars PROVE CorpusIInv'
  BY <1>0, <1>9 DEF CorpusIInv, MintFits, SearchFits, corpusVars
<1> QED BY <1>4, <1>5, <1>6, <1>7, <1>8, <1>9 DEF CorpusNext

(* No witness of an unplanted challenge is an answer to nothing: the       *)
(* models of an emitted encoding are the solutions of its puzzle.          *)
THEOREM CorpusSolves == CorpusInit /\ [][CorpusNext]_corpusVars => []CorpusInv
<1>1. CorpusInit => CorpusIInv
  BY CorpusStarts
<1>2. CorpusIInv /\ [CorpusNext]_corpusVars => CorpusIInv'
  BY CorpusSteps
<1>3. CorpusIInv => CorpusInv
  BY CorpusHolds
<1> QED BY <1>1, <1>2, <1>3, PTL

----------------------------------------------------------------------------
(* The miner of the thin subnet                                             *)

\* The attempts and the grants of a caller whose window is open at a time.
Open(q, now) == {i \in 1..Len(q) : q[i] + RateWindow > now}
GrantedIn(g, c, now) == {i \in 1..Len(g) : g[i].caller = c /\ g[i].at + RateWindow > now}

\* Every grant that still counts is among the attempts the miner remembers.
RateBook ==
    /\ \A i \in 1..Len(granted) : granted[i].at <= minerClock
    /\ \A c \in Callers \ dropped : \A now \in Nat : now >= minerClock =>
          Cardinality(GrantedIn(granted, c, now)) <= Cardinality(Open(requests[c], now))

MinerShapes ==
    /\ permitted \subseteq Callers /\ allowedCallers \subseteq Callers
    /\ dropped \subseteq Callers
    /\ requests \in [Callers -> Seq(0..MaxMinerTime)]
    /\ minerClock \in 0..MaxMinerTime
    /\ tasks \in [MinerTasks -> Serving \cup {IdleTask}]
    /\ granted \in Seq([caller : Callers, at : 0..MaxMinerTime])
    /\ answered \subseteq [caller : Callers, round : MinerRounds, cnf : Formulas, witness : Formulas]
    /\ permitMoves \in 0..MaxPermitMoves /\ cancels \in 0..MaxCancels

RoundShapes ==
    /\ rounds \in Seq(Entry) /\ Len(rounds) <= ResponseCache
    /\ \A i, j \in 1..Len(rounds) : rounds[i].key = rounds[j].key => i = j
    /\ evicted \subseteq Keys

\* A witness is for the formula it is kept, held or given away with.
Solves(witness, cnf) == witness \in {NONE, cnf}
WitnessesFit ==
    /\ \A i \in 1..Len(rounds) : rounds[i].response # NONE =>
          Solves(rounds[i].response.witness, rounds[i].response.cnf)
    /\ \A t \in MinerTasks : tasks[t] # IdleTask => Solves(tasks[t].witness, tasks[t].challenge.cnf)
    /\ WitnessIsAsked

\* While the LRU keeps a key, its task finds its reservation there, and what was
\* answered for it is what it keeps.
Working(t) == tasks[t].at \in {"waiting", "solving", "solved"}
TaskKey(t) == KeyOf(tasks[t].challenge)
Reserved(k) == \E i \in 1..Len(rounds) : rounds[i].key = k /\ rounds[i].response = NONE
Kept(k, cnf) ==
    \E i \in 1..Len(rounds) :
        rounds[i].key = k /\ rounds[i].response # NONE /\ rounds[i].response.cnf = cnf
KeysFit ==
    /\ \A t \in MinerTasks : Working(t) /\ TaskKey(t) \notin evicted => Reserved(TaskKey(t))
    /\ \A a \in answered : KeyOf(a) \notin evicted => Kept(KeyOf(a), a.cnf)
    /\ \A s, t \in MinerTasks :
          Working(s) /\ Working(t) /\ TaskKey(s) = TaskKey(t) /\ TaskKey(t) \notin evicted => s = t

MinerIInv ==
    MinerShapes /\ RoundShapes /\ WitnessesFit /\ KeysFit /\ RateBook /\ RateHolds

----------------------------------------------------------------------------
LEMMA Popped ==
    ASSUME NEW c, requests[c] \in Seq(Nat), minerClock \in Nat
    PROVE  /\ Expired(c) \in 0..Len(requests[c])
           /\ \A i \in 1..Expired(c) : requests[c][i] + RateWindow <= minerClock
<1> USE MinerConstants
<1> DEFINE q == requests[c]
           T == {n \in 0..Len(q) : n < Len(q) => q[n + 1] + RateWindow > minerClock}
           P(n) == /\ \A i \in 1..n : q[i] + RateWindow <= minerClock
                   /\ n < Len(q) => q[n + 1] + RateWindow > minerClock
<1>1. q \in Seq(Nat) /\ Len(q) \in Nat /\ \A i \in 1..Len(q) : q[i] \in Nat
  BY LenProperties
<1>2. Expired(c) = CHOOSE n \in 0..Len(q) : P(n)
  BY DEF Expired
<1> HIDE DEF q
<1>3. T \in SUBSET Nat /\ Len(q) \in T
  BY <1>1
<1>4. PICK m \in T : \A y \in T : m <= y
  <2> HIDE DEF T
  <2> QED BY <1>3, LeastNatural
<1>5. P(m)
  <2>1. ASSUME NEW i \in 1..m PROVE q[i] + RateWindow <= minerClock
    <3>1. i - 1 \in 0..Len(q) /\ i - 1 < Len(q) /\ (i - 1) + 1 = i
      BY <1>1, <1>4
    <3>2. i - 1 \notin T
      <4>1. m \in Nat /\ i \in Nat /\ ~(m <= i - 1)
        BY <1>4
      <4> HIDE DEF T
      <4> QED BY <1>4, <4>1
    <3>3. ~(q[(i - 1) + 1] + RateWindow > minerClock)
      BY <3>1, <3>2
    <3>4. q[i] \in Nat
      BY <1>1, <1>4
    <3> QED BY <3>1, <3>3, <3>4, SMTT(30)
  <2> QED BY <1>4, <2>1
<1>6. m \in 0..Len(q)
  BY <1>4
<1> HIDE DEF P, T
<1>7. P(Expired(c)) /\ Expired(c) \in 0..Len(q)
  BY <1>2, <1>5, <1>6
<1> QED BY <1>7 DEF P, q

LEMMA RecentFacts ==
    ASSUME NEW c, requests[c] \in Seq(0..MaxMinerTime), minerClock \in Nat
    PROVE  /\ Recent(c) \in Seq(0..MaxMinerTime)
           /\ Expired(c) \in 0..Len(requests[c])
           /\ Len(Recent(c)) = Len(requests[c]) - Expired(c)
           /\ \A i \in 1..Len(Recent(c)) : Recent(c)[i] = requests[c][i + Expired(c)]
           /\ \A i \in 1..Expired(c) : requests[c][i] + RateWindow <= minerClock
<1> DEFINE q == requests[c]
           n == Expired(c)
           S == 0..MaxMinerTime
<1>0. S \subseteq Nat
  BY MinerConstants
<1>1. q \in Seq(S) /\ q \in Seq(Nat) /\ Len(q) \in Nat /\ \A i \in 1..Len(q) : q[i] \in S
  <2>1. q \in Seq(S)
    OBVIOUS
  <2> HIDE DEF q, S
  <2> QED BY <1>0, <2>1, LenProperties, SeqMonotonic
<1>2. n \in 0..Len(q) /\ \A i \in 1..n : q[i] + RateWindow <= minerClock
  BY <1>1, Popped
<1>3. Recent(c) = SubSeq(q, n + 1, Len(q))
  BY DEF Recent
<1> HIDE DEF q, n, S
<1>4. \A i \in (n + 1)..Len(q) : q[i] \in S
  BY <1>1, <1>2
<1>5. n + 1 \in Int /\ Len(q) \in Int
  BY <1>1, <1>2
<1>6. SubSeq(q, n + 1, Len(q)) \in Seq(S) /\ Len(SubSeq(q, n + 1, Len(q))) = (IF n + 1 <= Len(q) THEN Len(q) - (n + 1) + 1 ELSE 0)
      /\ \A i \in 1..(Len(q) - (n + 1) + 1) : SubSeq(q, n + 1, Len(q))[i] = q[(n + 1) + i - 1]
  BY <1>4, <1>5, SubSeqProperties
<1>7. Len(Recent(c)) = Len(q) - n
  BY <1>1, <1>2, <1>3, <1>6
<1>8. \A i \in 1..Len(Recent(c)) : Recent(c)[i] = q[i + n]
  <2> TAKE i \in 1..Len(Recent(c))
  <2>1. i \in 1..(Len(q) - (n + 1) + 1) /\ (n + 1) + i - 1 = i + n
    BY <1>1, <1>2, <1>7
  <2> QED BY <1>3, <1>6, <2>1
<1> QED BY <1>2, <1>3, <1>6, <1>7, <1>8 DEF q, n, S


LEMMA OpenCount ==
    ASSUME NEW q, Len(q) \in Nat, NEW now
    PROVE  /\ IsFiniteSet(Open(q, now)) /\ Cardinality(Open(q, now)) \in Nat
           /\ Cardinality(Open(q, now)) <= Len(q)
<1>1. IsFiniteSet(1..Len(q)) /\ Cardinality(1..Len(q)) = Len(q)
  BY UpTo
<1>2. Open(q, now) \in SUBSET (1..Len(q))
  BY DEF Open
<1> QED BY <1>1, <1>2, FS_Subset, FS_CardinalityType

LEMMA OpenRecent ==
    ASSUME NEW c, requests[c] \in Seq(0..MaxMinerTime), minerClock \in Nat,
           NEW now \in Nat, now >= minerClock
    PROVE  Cardinality(Open(requests[c], now)) <= Cardinality(Open(Recent(c), now))
<1> DEFINE q == requests[c]
           r == Recent(c)
           n == Expired(c)
           f == [i \in Open(q, now) |-> i - n]
<1>1. /\ r \in Seq(0..MaxMinerTime) /\ n \in 0..Len(q) /\ Len(r) = Len(q) - n
      /\ \A i \in 1..Len(r) : r[i] = q[i + n]
      /\ \A i \in 1..n : q[i] + RateWindow <= minerClock
  BY RecentFacts
<1>2. Len(q) \in Nat /\ \A i \in 1..Len(q) : q[i] \in Nat
  <2>1. q \in Seq(0..MaxMinerTime)
    OBVIOUS
  <2>2. Len(q) \in Nat
    BY <2>1, LenProperties
  <2>3. \A i \in 1..Len(q) : q[i] \in 0..MaxMinerTime
    BY <2>1, ElementOfSeq
  <2>4. MaxMinerTime \in Nat
    BY MinerConstants
  <2> QED BY <2>2, <2>3, <2>4
<1> HIDE DEF q, r, n
<1>3. ASSUME NEW i \in Open(q, now) PROVE i \in Nat /\ i - n \in Open(r, now)
  <2>1. i \in 1..Len(q) /\ q[i] + RateWindow > now /\ q[i] \in Nat /\ RateWindow \in Nat
    BY <1>2, MinerConstants DEF Open
  <2>2. i \notin 1..n
    BY <1>1, <2>1
  <2>3. i - n \in 1..Len(r) /\ (i - n) + n = i
    BY <1>1, <1>2, <2>1, <2>2
  <2>4. r[i - n] = q[i]
    BY <1>1, <2>3
  <2> QED BY <2>1, <2>3, <2>4 DEF Open
<1>4. f \in Injection(Open(q, now), Open(r, now))
  <2>1. f \in [Open(q, now) -> Open(r, now)]
    BY <1>3
  <2>2. \A i, j \in Open(q, now) : f[i] = f[j] => i = j
    BY <1>1, <1>2, <1>3
  <2> HIDE DEF f
  <2> QED BY <2>1, <2>2 DEF Injection, IsInjective
<1>5. IsFiniteSet(Open(r, now))
  BY <1>1, <1>2, OpenCount
<1> HIDE DEF f
<1>6. Cardinality(Open(q, now)) <= Cardinality(Open(r, now))
  BY <1>4, <1>5, FS_Injection
<1> QED BY <1>6 DEF q, r

LEMMA OpenAppend ==
    ASSUME NEW q \in Seq(Nat), NEW x \in Nat, NEW now \in Nat
    PROVE  Cardinality(Open(Append(q, x), now))
             = Cardinality(Open(q, now)) + (IF x + RateWindow > now THEN 1 ELSE 0)
<1>1. /\ Len(q) \in Nat /\ Len(Append(q, x)) = Len(q) + 1
      /\ \A i \in 1..Len(q) : Append(q, x)[i] = q[i]
      /\ Append(q, x)[Len(q) + 1] = x
  BY LenProperties, AppendProperties
<1>0. IsFiniteSet(Open(q, now)) /\ Cardinality(Open(q, now)) \in Nat
  BY <1>1, OpenCount
<1>2. IsFiniteSet(Open(q, now)) /\ Cardinality(Open(q, now)) \in Nat /\ Len(q) + 1 \notin Open(q, now)
  BY <1>0, <1>1 DEF Open
<1>3. CASE x + RateWindow > now
  <2>1. Open(Append(q, x), now) = Open(q, now) \cup {Len(q) + 1}
    BY <1>1, <1>3 DEF Open
  <2> QED BY <1>2, <1>3, <2>1, FS_AddElement
<1>4. CASE ~(x + RateWindow > now)
  <2>1. Open(Append(q, x), now) = Open(q, now)
    BY <1>1, <1>4 DEF Open
  <2> QED BY <1>2, <1>4, <2>1
<1> QED BY <1>3, <1>4

LEMMA GrantedCount ==
    ASSUME NEW g, Len(g) \in Nat, NEW c, NEW now
    PROVE  IsFiniteSet(GrantedIn(g, c, now)) /\ Cardinality(GrantedIn(g, c, now)) \in Nat
<1>1. IsFiniteSet(1..Len(g))
  BY FS_Interval
<1>2. GrantedIn(g, c, now) \in SUBSET (1..Len(g))
  BY DEF GrantedIn
<1> QED BY <1>1, <1>2, FS_Subset, FS_CardinalityType

LEMMA GrantedAppend ==
    ASSUME NEW S, NEW g \in Seq(S), NEW e \in S, NEW c, NEW now
    PROVE  Cardinality(GrantedIn(Append(g, e), c, now))
             = Cardinality(GrantedIn(g, c, now))
                 + (IF e.caller = c /\ e.at + RateWindow > now THEN 1 ELSE 0)
<1>1. /\ Len(g) \in Nat /\ Len(Append(g, e)) = Len(g) + 1
      /\ \A i \in 1..Len(g) : Append(g, e)[i] = g[i]
      /\ Append(g, e)[Len(g) + 1] = e
  BY LenProperties, AppendProperties
<1>0. IsFiniteSet(GrantedIn(g, c, now)) /\ Cardinality(GrantedIn(g, c, now)) \in Nat
  BY <1>1, GrantedCount
<1>2. /\ IsFiniteSet(GrantedIn(g, c, now)) /\ Cardinality(GrantedIn(g, c, now)) \in Nat
      /\ Len(g) + 1 \notin GrantedIn(g, c, now)
  BY <1>0, <1>1 DEF GrantedIn
<1>3. CASE e.caller = c /\ e.at + RateWindow > now
  <2>1. GrantedIn(Append(g, e), c, now) = GrantedIn(g, c, now) \cup {Len(g) + 1}
    BY <1>1, <1>3 DEF GrantedIn
  <2> QED BY <1>2, <1>3, <2>1, FS_AddElement, ZenonT(30)
<1>4. CASE ~(e.caller = c /\ e.at + RateWindow > now)
  <2>1. GrantedIn(Append(g, e), c, now) = GrantedIn(g, c, now)
    BY <1>1, <1>4 DEF GrantedIn
  <2> QED BY <1>2, <1>4, <2>1
<1> QED BY <1>3, <1>4

----------------------------------------------------------------------------
LEMMA OthersFacts ==
    ASSUME RoundShapes, NEW c
    PROVE  /\ Others(c) \in Seq(Entry)
           /\ Len(Others(c)) <= Len(rounds)
           /\ \A i \in 1..Len(Others(c)) : Others(c)[i].key # KeyOf(c)
                 /\ \E j \in 1..Len(rounds) : Others(c)[i] = rounds[j]
           /\ \A i, j \in 1..Len(Others(c)) : Others(c)[i].key = Others(c)[j].key => i = j
<1>0. rounds \in Seq(Entry) /\ Len(rounds) \in Nat /\ \A i \in 1..Len(rounds) : rounds[i] \in Entry
  BY LenProperties DEF RoundShapes
<1>1. CASE Cached(c) = {}
  <2>1. Others(c) = rounds
    BY <1>1 DEF Others
  <2>2. \A i \in 1..Len(rounds) : rounds[i].key # KeyOf(c)
    BY <1>1 DEF Cached
  <2> QED BY <1>0, <2>1, <2>2 DEF RoundShapes
<1>2. CASE Cached(c) # {}
  <2> DEFINE h == CHOOSE i \in Cached(c) : TRUE
             front == SubSeq(rounds, 1, h - 1)
             back == SubSeq(rounds, h + 1, Len(rounds))
  <2>1. h \in Cached(c)
    BY <1>2
  <2>2. h \in 1..Len(rounds) /\ rounds[h].key = KeyOf(c)
    BY <2>1 DEF Cached
  <2>3. Others(c) = front \o back
    BY <1>2 DEF Others, RemoveAt
  <2> HIDE DEF h
  <2>4. front \in Seq(Entry) /\ Len(front) = h - 1 /\ \A i \in 1..(h - 1) : front[i] = rounds[i]
    <3>1. \A i \in 1..(h - 1) : rounds[i] \in Entry
      BY <1>0, <2>2
    <3>2. h - 1 \in Int /\ 1 \in Int
      BY <2>2
    <3>3. /\ front \in Seq(Entry)
          /\ Len(front) = (IF 1 <= h - 1 THEN (h - 1) - 1 + 1 ELSE 0)
          /\ \A i \in 1..((h - 1) - 1 + 1) : front[i] = rounds[1 + i - 1]
      BY <3>1, <3>2, SubSeqProperties
    <3> HIDE DEF front
    <3> QED BY <1>0, <2>2, <3>3
  <2>5. back \in Seq(Entry) /\ Len(back) = Len(rounds) - h
        /\ \A i \in 1..(Len(rounds) - h) : back[i] = rounds[h + i]
    <3>1. \A i \in (h + 1)..Len(rounds) : rounds[i] \in Entry
      BY <1>0, <2>2
    <3>2. h + 1 \in Int /\ Len(rounds) \in Int
      BY <1>0, <2>2
    <3>3. /\ back \in Seq(Entry)
          /\ Len(back) = (IF h + 1 <= Len(rounds) THEN Len(rounds) - (h + 1) + 1 ELSE 0)
          /\ \A i \in 1..(Len(rounds) - (h + 1) + 1) : back[i] = rounds[(h + 1) + i - 1]
      BY <3>1, <3>2, SubSeqProperties
    <3> HIDE DEF back
    <3>4. Len(rounds) - (h + 1) + 1 = Len(rounds) - h
      BY <1>0, <2>2
    <3>5. \A i \in 1..(Len(rounds) - h) : back[i] = rounds[h + i]
      <4> TAKE i \in 1..(Len(rounds) - h)
      <4>1. back[i] = rounds[(h + 1) + i - 1]
        BY <3>3, <3>4
      <4>2. (h + 1) + i - 1 = h + i
        BY <1>0, <2>2
      <4> QED BY <4>1, <4>2
    <3>6. Len(back) = Len(rounds) - h
      <4> DEFINE n == Len(rounds) - h
      <4>1. n \in Nat /\ (h + 1 <= Len(rounds) <=> n >= 1)
        BY <1>0, <2>2
      <4>2. Len(back) = IF h + 1 <= Len(rounds) THEN n ELSE 0
        BY <3>3, <3>4
      <4> HIDE DEF n
      <4>3. Len(back) = n
        BY <4>1, <4>2
      <4> QED BY <4>3 DEF n
    <3> QED BY <3>3, <3>5, <3>6
  <2> HIDE DEF front, back
  <2>6. /\ Others(c) \in Seq(Entry) /\ Len(Others(c)) = Len(front) + Len(back)
        /\ \A i \in 1..(Len(front) + Len(back)) :
              Others(c)[i] = IF i <= Len(front) THEN front[i] ELSE back[i - Len(front)]
    BY <2>3, <2>4, <2>5, ConcatProperties
  <2>7. Len(Others(c)) = Len(rounds) - 1
    BY <1>0, <2>2, <2>4, <2>5, <2>6
  <2> DEFINE at(i) == IF i < h THEN i ELSE i + 1
  <2>8. ASSUME NEW i \in 1..Len(Others(c))
        PROVE  at(i) \in 1..Len(rounds) /\ at(i) # h /\ Others(c)[i] = rounds[at(i)]
    <3>1. i \in 1..(Len(front) + Len(back)) /\ i \in 1..(Len(rounds) - 1)
      BY <2>6, <2>7
    <3>2. CASE i < h
      BY <1>0, <2>2, <2>4, <2>6, <3>1, <3>2
    <3>3. CASE ~(i < h)
      <4>1. i - (h - 1) \in 1..(Len(rounds) - h) /\ h + (i - (h - 1)) = i + 1
        BY <1>0, <2>2, <3>1, <3>3
      <4>2. back[i - (h - 1)] = rounds[i + 1]
        BY <2>5, <4>1
      <4>3. Others(c)[i] = back[i - (h - 1)]
        BY <1>0, <2>2, <2>4, <2>6, <3>1, <3>3
      <4> QED BY <1>0, <2>2, <3>1, <3>3, <4>2, <4>3
    <3> QED BY <3>2, <3>3
  <2>9. \A i, j \in 1..Len(Others(c)) : at(i) = at(j) => i = j
    BY <1>0, <2>2, <2>7
  <2> HIDE DEF at
  <2>10. \A i, j \in 1..Len(rounds) : rounds[i].key = rounds[j].key => i = j
    BY DEF RoundShapes
  <2>11. \A i \in 1..Len(Others(c)) : Others(c)[i].key # KeyOf(c)
    BY <2>2, <2>8, <2>10
  <2>12. \A i, j \in 1..Len(Others(c)) : Others(c)[i].key = Others(c)[j].key => i = j
    BY <2>8, <2>9, <2>10
  <2>13. Len(Others(c)) <= Len(rounds)
    BY <1>0, <2>7
  <2> QED BY <2>6, <2>8, <2>11, <2>12, <2>13
<1> QED BY <1>1, <1>2

LEMMA PutFacts ==
    ASSUME RoundShapes, NEW c, NEW r, [key |-> KeyOf(c), response |-> r] \in Entry
    PROVE  /\ Put(c, r) \in Seq(Entry) /\ Len(Put(c, r)) <= ResponseCache
           /\ \A i, j \in 1..Len(Put(c, r)) : Put(c, r)[i].key = Put(c, r)[j].key => i = j
           /\ \E i \in 1..Len(Put(c, r)) : Put(c, r)[i] = [key |-> KeyOf(c), response |-> r]
           /\ \A i \in 1..Len(Put(c, r)) :
                 \/ Put(c, r)[i] = [key |-> KeyOf(c), response |-> r]
                 \/ /\ Put(c, r)[i].key # KeyOf(c)
                    /\ \E j \in 1..Len(rounds) : Put(c, r)[i] = rounds[j]
<1> DEFINE o == Others(c)
           e == [key |-> KeyOf(c), response |-> r]
           all == Append(o, e)
<1>1. /\ o \in Seq(Entry) /\ Len(o) <= Len(rounds)
      /\ \A i \in 1..Len(o) : o[i].key # KeyOf(c) /\ \E j \in 1..Len(rounds) : o[i] = rounds[j]
      /\ \A i, j \in 1..Len(o) : o[i].key = o[j].key => i = j
  BY OthersFacts
<1>2. Len(rounds) \in Nat /\ Len(rounds) <= ResponseCache /\ ResponseCache \in Nat \ {0}
  BY LenProperties, MinerConstants DEF RoundShapes
<1>3. Put(c, r) = IF Len(all) > ResponseCache THEN Tail(all) ELSE all
  BY DEF Put
<1>4. e.key = KeyOf(c) /\ e \in Entry
  OBVIOUS
<1> HIDE DEF o, e
<1>5. /\ all \in Seq(Entry) /\ Len(all) = Len(o) + 1 /\ Len(o) \in Nat /\ all # <<>>
      /\ \A i \in 1..Len(o) : all[i] = o[i]
      /\ all[Len(o) + 1] = e
  BY <1>1, <1>4, LenProperties, AppendProperties
<1> HIDE DEF all
<1>6. /\ \A i, j \in 1..Len(all) : all[i].key = all[j].key => i = j
      /\ \A i \in 1..Len(all) : all[i] = e
            \/ (all[i].key # KeyOf(c) /\ \E j \in 1..Len(rounds) : all[i] = rounds[j])
  <2>1. ASSUME NEW i \in 1..Len(all)
        PROVE  (i \in 1..Len(o) /\ all[i] = o[i]) \/ (i = Len(o) + 1 /\ all[i] = e)
    BY <1>5
  <2>2. \A i, j \in 1..Len(all) : all[i].key = all[j].key => i = j
    BY <1>1, <1>4, <2>1
  <2>3. \A i \in 1..Len(all) : all[i] = e
            \/ (all[i].key # KeyOf(c) /\ \E j \in 1..Len(rounds) : all[i] = rounds[j])
    BY <1>1, <2>1
  <2> QED BY <2>2, <2>3
<1>7. CASE Len(all) > ResponseCache
  <2>1. Put(c, r) = Tail(all)
    BY <1>3, <1>7
  <2>2. /\ Tail(all) \in Seq(Entry) /\ Len(Tail(all)) = Len(all) - 1
        /\ \A i \in 1..(Len(all) - 1) : Tail(all)[i] = all[i + 1]
    BY <1>5, HeadTailProperties
  <2>3. Len(Put(c, r)) = Len(o) /\ Len(o) > 0 /\ Len(o) <= ResponseCache
    BY <1>1, <1>2, <1>5, <1>7, <2>1, <2>2
  <2>4. \A i \in 1..Len(o) : Put(c, r)[i] = all[i + 1] /\ i + 1 \in 1..Len(all)
    BY <1>5, <2>1, <2>2
  <2>5. Put(c, r)[Len(o)] = e /\ Len(o) \in 1..Len(Put(c, r))
    BY <1>5, <2>3, <2>4
  <2>6. \A i, j \in 1..Len(Put(c, r)) : Put(c, r)[i].key = Put(c, r)[j].key => i = j
    <3> SUFFICES ASSUME NEW i \in 1..Len(o), NEW j \in 1..Len(o),
                        Put(c, r)[i].key = Put(c, r)[j].key
                 PROVE  i = j
      BY <2>3
    <3>1. all[i + 1].key = all[j + 1].key /\ i + 1 \in 1..Len(all) /\ j + 1 \in 1..Len(all)
      BY <2>4
    <3>2. i + 1 = j + 1
      BY <1>6, <3>1
    <3> QED BY <3>2
  <2>7. \A i \in 1..Len(Put(c, r)) : Put(c, r)[i] = e
            \/ (Put(c, r)[i].key # KeyOf(c) /\ \E j \in 1..Len(rounds) : Put(c, r)[i] = rounds[j])
    BY <1>6, <2>3, <2>4
  <2> QED BY <2>1, <2>2, <2>3, <2>5, <2>6, <2>7 DEF e
<1>8. CASE ~(Len(all) > ResponseCache)
  <2>1. Put(c, r) = all
    BY <1>3, <1>8
  <2>2. Len(all) <= ResponseCache /\ Len(o) + 1 \in 1..Len(all)
    BY <1>2, <1>5, <1>8
  <2> QED BY <1>5, <1>6, <2>1, <2>2 DEF e
<1> QED BY <1>7, <1>8

\* Setting a key keeps what the other keys stand for, unless it evicts them.
LEMMA StoredFacts ==
    ASSUME RoundShapes, NEW c \in Challenge, NEW r \in Response \cup {NONE}, Stored(c, r)
    PROVE  /\ RoundShapes' /\ evicted \subseteq evicted'
           /\ r = NONE => Reserved(KeyOf(c))'
           /\ r # NONE => Kept(KeyOf(c), r.cnf)'
           /\ \A k : k # KeyOf(c) /\ k \notin evicted' /\ Reserved(k) => Reserved(k)'
           /\ \A k, cnf : k # KeyOf(c) /\ k \notin evicted' /\ Kept(k, cnf) => Kept(k, cnf)'
           /\ \A i \in 1..Len(rounds') :
                 rounds'[i].response = r \/ \E j \in 1..Len(rounds) : rounds'[i] = rounds[j]
<1> DEFINE e == [key |-> KeyOf(c), response |-> r]
<1>1. rounds' = Put(c, r) /\ evicted' = evicted \cup (KeysIn(rounds) \ KeysIn(rounds'))
  BY DEF Stored
<1>2. e \in Entry /\ KeyOf(c) \in Keys
  BY DEF Entry, KeyOf, Keys, Challenge
<1>3. /\ rounds' \in Seq(Entry) /\ Len(rounds') <= ResponseCache
      /\ \A i, j \in 1..Len(rounds') : rounds'[i].key = rounds'[j].key => i = j
      /\ \E i \in 1..Len(rounds') : rounds'[i] = e
      /\ \A i \in 1..Len(rounds') :
            \/ rounds'[i] = e
            \/ rounds'[i].key # KeyOf(c) /\ \E j \in 1..Len(rounds) : rounds'[i] = rounds[j]
  BY <1>1, <1>2, PutFacts
<1>4. e.key = KeyOf(c) /\ e.response = r
  OBVIOUS
<1> HIDE DEF e
<1>5. KeysIn(rounds) \subseteq Keys
  <2>1. \A i \in 1..Len(rounds) : rounds[i] \in Entry
    BY LenProperties DEF RoundShapes
  <2> QED BY <2>1 DEF KeysIn, Entry
<1>6. RoundShapes' /\ evicted \subseteq evicted'
  BY <1>1, <1>3, <1>5 DEF RoundShapes
<1>7. \A i, j \in 1..Len(rounds) : rounds[i].key = rounds[j].key => i = j
  BY DEF RoundShapes
<1>8. ASSUME NEW i \in 1..Len(rounds), rounds[i].key # KeyOf(c), rounds[i].key \notin evicted'
      PROVE  \E m \in 1..Len(rounds') : rounds'[m] = rounds[i]
  <2>1. rounds[i].key \in KeysIn(rounds')
    BY <1>1, <1>8 DEF KeysIn
  <2>2. PICK m \in 1..Len(rounds') : rounds'[m].key = rounds[i].key
    BY <2>1 DEF KeysIn
  <2>3. PICK j \in 1..Len(rounds) : rounds'[m] = rounds[j]
    BY <1>3, <1>4, <1>8, <2>2
  <2> QED BY <1>7, <2>2, <2>3
<1>9. \A k : k # KeyOf(c) /\ k \notin evicted' /\ Reserved(k) => Reserved(k)'
  BY <1>8 DEF Reserved
<1>10. \A k, cnf : k # KeyOf(c) /\ k \notin evicted' /\ Kept(k, cnf) => Kept(k, cnf)'
  BY <1>8 DEF Kept
<1>11. (r = NONE => Reserved(KeyOf(c))') /\ (r # NONE => Kept(KeyOf(c), r.cnf)')
  BY <1>3, <1>4 DEF Reserved, Kept
<1>12. \A i \in 1..Len(rounds') :
          rounds'[i].response = r \/ \E j \in 1..Len(rounds) : rounds'[i] = rounds[j]
  BY <1>3, <1>4
<1> QED BY <1>6, <1>9, <1>10, <1>11, <1>12

----------------------------------------------------------------------------
LEMMA MinerStarts == MinerInit => MinerIInv
<1> SUFFICES ASSUME MinerInit PROVE MinerIInv
  OBVIOUS
<1> USE MinerConstants
<1>1. MinerShapes
  BY DEF MinerInit, MinerShapes
<1>2. RoundShapes /\ WitnessesFit /\ KeysFit
  BY DEF MinerInit, RoundShapes, WitnessesFit, KeysFit, Working, IdleTask, WitnessIsAsked
<1>3. \A c, now : GrantedIn(granted, c, now) = {}
  BY DEF MinerInit, GrantedIn
<1>4. \A c \in Callers : \A now : Open(requests[c], now) = {}
  BY DEF MinerInit, Open
<1>5. RateBook
  <2>1. 1..Len(granted) = {}
    BY DEF MinerInit
  <2>2. \A c \in Callers : \A now \in Nat :
           Cardinality(GrantedIn(granted, c, now)) <= Cardinality(Open(requests[c], now))
    <3>1. Cardinality({}) = 0 /\ 0 <= 0
      BY FS_EmptySet
    <3> QED BY <1>3, <1>4, <3>1
  <2> QED BY <2>1, <2>2 DEF RateBook
<1>6. RateHolds
  <2>1. \A c, now : {i \in 1..Len(granted) :
            /\ granted[i].caller = c
            /\ granted[i].at <= now /\ now < granted[i].at + RateWindow} = {}
    BY DEF MinerInit
  <2>2. Cardinality({}) = 0 /\ Rpm >= 0
    BY FS_EmptySet
  <2> QED BY <2>1, <2>2 DEF RateHolds
<1> QED BY <1>1, <1>2, <1>5, <1>6 DEF MinerIInv

\* A task that moves without touching the rounds or the answers.
LEMMA TaskMoves ==
    ASSUME MinerShapes, WitnessesFit, KeysFit,
           rounds' = rounds, evicted' = evicted, answered' = answered,
           NEW t \in MinerTasks, NEW new \in Serving \cup {IdleTask},
           tasks' = [tasks EXCEPT ![t] = new],
           new # IdleTask => Solves(new.witness, new.challenge.cnf),
           new.at \in {"waiting", "solving", "solved"} =>
              Working(t) /\ new.challenge = tasks[t].challenge
    PROVE  WitnessesFit' /\ KeysFit' /\ tasks' \in [MinerTasks -> Serving \cup {IdleTask}]
<1>1. /\ tasks \in [MinerTasks -> Serving \cup {IdleTask}]
      /\ tasks' \in [MinerTasks -> Serving \cup {IdleTask}]
      /\ tasks'[t] = new /\ \A s \in MinerTasks \ {t} : tasks'[s] = tasks[s]
  BY DEF MinerShapes
<1>2. WitnessesFit'
  BY <1>1 DEF WitnessesFit, WitnessIsAsked
<1>3. \A s \in MinerTasks : Working(s)' => Working(s) /\ TaskKey(s)' = TaskKey(s)
  BY <1>1 DEF Working, TaskKey, KeyOf
<1>4. KeysFit'
  <2>1. \A k, cnf : (Reserved(k) => Reserved(k)') /\ (Kept(k, cnf) => Kept(k, cnf)')
    BY DEF Reserved, Kept
  <2> QED BY <1>3, <2>1 DEF KeysFit
<1> QED BY <1>1, <1>2, <1>4

LEMMA RatesKept ==
    ASSUME RateBook, RateHolds, UNCHANGED <<granted, requests, dropped, minerClock>>
    PROVE  RateBook' /\ RateHolds'
BY DEF RateBook, RateHolds, GrantedIn, Open

LEMMA TaskTyped ==
    ASSUME MinerShapes, NEW t \in MinerTasks, tasks[t] # IdleTask
    PROVE  tasks[t] \in Serving /\ tasks[t].challenge \in Challenge
BY DEF MinerShapes, Serving

LEMMA BlacklistStep ==
    ASSUME MinerIInv, NEW t \in MinerTasks, NEW c \in Challenge, blacklist(t, c)
    PROVE  MinerIInv'
<1> DEFINE new == [at |-> "screened", challenge |-> c, witness |-> NONE]
<1>1. MinerShapes /\ RoundShapes /\ WitnessesFit /\ KeysFit /\ RateBook /\ RateHolds
  BY DEF MinerIInv
<1>2. new \in Serving /\ new.at = "screened" /\ new.witness = NONE
  BY DEF Serving
<1>3. /\ tasks' = [tasks EXCEPT ![t] = new]
      /\ UNCHANGED <<accessVars, roundVars, minerClock, answered, cancels>>
  BY DEF blacklist
<1> HIDE DEF new
<1>4. WitnessesFit' /\ KeysFit' /\ tasks' \in [MinerTasks -> Serving \cup {IdleTask}]
  BY <1>1, <1>2, <1>3, TaskMoves DEF roundVars, Solves
<1>5. MinerShapes' /\ RoundShapes'
  BY <1>1, <1>3, <1>4 DEF MinerShapes, RoundShapes, accessVars, roundVars
<1>6. RateBook' /\ RateHolds'
  BY <1>1, <1>3, RatesKept DEF accessVars
<1> QED BY <1>4, <1>5, <1>6 DEF MinerIInv

LEMMA AcquireStep ==
    ASSUME MinerIInv, NEW t \in MinerTasks, acquire_slot(t)
    PROVE  MinerIInv'
<1>1. MinerShapes /\ RoundShapes /\ WitnessesFit /\ KeysFit /\ RateBook /\ RateHolds
  BY DEF MinerIInv
<1>2. PICK at \in {"solving", "solved"} :
          tasks[t].at = "waiting" /\ tasks' = [tasks EXCEPT ![t].at = at]
  BY DEF acquire_slot
<1>3. UNCHANGED <<accessVars, roundVars, minerClock, answered, cancels>>
  BY DEF acquire_slot
<1> DEFINE new == [tasks[t] EXCEPT !.at = at]
<1>4. tasks[t] # IdleTask /\ tasks[t] \in Serving /\ tasks[t].challenge \in Challenge
  BY <1>1, <1>2, TaskTyped DEF IdleTask
<1>5. /\ new \in Serving /\ new.challenge = tasks[t].challenge /\ new.witness = tasks[t].witness
  BY <1>4 DEF Serving
<1>6. tasks' = [tasks EXCEPT ![t] = new]
  BY <1>2
<1>7. Solves(tasks[t].witness, tasks[t].challenge.cnf) /\ Working(t)
  BY <1>1, <1>2, <1>4 DEF WitnessesFit, Working
<1> HIDE DEF new
<1>8. WitnessesFit' /\ KeysFit' /\ tasks' \in [MinerTasks -> Serving \cup {IdleTask}]
  BY <1>1, <1>3, <1>5, <1>6, <1>7, TaskMoves DEF roundVars
<1>9. MinerShapes' /\ RoundShapes'
  BY <1>1, <1>3, <1>8 DEF MinerShapes, RoundShapes, accessVars, roundVars
<1>10. RateBook' /\ RateHolds'
  BY <1>1, <1>3, RatesKept DEF accessVars
<1> QED BY <1>8, <1>9, <1>10 DEF MinerIInv

LEMMA SolverStep ==
    ASSUME MinerIInv, NEW t \in MinerTasks, run_external_solver(t)
    PROVE  MinerIInv'
<1>1. MinerShapes /\ RoundShapes /\ WitnessesFit /\ KeysFit /\ RateBook /\ RateHolds
  BY DEF MinerIInv
<1>2. PICK witness \in {tasks[t].challenge.cnf, NONE} :
          /\ tasks[t].at = "solving"
          /\ tasks' = [tasks EXCEPT ![t].at = "solved", ![t].witness = witness]
  BY DEF run_external_solver, parse_dimacs_model
<1>3. UNCHANGED <<accessVars, roundVars, minerClock, answered, cancels>>
  BY DEF run_external_solver
<1> DEFINE new == [at |-> "solved", challenge |-> tasks[t].challenge, witness |-> witness]
<1>4. tasks[t] # IdleTask /\ tasks[t] \in Serving /\ tasks[t].challenge \in Challenge
  BY <1>1, <1>2, TaskTyped DEF IdleTask
<1>5. /\ new \in Serving /\ new.challenge = tasks[t].challenge /\ new.witness = witness
  BY <1>2, <1>4 DEF Serving, Challenge
<1>6. tasks' = [tasks EXCEPT ![t] = new]
  <2>1. [[tasks[t] EXCEPT !.at = "solved"] EXCEPT !.witness = witness] = new
    <3>1. PICK a, c, w : tasks[t] = [at |-> a, challenge |-> c, witness |-> w]
      BY <1>4 DEF Serving
    <3>2. [tasks[t] EXCEPT !.at = "solved"] = [at |-> "solved", challenge |-> c, witness |-> w]
      BY <3>1
    <3>3. tasks[t].challenge = c
      BY <3>1
    <3>4. [[at |-> "solved", challenge |-> c, witness |-> w] EXCEPT !.witness = witness]
            = [at |-> "solved", challenge |-> c, witness |-> witness]
      OBVIOUS
    <3> HIDE DEF new
    <3>5. new = [at |-> "solved", challenge |-> c, witness |-> witness]
      BY <3>3 DEF new
    <3> QED BY <3>2, <3>4, <3>5
  <2>2. t \in DOMAIN tasks
    BY <1>1 DEF MinerShapes
  <2>3. tasks' = [[tasks EXCEPT ![t].at = "solved"] EXCEPT ![t].witness = witness]
    BY <1>2
  <2> HIDE DEF new
  <2>4. [[tasks EXCEPT ![t].at = "solved"] EXCEPT ![t].witness = witness] = [tasks EXCEPT ![t] = new]
    BY <2>1, <2>2
  <2> QED BY <2>3, <2>4
<1>7. Working(t) /\ Solves(witness, tasks[t].challenge.cnf)
  BY <1>2 DEF Working, Solves
<1> HIDE DEF new
<1>8. WitnessesFit' /\ KeysFit' /\ tasks' \in [MinerTasks -> Serving \cup {IdleTask}]
  BY <1>1, <1>3, <1>5, <1>6, <1>7, TaskMoves DEF roundVars
<1>9. MinerShapes' /\ RoundShapes'
  BY <1>1, <1>3, <1>8 DEF MinerShapes, RoundShapes, accessVars, roundVars
<1>10. RateBook' /\ RateHolds'
  BY <1>1, <1>3, RatesKept DEF accessVars
<1> QED BY <1>8, <1>9, <1>10 DEF MinerIInv

LEMMA CancelStep ==
    ASSUME MinerIInv, NEW t \in MinerTasks, Cancelled_task(t)
    PROVE  MinerIInv'
<1>1. MinerShapes /\ RoundShapes /\ WitnessesFit /\ KeysFit /\ RateBook /\ RateHolds
  BY DEF MinerIInv
<1>2. /\ tasks' = [tasks EXCEPT ![t] = IdleTask]
      /\ UNCHANGED <<accessVars, roundVars, minerClock, answered>>
      /\ cancels < MaxCancels /\ cancels' = cancels + 1
  BY DEF Cancelled_task
<1>3. IdleTask.at = "idle"
  BY DEF IdleTask
<1>4. WitnessesFit' /\ KeysFit' /\ tasks' \in [MinerTasks -> Serving \cup {IdleTask}]
  BY <1>1, <1>2, <1>3, TaskMoves DEF roundVars
<1>5. MinerShapes' /\ RoundShapes'
  BY <1>1, <1>2, <1>4, MinerConstants, SMTT(30) DEF MinerShapes, RoundShapes, accessVars, roundVars
<1>6. RateBook' /\ RateHolds'
  BY <1>1, <1>2, RatesKept DEF accessVars
<1> QED BY <1>4, <1>5, <1>6 DEF MinerIInv

\* A caller passes the window, or is refused by it.
LEMMA WindowStep ==
    ASSUME MinerIInv, NEW t \in MinerTasks, rate_limited(t)
    PROVE  MinerIInv'
<1>1. MinerShapes /\ RoundShapes /\ WitnessesFit /\ KeysFit /\ RateBook /\ RateHolds
  BY DEF MinerIInv
<1>2. tasks[t] # IdleTask /\ tasks[t] \in Serving /\ tasks[t].challenge \in Challenge
  BY <1>1, TaskTyped DEF rate_limited, IdleTask
<1> DEFINE caller == tasks[t].challenge.caller
           recent == Recent(caller)
           passed_task == [tasks[t] EXCEPT !.at = "passed"]
<1>3. caller \in Callers
  BY <1>2 DEF Challenge
<1>4. minerClock \in Nat /\ minerClock \in 0..MaxMinerTime /\ requests \in [Callers -> Seq(0..MaxMinerTime)]
  BY <1>1, MinerConstants DEF MinerShapes
<1>5. requests[caller] \in Seq(0..MaxMinerTime)
  BY <1>3, <1>4
<1>6. recent \in Seq(0..MaxMinerTime) /\ Len(recent) \in Nat
  BY <1>4, <1>5, RecentFacts, LenProperties
<1>7. UNCHANGED <<permitted, allowedCallers, dropped, permitMoves, roundVars, minerClock, answered, cancels>>
  BY DEF rate_limited
<1>8. \/ /\ requests' = [requests EXCEPT ![caller] = recent]
         /\ tasks' = [tasks EXCEPT ![t] = IdleTask]
         /\ granted' = granted
      \/ /\ ~(Len(recent) >= Rpm)
         /\ requests' = [requests EXCEPT ![caller] = Append(recent, minerClock)]
         /\ tasks' = [tasks EXCEPT ![t] = passed_task]
         /\ granted' = Append(granted, [caller |-> caller, at |-> minerClock])
  BY DEF rate_limited
<1>9. passed_task \in Serving /\ passed_task.at = "passed" /\ passed_task.challenge = tasks[t].challenge
      /\ passed_task.witness = tasks[t].witness
  BY <1>2 DEF Serving
<1>10. Solves(tasks[t].witness, tasks[t].challenge.cnf)
  BY <1>1, <1>2 DEF WitnessesFit
<1>11. \A now \in Nat : now >= minerClock =>
          Cardinality(Open(requests[caller], now)) <= Cardinality(Open(recent, now))
  BY <1>4, <1>5, OpenRecent
<1>12. granted \in Seq([caller : Callers, at : 0..MaxMinerTime])
  BY <1>1 DEF MinerShapes
<1>13. Len(granted) \in Nat /\ \A i \in 1..Len(granted) : granted[i] \in [caller : Callers, at : 0..MaxMinerTime]
  BY <1>12, LenProperties
<1> HIDE DEF caller, recent, passed_task
<1>14. IdleTask.at = "idle"
  BY DEF IdleTask
<1>15. WitnessesFit' /\ KeysFit' /\ tasks' \in [MinerTasks -> Serving \cup {IdleTask}]
  <2>1. evicted' = evicted /\ rounds' = rounds /\ answered' = answered
    BY <1>7 DEF roundVars
  <2>2. CASE tasks' = [tasks EXCEPT ![t] = IdleTask]
    BY <1>1, <1>14, <2>1, <2>2, TaskMoves
  <2>3. CASE tasks' = [tasks EXCEPT ![t] = passed_task]
    BY <1>1, <1>9, <1>10, <2>1, <2>3, TaskMoves
  <2> QED BY <1>8, <2>2, <2>3
<1>16. \A c \in Callers \ dropped : \A now \in Nat : now >= minerClock =>
          Cardinality(GrantedIn(granted, c, now)) <= Cardinality(Open(requests[c], now))
  BY <1>1 DEF RateBook
<1>17. RoundShapes'
  BY <1>1, <1>7 DEF RoundShapes, roundVars
<1>18. CASE /\ requests' = [requests EXCEPT ![caller] = recent]
            /\ granted' = granted
  <2>1. MinerShapes'
    BY <1>1, <1>3, <1>4, <1>6, <1>7, <1>15, <1>18 DEF MinerShapes
  <2>2. RateBook'
    <3>1. ASSUME NEW c \in Callers \ dropped, NEW now \in Nat, now >= minerClock
          PROVE  Cardinality(GrantedIn(granted, c, now)) <= Cardinality(Open(requests'[c], now))
      <4>1. CASE c # caller
        BY <1>3, <1>4, <1>16, <1>18, <3>1, <4>1
      <4>2. CASE c = caller
        <5>1. requests'[c] = recent
          BY <1>3, <1>4, <1>18, <4>2
        <5>2. Len(requests[caller]) \in Nat
          BY <1>5, LenProperties
        <5>3. /\ Cardinality(GrantedIn(granted, c, now)) \in Nat
              /\ Cardinality(Open(requests[caller], now)) \in Nat
              /\ Cardinality(Open(recent, now)) \in Nat
          BY <1>6, <1>13, <5>2, GrantedCount, OpenCount
        <5>4. Cardinality(GrantedIn(granted, c, now)) <= Cardinality(Open(requests[caller], now))
          BY <1>16, <3>1, <4>2
        <5>5. Cardinality(Open(requests[caller], now)) <= Cardinality(Open(recent, now))
          BY <1>11, <3>1
        <5> QED BY <5>1, <5>3, <5>4, <5>5
      <4> QED BY <4>1, <4>2
    <3>2. \A i \in 1..Len(granted') : granted'[i].at <= minerClock'
      BY <1>1, <1>7, <1>18 DEF RateBook
    <3>3. granted' = granted /\ dropped' = dropped /\ minerClock' = minerClock
      BY <1>7, <1>18
    <3> QED BY <3>1, <3>2, <3>3 DEF RateBook, GrantedIn, Open
  <2>3. RateHolds'
    BY <1>1, <1>7, <1>18 DEF RateHolds
  <2> QED BY <1>15, <1>17, <2>1, <2>2, <2>3 DEF MinerIInv
<1>19. CASE /\ ~(Len(recent) >= Rpm)
            /\ requests' = [requests EXCEPT ![caller] = Append(recent, minerClock)]
            /\ granted' = Append(granted, [caller |-> caller, at |-> minerClock])
  <2> DEFINE e == [caller |-> caller, at |-> minerClock]
  <2>1. e \in [caller : Callers, at : 0..MaxMinerTime] /\ e.caller = caller /\ e.at = minerClock
    BY <1>3, <1>4
  <2>2. Append(recent, minerClock) \in Seq(0..MaxMinerTime)
    BY <1>4, <1>6, AppendProperties
  <2>3. granted' = Append(granted, e)
    BY <1>19
  <2> HIDE DEF e
  <2>4. /\ granted' \in Seq([caller : Callers, at : 0..MaxMinerTime])
        /\ Len(granted') = Len(granted) + 1
        /\ \A i \in 1..Len(granted) : granted'[i] = granted[i]
        /\ granted'[Len(granted) + 1] = e
    BY <1>12, <2>1, <2>3, AppendProperties
  <2>5. MinerShapes'
    BY <1>1, <1>3, <1>4, <1>7, <1>15, <1>19, <2>2, <2>4 DEF MinerShapes
  <2>6. ASSUME NEW now \in Nat, now >= minerClock, NEW c \in Callers \ dropped
        PROVE  Cardinality(GrantedIn(granted', c, now)) <= Cardinality(Open(requests'[c], now))
    <3>1. Cardinality(GrantedIn(granted', c, now)) = Cardinality(GrantedIn(granted, c, now))
             + (IF e.caller = c /\ e.at + RateWindow > now THEN 1 ELSE 0)
      BY <1>12, <2>1, <2>3, GrantedAppend, ZenonT(30)
    <3>2. Cardinality(GrantedIn(granted, c, now)) <= Cardinality(Open(requests[c], now))
      BY <1>16, <2>6
    <3>3. CASE c # caller
      <4>1. requests'[c] = requests[c]
        BY <1>3, <1>4, <1>19, <3>3
      <4>2. Cardinality(GrantedIn(granted, c, now)) \in Nat
        BY <1>13, GrantedCount
      <4> QED BY <2>1, <3>1, <3>2, <3>3, <4>1, <4>2
    <3>4. CASE c = caller
      <4>1. requests'[c] = Append(recent, minerClock)
        BY <1>3, <1>4, <1>19, <3>4
      <4>2. recent \in Seq(Nat)
        BY <1>6, MinerConstants, SeqMonotonic
      <4>3. Cardinality(Open(Append(recent, minerClock), now))
              = Cardinality(Open(recent, now)) + (IF minerClock + RateWindow > now THEN 1 ELSE 0)
        BY <1>4, <4>2, OpenAppend
      <4>4. Cardinality(Open(requests[c], now)) <= Cardinality(Open(recent, now))
        BY <1>11, <2>6, <3>4
      <4>5. Len(requests[caller]) \in Nat
        BY <1>5, LenProperties
      <4>6. /\ Cardinality(GrantedIn(granted, c, now)) \in Nat
            /\ Cardinality(Open(requests[c], now)) \in Nat
            /\ Cardinality(Open(recent, now)) \in Nat
        BY <1>6, <1>13, <3>4, <4>5, GrantedCount, OpenCount
      <4> QED BY <2>1, <3>1, <3>2, <3>4, <4>1, <4>3, <4>4, <4>6
    <3> QED BY <3>3, <3>4
  <2>7. RateBook'
    <3>1. \A i \in 1..Len(granted') : granted'[i].at <= minerClock'
      <4> TAKE i \in 1..Len(granted')
      <4>1. \A j \in 1..Len(granted) : granted[j].at <= minerClock
        BY <1>1 DEF RateBook
      <4>2. i \in 1..Len(granted) \/ i = Len(granted) + 1
        BY <1>13, <2>4
      <4>3. minerClock' = minerClock /\ minerClock <= minerClock
        BY <1>4, <1>7
      <4>4. CASE i \in 1..Len(granted)
        BY <2>4, <4>1, <4>3, <4>4
      <4>5. CASE i = Len(granted) + 1
        BY <2>1, <2>4, <4>3, <4>5
      <4> QED BY <4>2, <4>4, <4>5
    <3>2. dropped' = dropped /\ minerClock' = minerClock
      BY <1>7
    <3> QED BY <2>6, <3>1, <3>2 DEF RateBook, GrantedIn, Open
  <2>8. ASSUME NEW c \in Callers \ dropped, NEW now \in 0..MaxMinerTime
        PROVE  Cardinality({i \in 1..Len(granted') :
                  /\ granted'[i].caller = c
                  /\ granted'[i].at <= now /\ now < granted'[i].at + RateWindow}) <= Rpm
    <3> DEFINE A == {i \in 1..Len(granted) :
                        /\ granted[i].caller = c
                        /\ granted[i].at <= now /\ now < granted[i].at + RateWindow}
               B == {i \in 1..Len(granted') :
                        /\ granted'[i].caller = c
                        /\ granted'[i].at <= now /\ now < granted'[i].at + RateWindow}
    <3>1. Cardinality(A) <= Rpm
      BY <1>1, <2>8 DEF RateHolds
    <3>2. CASE c # caller \/ now < minerClock
      <4>1. A = B
        BY <1>4, <1>13, <2>1, <2>4, <3>2, SMTT(30)
      <4> QED BY <3>1, <4>1
    <3>3. CASE c = caller /\ now >= minerClock
      <4>0. minerClock \in Nat /\ now \in Nat /\ c \in Callers \ dropped
        BY <1>4, MinerConstants
      <4>1. B \subseteq GrantedIn(granted', c, now)
        BY <1>4, <1>13, <2>4 DEF GrantedIn
      <4>2. Cardinality(GrantedIn(granted', c, now)) <= Cardinality(Open(requests'[c], now))
        BY <2>6, <3>3, <4>0
      <4>3. requests'[c] = Append(recent, minerClock)
        BY <1>3, <1>4, <1>19, <3>3
      <4>4. Len(Append(recent, minerClock)) = Len(recent) + 1
        BY <1>6, AppendProperties
      <4>5. Cardinality(Open(Append(recent, minerClock), now)) <= Len(recent) + 1
            /\ Cardinality(Open(Append(recent, minerClock), now)) \in Nat
        <5>1. Len(Append(recent, minerClock)) \in Nat
          BY <1>6, <4>4
        <5> QED BY <4>4, <5>1, OpenCount
      <4>6. Len(granted') \in Nat
        BY <1>13, <2>4
      <4>7. IsFiniteSet(GrantedIn(granted', c, now)) /\ Cardinality(GrantedIn(granted', c, now)) \in Nat
        BY <4>6, GrantedCount
      <4> HIDE DEF B
      <4>8. Cardinality(B) <= Cardinality(GrantedIn(granted', c, now)) /\ Cardinality(B) \in Nat
        BY <4>1, <4>7, FS_Subset, FS_CardinalityType
      <4>9. Rpm \in Nat /\ Len(recent) + 1 <= Rpm
        BY <1>6, <1>19, MinerConstants
      <4>10. Cardinality(B) <= Rpm
        BY <1>6, <4>2, <4>3, <4>5, <4>7, <4>8, <4>9
      <4> QED BY <4>10 DEF B
    <3> QED
      <4>1. now \in Nat /\ minerClock \in Nat
        BY <1>4, MinerConstants
      <4> QED BY <3>2, <3>3, <4>1
  <2>9. RateHolds'
    BY <1>7, <2>8 DEF RateHolds
  <2> QED BY <1>15, <1>17, <2>5, <2>7, <2>9 DEF MinerIInv
<1> QED BY <1>8, <1>18, <1>19

----------------------------------------------------------------------------
LEMMA SameEntry ==
    ASSUME RoundShapes, NEW i \in 1..Len(rounds), NEW cnf
    PROVE  /\ Reserved(rounds[i].key) => rounds[i].response = NONE
           /\ Kept(rounds[i].key, cnf) => rounds[i].response # NONE /\ rounds[i].response.cnf = cnf
<1>1. \A j, m \in 1..Len(rounds) : rounds[j].key = rounds[m].key => j = m
  BY DEF RoundShapes
<1> QED BY <1>1 DEF Reserved, Kept

LEMMA Answers ==
    ASSUME NEW t, NEW c \in Challenge, NEW witness \in Formulas \cup {NONE}, Respond(t, c, witness),
           MinerShapes
    PROVE  /\ tasks' = [tasks EXCEPT ![t] = IdleTask]
           /\ answered' \subseteq [caller : Callers, round : MinerRounds, cnf : Formulas, witness : Formulas]
           /\ \A a \in answered' : a \in answered
                 \/ (/\ witness # NONE /\ a.witness = witness
                     /\ KeyOf(a) = KeyOf(c) /\ a.cnf = c.cnf)
<1> DEFINE new == [caller |-> c.caller, round |-> c.round, cnf |-> c.cnf, witness |-> witness]
<1>1. witness # NONE => new \in [caller : Callers, round : MinerRounds, cnf : Formulas, witness : Formulas]
  BY DEF Challenge
<1>2. new.witness = witness /\ KeyOf(new) = KeyOf(c) /\ new.cnf = c.cnf
  BY DEF KeyOf
<1>3. tasks' = [tasks EXCEPT ![t] = IdleTask]
  BY DEF Respond
<1>4. answered' = IF witness = NONE THEN answered ELSE answered \cup {new}
  BY DEF Respond
<1> HIDE DEF new
<1> QED BY <1>1, <1>2, <1>3, <1>4 DEF MinerShapes

\* What is left to say of a step that sets the key of its challenge.
LEMMA RoundMoves ==
    ASSUME MinerIInv, NEW t \in MinerTasks, NEW c \in Challenge, c = tasks[t].challenge,
           NEW new \in Serving \cup {IdleTask}, tasks' = [tasks EXCEPT ![t] = new],
           NEW r \in Response \cup {NONE}, Stored(c, r),
           r # NONE => Solves(r.witness, r.cnf),
           new # IdleTask => Solves(new.witness, new.challenge.cnf),
           answered' \subseteq [caller : Callers, round : MinerRounds, cnf : Formulas, witness : Formulas],
           \A a \in answered' : a \in answered \/ grade_response(a),
           KeysFit',
           UNCHANGED <<accessVars, minerClock, cancels>>
    PROVE  MinerIInv'
<1>1. MinerShapes /\ RoundShapes /\ WitnessesFit /\ KeysFit /\ RateBook /\ RateHolds
  BY DEF MinerIInv
<1>2. /\ RoundShapes'
      /\ \A i \in 1..Len(rounds') :
            rounds'[i].response = r \/ \E j \in 1..Len(rounds) : rounds'[i] = rounds[j]
  BY <1>1, StoredFacts
<1>3. /\ tasks' \in [MinerTasks -> Serving \cup {IdleTask}]
      /\ tasks'[t] = new /\ \A s \in MinerTasks \ {t} : tasks'[s] = tasks[s]
  BY <1>1 DEF MinerShapes
<1>4. MinerShapes'
  BY <1>1, <1>3 DEF MinerShapes, accessVars
<1>5. \A i \in 1..Len(rounds') : rounds'[i].response # NONE =>
          Solves(rounds'[i].response.witness, rounds'[i].response.cnf)
  BY <1>1, <1>2 DEF WitnessesFit
<1>6. \A s \in MinerTasks : tasks'[s] # IdleTask => Solves(tasks'[s].witness, tasks'[s].challenge.cnf)
  BY <1>1, <1>3 DEF WitnessesFit
<1>7. \A a \in answered' : grade_response(a)
  BY <1>1 DEF WitnessesFit, WitnessIsAsked
<1>8. WitnessesFit'
  BY <1>5, <1>6, <1>7 DEF WitnessesFit, WitnessIsAsked, grade_response
<1>9. RateBook' /\ RateHolds'
  BY <1>1, RatesKept DEF accessVars
<1> QED BY <1>2, <1>4, <1>8, <1>9 DEF MinerIInv

LEMMA NoWitness == \A cnf : Solves(NONE, cnf)
BY DEF Solves

LEMMA ReserveStep ==
    ASSUME MinerIInv, NEW t \in MinerTasks, reserve_round(t)
    PROVE  MinerIInv'
<1>1. MinerShapes /\ RoundShapes /\ WitnessesFit /\ KeysFit /\ RateBook /\ RateHolds
  BY DEF MinerIInv
<1>2. tasks[t] # IdleTask /\ tasks[t] \in Serving /\ tasks[t].challenge \in Challenge
      /\ tasks[t].at = "passed"
  BY <1>1, TaskTyped DEF reserve_round, IdleTask
<1>3. PICK c : c = tasks[t].challenge
  OBVIOUS
<1>4. c \in Challenge /\ ~Working(t) /\ IdleTask.at = "idle" /\ KeyOf(c) = TaskKey(t)
  BY <1>2, <1>3 DEF Working, IdleTask, TaskKey
<1>5. UNCHANGED <<accessVars, minerClock, cancels>>
  BY DEF reserve_round
<1>6. \/ Respond(t, c, NONE) /\ UNCHANGED roundVars
      \/ /\ Cached(c) = {} /\ Stored(c, NONE) /\ answered' = answered
         /\ tasks' = [tasks EXCEPT ![t] = [tasks[t] EXCEPT !.at = "waiting"]]
      \/ \E i \in Cached(c) :
            /\ Stored(c, rounds[i].response)
            /\ Respond(t, c, IF rounds[i].response # NONE /\ SameFormula(rounds[i].response, c)
                             THEN rounds[i].response.witness ELSE NONE)
  BY <1>3 DEF reserve_round
<1>7. tasks \in [MinerTasks -> Serving \cup {IdleTask}]
  BY <1>1 DEF MinerShapes
<1>8. CASE Respond(t, c, NONE) /\ UNCHANGED roundVars
  <2>1. tasks' = [tasks EXCEPT ![t] = IdleTask] /\ answered' = answered
    BY <1>8 DEF Respond
  <2>2. WitnessesFit' /\ KeysFit' /\ tasks' \in [MinerTasks -> Serving \cup {IdleTask}]
    BY <1>1, <1>4, <1>8, <2>1, TaskMoves DEF roundVars
  <2>3. MinerShapes' /\ RoundShapes'
    BY <1>1, <1>5, <1>8, <2>1, <2>2 DEF MinerShapes, RoundShapes, accessVars, roundVars
  <2>4. RateBook' /\ RateHolds'
    BY <1>1, <1>5, RatesKept DEF accessVars
  <2> QED BY <2>2, <2>3, <2>4 DEF MinerIInv
<1>9. CASE /\ Cached(c) = {} /\ Stored(c, NONE) /\ answered' = answered
           /\ tasks' = [tasks EXCEPT ![t] = [tasks[t] EXCEPT !.at = "waiting"]]
  <2> DEFINE new == [tasks[t] EXCEPT !.at = "waiting"]
  <2>1. new \in Serving /\ new.challenge = c /\ new.witness = tasks[t].witness
    BY <1>2, <1>3 DEF Serving
  <2>2. Solves(tasks[t].witness, c.cnf)
    BY <1>1, <1>2, <1>3 DEF WitnessesFit
  <2>3. tasks' = [tasks EXCEPT ![t] = new]
    BY <1>9
  <2> HIDE DEF new
  <2>4. /\ evicted \subseteq evicted' /\ Reserved(KeyOf(c))'
        /\ \A k : k # KeyOf(c) /\ k \notin evicted' /\ Reserved(k) => Reserved(k)'
        /\ \A k, cnf : k # KeyOf(c) /\ k \notin evicted' /\ Kept(k, cnf) => Kept(k, cnf)'
    BY <1>1, <1>4, <1>9, StoredFacts
  <2>5. ~Reserved(KeyOf(c)) /\ \A cnf : ~Kept(KeyOf(c), cnf)
    BY <1>9 DEF Cached, Reserved, Kept
  <2>6. /\ tasks'[t] = new /\ TaskKey(t)' = KeyOf(c)
        /\ \A s \in MinerTasks \ {t} :
              tasks'[s] = tasks[s] /\ (Working(s)' <=> Working(s)) /\ TaskKey(s)' = TaskKey(s)
    BY <1>7, <2>1, <2>3 DEF Working, TaskKey
  <2>7. \A s \in MinerTasks \ {t} : Working(s) /\ TaskKey(s) \notin evicted' => TaskKey(s) # KeyOf(c)
    BY <1>1, <2>4, <2>5 DEF KeysFit
  <2>8. \A s \in MinerTasks : Working(s)' /\ TaskKey(s)' \notin evicted' => Reserved(TaskKey(s))'
    <3> SUFFICES ASSUME NEW s \in MinerTasks, Working(s)', TaskKey(s)' \notin evicted'
                 PROVE  Reserved(TaskKey(s))'
      OBVIOUS
    <3>1. CASE s = t
      BY <2>4, <2>6, <3>1 DEF Reserved
    <3>2. CASE s # t
      <4>1. Reserved(TaskKey(s)) /\ TaskKey(s) # KeyOf(c) /\ TaskKey(s)' = TaskKey(s)
        BY <1>1, <2>4, <2>6, <2>7, <3>2 DEF KeysFit
      <4>2. PICK k : k = TaskKey(s)
        OBVIOUS
      <4>3. Reserved(k)' /\ TaskKey(s)' = k
        BY <2>4, <2>6, <3>2, <4>1, <4>2
      <4> QED BY <4>3 DEF Reserved
    <3> QED BY <3>1, <3>2
  <2>9. \A a \in answered : KeyOf(a) \notin evicted' => Kept(KeyOf(a), a.cnf)'
    BY <1>1, <2>4, <2>5 DEF KeysFit
  <2>10. \A s, u \in MinerTasks :
            Working(s)' /\ Working(u)' /\ TaskKey(s)' = TaskKey(u)' /\ TaskKey(u)' \notin evicted' => s = u
    BY <1>1, <2>4, <2>6, <2>7 DEF KeysFit
  <2>11. KeysFit'
    BY <1>9, <2>8, <2>9, <2>10 DEF KeysFit
  <2>12. MinerIInv'
    <3>1. answered' \subseteq [caller : Callers, round : MinerRounds, cnf : Formulas, witness : Formulas]
      BY <1>1, <1>9 DEF MinerShapes
    <3>2. new # IdleTask => Solves(new.witness, new.challenge.cnf)
      BY <2>1, <2>2
    <3>3. \A a \in answered' : a \in answered
      BY <1>9
    <3> QED BY <1>3, <1>4, <1>5, <1>9, <2>1, <2>3, <2>11, <3>1, <3>2, <3>3, RoundMoves
  <2> QED BY <2>12
<1>10. CASE \E i \in Cached(c) :
            /\ Stored(c, rounds[i].response)
            /\ Respond(t, c, IF rounds[i].response # NONE /\ SameFormula(rounds[i].response, c)
                             THEN rounds[i].response.witness ELSE NONE)
  <2>1. PICK i \in Cached(c) :
            /\ Stored(c, rounds[i].response)
            /\ Respond(t, c, IF rounds[i].response # NONE /\ SameFormula(rounds[i].response, c)
                             THEN rounds[i].response.witness ELSE NONE)
    BY <1>10
  <2>2. PICK r : r = rounds[i].response
    OBVIOUS
  <2>3. i \in 1..Len(rounds) /\ rounds[i].key = KeyOf(c) /\ rounds[i] \in Entry /\ r \in Response \cup {NONE}
    <3>1. i \in 1..Len(rounds) /\ rounds[i].key = KeyOf(c)
      BY DEF Cached
    <3>2. rounds \in Seq(Entry)
      BY <1>1 DEF RoundShapes
    <3>3. rounds[i] \in Entry
      BY <3>1, <3>2, LenProperties
    <3>4. rounds[i].response \in Response \cup {NONE}
      BY <3>3 DEF Entry
    <3> QED BY <2>2, <3>1, <3>3, <3>4
  <2>4. PICK w : w = IF r # NONE /\ SameFormula(r, c) THEN r.witness ELSE NONE
    OBVIOUS
  <2>5. /\ w \in Formulas \cup {NONE} /\ (w # NONE => r # NONE /\ r.cnf = c.cnf /\ w = r.witness)
        /\ (r # NONE => Solves(r.witness, r.cnf))
    BY <1>1, <2>2, <2>3, <2>4 DEF Response, SameFormula, WitnessesFit
  <2>6. Stored(c, r) /\ Respond(t, c, w)
    BY <2>1, <2>2, <2>4
  <2>7. /\ tasks' = [tasks EXCEPT ![t] = IdleTask]
        /\ answered' \subseteq [caller : Callers, round : MinerRounds, cnf : Formulas, witness : Formulas]
        /\ \A a \in answered' : a \in answered
              \/ (/\ w # NONE /\ a.witness = w /\ KeyOf(a) = KeyOf(c) /\ a.cnf = c.cnf)
    <3>1. w \in Formulas \cup {NONE} /\ MinerShapes /\ c \in Challenge /\ Respond(t, c, w)
      BY <1>1, <1>4, <2>5, <2>6
    <3> QED BY <3>1, Answers
  <2>8. /\ evicted \subseteq evicted'
        /\ r = NONE => Reserved(KeyOf(c))'
        /\ r # NONE => Kept(KeyOf(c), r.cnf)'
        /\ \A k : k # KeyOf(c) /\ k \notin evicted' /\ Reserved(k) => Reserved(k)'
        /\ \A k, cnf : k # KeyOf(c) /\ k \notin evicted' /\ Kept(k, cnf) => Kept(k, cnf)'
    BY <1>1, <1>4, <2>3, <2>6, StoredFacts
  <2>9. /\ Reserved(KeyOf(c)) => r = NONE
        /\ \A cnf : Kept(KeyOf(c), cnf) => r # NONE /\ r.cnf = cnf
    BY <1>1, <2>2, <2>3, SameEntry
  <2>10. /\ ~Working(t)'
         /\ \A s \in MinerTasks \ {t} : (Working(s)' <=> Working(s)) /\ TaskKey(s)' = TaskKey(s)
    BY <1>4, <1>7, <2>7 DEF Working, TaskKey
  <2>11. \A s \in MinerTasks : Working(s)' /\ TaskKey(s)' \notin evicted' => Reserved(TaskKey(s))'
    <3> SUFFICES ASSUME NEW s \in MinerTasks, Working(s)', TaskKey(s)' \notin evicted'
                 PROVE  Reserved(TaskKey(s))'
      OBVIOUS
    <3>1. Reserved(TaskKey(s)) /\ TaskKey(s)' = TaskKey(s) /\ TaskKey(s) \notin evicted'
      BY <1>1, <2>8, <2>10 DEF KeysFit
    <3>2. PICK k : k = TaskKey(s)
      OBVIOUS
    <3>3. Reserved(k)' /\ TaskKey(s)' = k
      <4>1. CASE k = KeyOf(c)
        BY <2>8, <2>9, <3>1, <3>2, <4>1 DEF Reserved
      <4>2. CASE k # KeyOf(c)
        BY <2>8, <3>1, <3>2, <4>2
      <4> QED BY <4>1, <4>2
    <3> QED BY <3>3 DEF Reserved
  <2>12. \A a \in answered' : KeyOf(a) \notin evicted' => Kept(KeyOf(a), a.cnf)'
    <3> SUFFICES ASSUME NEW a \in answered', KeyOf(a) \notin evicted'
                 PROVE  Kept(KeyOf(a), a.cnf)'
      OBVIOUS
    <3>1. CASE a \in answered
      BY <1>1, <2>8, <2>9, <3>1 DEF KeysFit
    <3>2. CASE a \notin answered
      BY <2>5, <2>7, <2>8, <3>2
    <3> QED BY <3>1, <3>2
  <2>13. KeysFit'
    BY <1>1, <2>8, <2>10, <2>11, <2>12 DEF KeysFit
  <2>14. \A a \in answered' : a \in answered \/ grade_response(a)
    BY <2>5, <2>7 DEF Solves, grade_response
  <2>15. MinerIInv'
    BY <1>3, <1>4, <1>5, <2>3, <2>5, <2>6, <2>7, <2>13, <2>14, RoundMoves
  <2> QED BY <2>15
<1> QED BY <1>6, <1>8, <1>9, <1>10

LEMMA CompleteStep ==
    ASSUME MinerIInv, NEW t \in MinerTasks, complete_round(t)
    PROVE  MinerIInv'
<1>1. MinerShapes /\ RoundShapes /\ WitnessesFit /\ KeysFit /\ RateBook /\ RateHolds
  BY DEF MinerIInv
<1>2. tasks[t] # IdleTask /\ tasks[t] \in Serving /\ tasks[t].challenge \in Challenge
      /\ tasks[t].at = "solved"
  BY <1>1, TaskTyped DEF complete_round, IdleTask
<1>3. PICK c, w, r : /\ c = tasks[t].challenge /\ w = tasks[t].witness
                     /\ r = [cnf |-> c.cnf, witness |-> w]
  OBVIOUS
<1>4. /\ c \in Challenge /\ Working(t) /\ KeyOf(c) = TaskKey(t) /\ IdleTask.at = "idle"
      /\ w \in Formulas \cup {NONE} /\ r \in Response /\ r.cnf = c.cnf /\ r.witness = w
  BY <1>2, <1>3 DEF Working, IdleTask, TaskKey, Serving, Challenge, Response
<1>5. r # NONE
  BY <1>4, NoResponseIsNone
<1>6. Stored(c, r) /\ Respond(t, c, w) /\ UNCHANGED <<accessVars, minerClock, cancels>>
  BY <1>3 DEF complete_round
<1>7. Solves(w, c.cnf)
  BY <1>1, <1>2, <1>3 DEF WitnessesFit
<1>8. /\ tasks' = [tasks EXCEPT ![t] = IdleTask]
      /\ answered' \subseteq [caller : Callers, round : MinerRounds, cnf : Formulas, witness : Formulas]
      /\ \A a \in answered' : a \in answered
            \/ (/\ w # NONE /\ a.witness = w /\ KeyOf(a) = KeyOf(c) /\ a.cnf = c.cnf)
  BY <1>1, <1>4, <1>6, Answers, ZenonT(30)
<1>9. /\ evicted \subseteq evicted'
      /\ Kept(KeyOf(c), r.cnf)'
      /\ \A k : k # KeyOf(c) /\ k \notin evicted' /\ Reserved(k) => Reserved(k)'
      /\ \A k, cnf : k # KeyOf(c) /\ k \notin evicted' /\ Kept(k, cnf) => Kept(k, cnf)'
  BY <1>1, <1>4, <1>5, <1>6, StoredFacts
<1>10. KeyOf(c) \notin evicted' => \A cnf : ~Kept(KeyOf(c), cnf)
  <2> SUFFICES ASSUME KeyOf(c) \notin evicted', NEW cnf, Kept(KeyOf(c), cnf) PROVE FALSE
    OBVIOUS
  <2>1. Reserved(KeyOf(c))
    BY <1>1, <1>4, <1>9 DEF KeysFit
  <2>2. PICK i \in 1..Len(rounds) : rounds[i].key = KeyOf(c)
    BY <2>1 DEF Reserved
  <2> QED BY <1>1, <2>1, <2>2, SameEntry
<1>11. /\ ~Working(t)'
       /\ \A s \in MinerTasks \ {t} : (Working(s)' <=> Working(s)) /\ TaskKey(s)' = TaskKey(s)
  BY <1>1, <1>4, <1>8 DEF Working, TaskKey, MinerShapes
<1>12. \A s \in MinerTasks \ {t} : Working(s) /\ TaskKey(s) \notin evicted' => TaskKey(s) # KeyOf(c)
  BY <1>1, <1>4, <1>9 DEF KeysFit
<1>13. \A s \in MinerTasks : Working(s)' /\ TaskKey(s)' \notin evicted' => Reserved(TaskKey(s))'
  <2> SUFFICES ASSUME NEW s \in MinerTasks, Working(s)', TaskKey(s)' \notin evicted'
               PROVE  Reserved(TaskKey(s))'
    OBVIOUS
  <2>1. Reserved(TaskKey(s)) /\ TaskKey(s)' = TaskKey(s) /\ TaskKey(s) \notin evicted'
        /\ TaskKey(s) # KeyOf(c)
    BY <1>1, <1>9, <1>11, <1>12 DEF KeysFit
  <2>2. PICK k : k = TaskKey(s)
    OBVIOUS
  <2>3. Reserved(k)' /\ TaskKey(s)' = k
    BY <1>9, <2>1, <2>2
  <2> QED BY <2>3 DEF Reserved
<1>14. \A a \in answered' : KeyOf(a) \notin evicted' => Kept(KeyOf(a), a.cnf)'
  <2> SUFFICES ASSUME NEW a \in answered', KeyOf(a) \notin evicted'
               PROVE  Kept(KeyOf(a), a.cnf)'
    OBVIOUS
  <2>1. CASE a \in answered
    BY <1>1, <1>9, <1>10, <2>1 DEF KeysFit
  <2>2. CASE a \notin answered
    BY <1>4, <1>8, <1>9, <2>2
  <2> QED BY <2>1, <2>2
<1>15. KeysFit'
  BY <1>1, <1>9, <1>11, <1>13, <1>14 DEF KeysFit
<1>16. \A a \in answered' : a \in answered \/ grade_response(a)
  BY <1>7, <1>8 DEF Solves, grade_response
<1> QED BY <1>3, <1>4, <1>6, <1>7, <1>8, <1>15, <1>16, RoundMoves

LEMMA AccessStep ==
    ASSUME MinerIInv, refresh \/ MoveClock \/ \E c \in Callers : MovePermit(c)
    PROVE  MinerIInv'
<1>1. MinerShapes /\ RoundShapes /\ WitnessesFit /\ KeysFit /\ RateBook /\ RateHolds
  BY DEF MinerIInv
<1>2. UNCHANGED <<roundVars, tasks, answered, granted>>
  BY DEF refresh, MoveClock, MovePermit, accessVars
<1>3. WitnessesFit' /\ KeysFit' /\ RoundShapes'
  <2>1. WitnessesFit' /\ RoundShapes'
    BY <1>1, <1>2 DEF WitnessesFit, WitnessIsAsked, RoundShapes, roundVars
  <2>2. KeysFit'
    BY <1>1, <1>2 DEF KeysFit, Working, TaskKey, Reserved, Kept, roundVars
  <2> QED BY <2>1, <2>2
<1>4. minerClock \in Nat /\ MaxMinerTime \in Nat /\ minerClock <= MaxMinerTime
  BY <1>1, MinerConstants DEF MinerShapes
<1>5. CASE refresh
  <2>1. /\ requests' = [c \in Callers |-> IF c \in permitted THEN requests[c] ELSE <<>>]
        /\ dropped' = dropped \cup (Callers \ permitted) /\ minerClock' = minerClock
        /\ allowedCallers' = permitted
        /\ UNCHANGED <<permitted, granted, permitMoves, tasks, answered, cancels>>
    BY <1>5 DEF refresh
  <2>2. MinerShapes'
    <3>1. <<>> \in Seq(0..MaxMinerTime)
      OBVIOUS
    <3>2. requests' \in [Callers -> Seq(0..MaxMinerTime)]
      BY <1>1, <2>1, <3>1 DEF MinerShapes
    <3> QED BY <1>1, <2>1, <3>2 DEF MinerShapes
  <2>3. \A c \in Callers \ dropped' : c \in Callers \ dropped /\ requests'[c] = requests[c]
    BY <2>1
  <2>4. RateBook' /\ RateHolds'
    BY <1>1, <2>1, <2>3 DEF RateBook, RateHolds, GrantedIn, Open
  <2> QED BY <1>3, <2>2, <2>4 DEF MinerIInv
<1>6. CASE MoveClock
  <2>1. /\ minerClock' = minerClock + 1 /\ minerClock < MaxMinerTime
        /\ UNCHANGED <<permitted, allowedCallers, requests, granted, dropped, permitMoves, tasks,
                       answered, cancels>>
    BY <1>6 DEF MoveClock, accessVars
  <2>2. MinerShapes'
    BY <1>1, <1>4, <2>1 DEF MinerShapes
  <2>3. RateHolds'
    BY <1>1, <2>1 DEF RateHolds
  <2>4. RateBook'
    <3>1. \A i \in 1..Len(granted) : granted[i].at <= minerClock /\ granted[i].at \in Nat
      <4>1. \A i \in 1..Len(granted) : granted[i] \in [caller : Callers, at : 0..MaxMinerTime]
        BY <1>1, LenProperties DEF MinerShapes
      <4> QED BY <1>1, <1>4, <4>1 DEF RateBook
    <3>2. \A i \in 1..Len(granted) : granted[i].at <= minerClock'
      BY <1>4, <2>1, <3>1
    <3>3. \A c \in Callers \ dropped : \A now \in Nat : now >= minerClock' =>
             Cardinality(GrantedIn(granted, c, now)) <= Cardinality(Open(requests[c], now))
      BY <1>1, <1>4, <2>1 DEF RateBook
    <3> QED BY <2>1, <3>2, <3>3 DEF RateBook, GrantedIn, Open
  <2> QED BY <1>3, <2>2, <2>3, <2>4 DEF MinerIInv
<1>7. CASE \E c \in Callers : MovePermit(c)
  <2>1. PICK c \in Callers : MovePermit(c)
    BY <1>7
  <2>2. /\ permitMoves < MaxPermitMoves /\ permitMoves' = permitMoves + 1
        /\ permitted' \subseteq Callers
        /\ UNCHANGED <<allowedCallers, requests, granted, dropped, minerClock, tasks, answered, cancels>>
    BY <1>1, <2>1 DEF MovePermit, MinerShapes
  <2>3. MinerShapes'
    BY <1>1, <2>2, MinerConstants, SMTT(30) DEF MinerShapes
  <2>4. RateBook' /\ RateHolds'
    BY <1>1, <2>2, RatesKept
  <2> QED BY <1>3, <2>3, <2>4 DEF MinerIInv
<1> QED BY <1>5, <1>6, <1>7

LEMMA MinerSteps == MinerIInv /\ [MinerNext]_minerVars => MinerIInv'
<1> SUFFICES ASSUME MinerIInv, [MinerNext]_minerVars PROVE MinerIInv'
  OBVIOUS
<1>1. CASE UNCHANGED minerVars
  <2>1. MinerShapes /\ RoundShapes /\ WitnessesFit /\ KeysFit /\ RateBook /\ RateHolds
    BY DEF MinerIInv
  <2>2. UNCHANGED <<permitted, allowedCallers, requests, minerClock, rounds, tasks, granted,
                    answered, evicted, dropped, permitMoves, cancels>>
    BY <1>1 DEF minerVars
  <2>3. MinerShapes' /\ RoundShapes'
    BY <2>1, <2>2 DEF MinerShapes, RoundShapes
  <2>4. WitnessesFit'
    BY <2>1, <2>2 DEF WitnessesFit, WitnessIsAsked
  <2>5. KeysFit'
    BY <2>1, <2>2 DEF KeysFit, Working, TaskKey, Reserved, Kept
  <2>6. RateBook' /\ RateHolds'
    BY <2>1, <2>2, RatesKept
  <2> QED BY <2>3, <2>4, <2>5, <2>6 DEF MinerIInv
<1>2. CASE refresh \/ MoveClock \/ \E c \in Callers : MovePermit(c)
  BY <1>2, AccessStep
<1>3. CASE \E t \in MinerTasks : \E c \in Challenge : blacklist(t, c)
  BY <1>3, BlacklistStep
<1>4. CASE \E t \in MinerTasks : rate_limited(t) \/ reserve_round(t) \/ acquire_slot(t)
                \/ run_external_solver(t) \/ complete_round(t) \/ Cancelled_task(t)
  BY <1>4, WindowStep, ReserveStep, AcquireStep, SolverStep, CompleteStep, CancelStep
<1> QED BY <1>1, <1>2, <1>3, <1>4 DEF MinerNext

LEMMA MinerImplied == MinerIInv => MinerInv
<1> SUFFICES ASSUME MinerIInv PROVE MinerInv
  OBVIOUS
<1>1. MinerShapes /\ RoundShapes /\ WitnessesFit /\ KeysFit /\ RateBook /\ RateHolds
  BY DEF MinerIInv
<1>2. Cardinality(KeysIn(rounds)) = Len(rounds)
  <2> DEFINE f == [i \in 1..Len(rounds) |-> rounds[i].key]
  <2>1. Len(rounds) \in Nat
    BY <1>1, LenProperties DEF RoundShapes
  <2>2. f \in Bijection(1..Len(rounds), KeysIn(rounds))
    <3>1. f \in [1..Len(rounds) -> KeysIn(rounds)] /\ DOMAIN f = 1..Len(rounds)
      BY DEF KeysIn
    <3>2. \A i, j \in 1..Len(rounds) : f[i] = f[j] => i = j
      BY <1>1 DEF RoundShapes
    <3>3. \A k \in KeysIn(rounds) : \E i \in 1..Len(rounds) : f[i] = k
      BY DEF KeysIn
    <3> HIDE DEF f
    <3> QED BY <3>1, <3>2, <3>3 DEF Bijection, Injection, Surjection, IsInjective
  <2> HIDE DEF f
  <2>3. IsFiniteSet(1..Len(rounds)) /\ Cardinality(1..Len(rounds)) = Len(rounds)
    BY <2>1, UpTo
  <2>4. ExistsBijection(1..Len(rounds), KeysIn(rounds))
    BY <2>2 DEF ExistsBijection
  <2> QED BY <2>3, <2>4, FS_Bijection
<1>3. MinerTypeOK
  BY <1>1, <1>2 DEF MinerTypeOK, MinerShapes, RoundShapes
<1>4. OneFormulaPerRound
  <2>1. ASSUME NEW a \in answered, NEW b \in answered, KeyOf(a) = KeyOf(b), KeyOf(a) \notin evicted
        PROVE  a.cnf = b.cnf
    <3>1. Kept(KeyOf(a), a.cnf) /\ Kept(KeyOf(a), b.cnf)
      BY <1>1, <2>1 DEF KeysFit
    <3>2. PICK i \in 1..Len(rounds) : rounds[i].key = KeyOf(a)
      BY <3>1 DEF Kept
    <3> QED BY <1>1, <3>1, <3>2, SameEntry
  <2> QED BY <1>1, <2>1 DEF OneFormulaPerRound, KeysFit, Working, TaskKey
<1> QED BY <1>1, <1>3, <1>4 DEF MinerInv, WitnessesFit

THEOREM MinerHonest == MinerSpec => []MinerInv
<1>1. MinerInit => MinerIInv
  BY MinerStarts
<1>2. MinerIInv /\ [MinerNext]_minerVars => MinerIInv'
  BY MinerSteps
<1>3. MinerIInv => MinerInv
  BY MinerImplied
<1> QED BY <1>1, <1>2, <1>3, PTL DEF MinerSpec

----------------------------------------------------------------------------
(* The mechanism lanes                                                      *)

LEMMA ScoresFit ==
    ASSUME NEW S, IsFiniteSet(S), NEW v \in ScoresOf(S)
    PROVE  /\ DOMAIN v \in SUBSET S /\ IsFiniteSet(DOMAIN v)
           /\ \A u \in DOMAIN v : v[u] \in Nat
           /\ SumFunctionOnSet(v, DOMAIN v) \in 0..MaxTotal
<1>1. PICK T \in SUBSET S : v \in [T -> 0..MaxTotal]
  BY DEF ScoresOf
<1>2. DOMAIN v = T /\ IsFiniteSet(T) /\ \A u \in T : v[u] \in Nat
  BY <1>1, FS_Subset
<1>3. SumFunctionOnSet(v, DOMAIN v) <= MaxTotal
  BY DEF ScoresOf
<1>4. SumFunctionOnSet(v, T) \in Nat
  BY <1>2, SumFacts
<1>5. MaxTotal \in Nat
  BY CyberGymConstants
<1> QED BY <1>1, <1>2, <1>3, <1>4, <1>5

LEMMA ScoresMade ==
    ASSUME NEW S, IsFiniteSet(S), NEW T \in SUBSET S, NEW v, v = [u \in T |-> v[u]],
           \A u \in T : v[u] \in Nat, SumFunctionOnSet(v, T) <= MaxTotal
    PROVE  v \in ScoresOf(S)
<1>0. MaxTotal \in Nat /\ IsFiniteSet(T) /\ DOMAIN v = T
  BY CyberGymConstants, FS_Subset
<1>1. ASSUME NEW u \in T PROVE v[u] \in 0..MaxTotal
  <2>1. SumFunctionOnSet(v, T) = v[u] + SumFunctionOnSet(v, T \ {u})
    BY <1>0, SumSplit
  <2>2. IsFiniteSet(T \ {u}) /\ \A y \in T \ {u} : v[y] \in Nat
    BY <1>0, FS_Subset
  <2>3. SumFunctionOnSet(v, T \ {u}) \in Nat
    BY <2>2, SumFacts
  <2> QED BY <1>0, <2>1, <2>3
<1>2. v \in [T -> 0..MaxTotal]
  BY <1>1
<1> QED BY <1>0, <1>2 DEF ScoresOf

LEMMA NoVectorFits == NoVector \in ScoresOf(LaneUids) /\ DOMAIN NoVector = {}
<1>1. NoVector = [u \in {} |-> NoVector[u]] /\ {} \in SUBSET LaneUids /\ DOMAIN NoVector = {}
  BY DEF NoVector
<1>2. SumFunctionOnSet(NoVector, {}) <= MaxTotal
  BY SumEmpty, CyberGymConstants
<1>3. \A u \in {} : NoVector[u] \in Nat
  OBVIOUS
<1> HIDE DEF NoVector
<1> QED BY <1>1, <1>2, <1>3, ScoresMade, CyberGymConstants

GraphFits == \A h \in LaneHotkeys : graph[h] # NONE => graph[h].uid \in LaneUids

\* Hotkeys that share a UID add up, so a vector by UID has the total of what is paid.
LEMMA UidVectorFits ==
    ASSUME GraphFits, NEW scores \in ScoresOf(LaneMiners)
    PROVE  uid_vector(scores) \in ScoresOf(LaneUids)
<1> DEFINE m == load_hotkey_to_uid
           paid == {h \in DOMAIN scores : scores[h] > 0 /\ h \in DOMAIN m}
           I == {m[h] : h \in paid}
           V == uid_vector(scores)
<1>1. /\ DOMAIN scores \in SUBSET LaneMiners /\ IsFiniteSet(DOMAIN scores)
      /\ \A h \in DOMAIN scores : scores[h] \in Nat
      /\ SumFunctionOnSet(scores, DOMAIN scores) \in 0..MaxTotal
  BY ScoresFit, CyberGymConstants
<1>2. \A h \in DOMAIN m : m[h] \in LaneUids
  BY DEF GraphFits, load_hotkey_to_uid
<1>3. /\ V = [u \in I |-> V[u]]
      /\ \A u \in I : V[u] = SumFunctionOnSet(scores, {h \in paid : m[h] = u})
  BY DEF uid_vector
<1>4. paid \in SUBSET DOMAIN scores /\ I \in SUBSET LaneUids
  BY <1>2
<1>5. \A h \in paid : m[h] \in I
  OBVIOUS
<1>6. IsFiniteSet(paid)
  BY <1>1, <1>4, FS_Subset
<1>7. IsFiniteSet(I)
  BY <1>6, Image
<1> HIDE DEF m, paid, I, V
<1>8. SumFunctionOnSet(V, I) = SumFunctionOnSet(scores, {h \in paid : m[h] \in I})
  <2>1. \A h \in paid : scores[h] \in Nat
    BY <1>1, <1>4
  <2> QED BY <1>3, <1>6, <1>7, <2>1, SumFibres
<1>9. {h \in paid : m[h] \in I} = paid
  BY <1>5
<1>10. SumFunctionOnSet(scores, paid) <= SumFunctionOnSet(scores, DOMAIN scores)
  BY <1>1, <1>4, SumFacts
<1>11. SumFunctionOnSet(scores, paid) \in Nat
  <2>1. \A h \in paid : scores[h] \in Nat
    BY <1>1, <1>4
  <2> QED BY <1>6, <2>1, SumFacts
<1>12. ASSUME NEW u \in I PROVE V[u] \in Nat
  <2>1. {h \in paid : m[h] = u} \in SUBSET paid
    OBVIOUS
  <2>2. IsFiniteSet({h \in paid : m[h] = u}) /\ \A h \in {k \in paid : m[k] = u} : scores[h] \in Nat
    BY <1>1, <1>4, <1>6, <2>1, FS_Subset
  <2>3. SumFunctionOnSet(scores, {h \in paid : m[h] = u}) \in Nat
    BY <2>2, SumFacts
  <2> QED BY <1>3, <2>3
<1>13. SumFunctionOnSet(V, I) <= MaxTotal
  BY <1>1, <1>8, <1>9, <1>10, <1>11, CyberGymConstants
<1> QED BY <1>3, <1>4, <1>12, <1>13, ScoresMade, CyberGymConstants DEF V

SpecFits(row) ==
    row.enabled \in BOOLEAN /\ row.fraction \in Nat /\ \A n \in 1..MaxTotal : row.fraction % n = 0

LEMMA FilteredFits ==
    ASSUME NEW t, NEW l, NEW item, item.vec \in ScoresOf(LaneUids), NEW registered,
           NEW f, f = lane_filtered(t, l, item, registered)
    PROVE  /\ DOMAIN f \in SUBSET LaneUids /\ IsFiniteSet(DOMAIN f)
           /\ \A u \in DOMAIN f : f[u] \in Nat /\ f[u] > 0
           /\ SumFunctionOnSet(f, DOMAIN f) \in 0..MaxTotal
           /\ DOMAIN f # {} => SumFunctionOnSet(f, DOMAIN f) \in 1..MaxTotal
<1> DEFINE v == item.vec
           X == {u \in DOMAIN v \cap registered : v[u] > 0 /\ u # t[l].ownerUid}
<1>1. f = [u \in X |-> v[u]]
  BY DEF lane_filtered, Restrict
<1>2. /\ DOMAIN v \in SUBSET LaneUids /\ IsFiniteSet(DOMAIN v)
      /\ \A u \in DOMAIN v : v[u] \in Nat
      /\ SumFunctionOnSet(v, DOMAIN v) \in 0..MaxTotal
  BY ScoresFit, CyberGymConstants
<1>3. X \in SUBSET DOMAIN v /\ \A u \in X : v[u] > 0
  OBVIOUS
<1> HIDE DEF v, X
<1>4. DOMAIN f = X /\ (\A u \in X : f[u] = v[u]) /\ IsFiniteSet(X)
  BY <1>1, <1>2, <1>3, FS_Subset
<1>5. \A u \in X : f[u] \in Nat /\ v[u] \in Nat /\ f[u] > 0
  BY <1>2, <1>3, <1>4
<1>6. SumFunctionOnSet(f, X) = SumFunctionOnSet(v, X) /\ SumFunctionOnSet(v, X) \in Nat
  BY <1>4, <1>5, SumFacts
<1>7. SumFunctionOnSet(v, X) <= SumFunctionOnSet(v, DOMAIN v)
  BY <1>2, <1>3, SumFacts
<1>8. MaxTotal \in Nat
  BY CyberGymConstants
<1>9. ASSUME X # {} PROVE SumFunctionOnSet(f, X) >= 1
  <2>1. PICK u : u \in X
    BY <1>9
  <2>2. SumFunctionOnSet(f, X) = f[u] + SumFunctionOnSet(f, X \ {u})
    BY <1>4, <1>5, <2>1, SumSplit
  <2>3. IsFiniteSet(X \ {u}) /\ \A y \in X \ {u} : f[y] \in Nat
    BY <1>4, <1>5, FS_Subset
  <2>4. SumFunctionOnSet(f, X \ {u}) \in Nat
    BY <2>3, SumFacts
  <2> QED BY <1>5, <2>1, <2>2, <2>4
<1> QED BY <1>2, <1>3, <1>4, <1>5, <1>6, <1>7, <1>8, <1>9

LEMMA ExactQuotient ==
    ASSUME NEW n \in Nat, NEW k \in Nat \ {0}, n % k = 0, NEW s \in Nat
    PROVE  n \div k \in Nat /\ n = k * (n \div k) /\ (n * s) \div k = (n \div k) * s
<1>1. PICK q \in Nat : q = n \div k
  BY Division
<1>2. n = k * q
  BY <1>1
<1>3. n * s = k * (q * s)
  BY <1>2
<1>4. PICK p \in Nat : p = q * s
  OBVIOUS
<1>5. (k * p) \div k = p
  OBVIOUS
<1> QED BY <1>1, <1>2, <1>3, <1>4, <1>5

\* A lane that contributes keeps exactly its fraction.
LEMMA ShareExact ==
    ASSUME NEW t, NEW l, SpecFits(t[l]), NEW item, item.vec \in ScoresOf(LaneUids), NEW registered,
           DOMAIN lane_filtered(t, l, item, registered) # {}
    PROVE  /\ DOMAIN Share(t, l, item, registered) = DOMAIN lane_filtered(t, l, item, registered)
           /\ \A u \in DOMAIN lane_filtered(t, l, item, registered) : Share(t, l, item, registered)[u] \in Nat
           /\ SumFunctionOnSet(Share(t, l, item, registered), DOMAIN lane_filtered(t, l, item, registered)) = t[l].fraction
<1>1. PICK f : f = lane_filtered(t, l, item, registered)
  OBVIOUS
<1>2. /\ IsFiniteSet(DOMAIN f)
      /\ \A u \in DOMAIN f : f[u] \in Nat
      /\ SumFunctionOnSet(f, DOMAIN f) \in 1..MaxTotal
  BY <1>1, FilteredFits
<1>3. PICK k : k = SumFunctionOnSet(f, DOMAIN f)
  OBVIOUS
<1>4. PICK n : n = t[l].fraction
  OBVIOUS
<1>5. n \in Nat /\ k \in Nat \ {0} /\ n % k = 0
  BY <1>2, <1>3, <1>4, CyberGymConstants DEF SpecFits
<1>6. PICK g : g = Share(t, l, item, registered)
  OBVIOUS
<1>7. g = [u \in DOMAIN f |-> (n * f[u]) \div k]
  BY <1>1, <1>3, <1>4, <1>6 DEF Share
<1>8. n \div k \in Nat /\ n = k * (n \div k)
  BY <1>5, ExactQuotient
<1>9. \A u \in DOMAIN f : g[u] = (n \div k) * f[u]
  BY <1>2, <1>5, <1>7, ExactQuotient
<1>10. PICK q \in Nat : q = n \div k
  BY <1>8
<1>11. \A u \in DOMAIN f : f[u] \in Nat /\ g[u] = q * f[u]
  BY <1>2, <1>9, <1>10
<1>12. SumFunctionOnSet(g, DOMAIN f) = q * k
  BY <1>2, <1>3, <1>11, SumScale
<1>13. q * k = n
  BY <1>5, <1>8, <1>10
<1>14. \A u \in DOMAIN f : g[u] \in Nat
  BY <1>11
<1>15. DOMAIN g = DOMAIN f
  BY <1>7
<1> QED BY <1>1, <1>4, <1>6, <1>12, <1>13, <1>14, <1>15

LanesFinite == IsFiniteSet(Lanes)
LEMMA ThreeLanes == LanesFinite /\ {"cybergym_v0", "posted", "sat_v2"} = Lanes
<1>1. IsFiniteSet({"sat_v2"})
  BY FS_Singleton
<1>2. IsFiniteSet({"sat_v2"} \cup {"posted"})
  BY <1>1, FS_AddElement
<1>3. IsFiniteSet(({"sat_v2"} \cup {"posted"}) \cup {"cybergym_v0"})
  BY <1>2, FS_AddElement
<1>4. ({"sat_v2"} \cup {"posted"}) \cup {"cybergym_v0"} = Lanes
  BY DEF Lanes
<1> QED BY <1>3, <1>4 DEF LanesFinite, Lanes

Fractions(t) == [l \in Lanes |-> t[l].fraction]

LEMMA ActiveFits ==
    ASSUME NEW t, \A l \in Lanes : SpecFits(t[l])
    PROVE  /\ \A S \in SUBSET Lanes : ActiveFraction(t, S) \in Nat
           /\ \A S \in SUBSET Lanes : (\A l \in S : lane_active(t, l)) =>
                 ActiveFraction(t, S) = SumFunctionOnSet(Fractions(t), S)
           /\ \A S \in SUBSET Lanes : ActiveFraction(t, S) + ActiveFraction(t, Lanes \ S) = ActiveFraction(t, Lanes)
           /\ \A S \in SUBSET Lanes : \A l \in S : lane_active(t, l) => ActiveFraction(t, S) >= t[l].fraction
           /\ ActiveFraction(t, Lanes) = SumFunctionOnSet(Fractions(t), {l \in Lanes : t[l].enabled})
<1> DEFINE F == Fractions(t)
           On(S) == {l \in S : lane_active(t, l)}
<1>1. \A l \in Lanes : F[l] \in Nat /\ F[l] = t[l].fraction
  BY DEF SpecFits, Fractions
<1>2. \A S : ActiveFraction(t, S) = SumFunctionOnSet(F, On(S))
  BY DEF ActiveFraction, Fractions
<1>3. IsFiniteSet(Lanes)
  BY ThreeLanes DEF LanesFinite
<1>4. \A S \in SUBSET Lanes : On(S) \in SUBSET Lanes
  OBVIOUS
<1>5. ASSUME NEW S \in SUBSET Lanes
      PROVE  IsFiniteSet(S) /\ (\A l \in S : F[l] \in Nat) /\ SumFunctionOnSet(F, S) \in Nat
  <2>1. IsFiniteSet(S) /\ \A l \in S : F[l] \in Nat
    BY <1>1, <1>3, FS_Subset
  <2> HIDE DEF F
  <2> QED BY <2>1, SumFacts
<1>6. \A l \in Lanes : lane_active(t, l) <=> (t[l].enabled /\ F[l] > 0)
  BY <1>1 DEF lane_active
<1> HIDE DEF F
<1>7. ASSUME NEW S \in SUBSET Lanes PROVE ActiveFraction(t, S) \in Nat
  BY <1>2, <1>4, <1>5
<1>8. ASSUME NEW S \in SUBSET Lanes, \A l \in S : lane_active(t, l)
      PROVE  ActiveFraction(t, S) = SumFunctionOnSet(F, S)
  <2>1. On(S) = S
    BY <1>8
  <2> QED BY <1>2, <2>1
<1>9. ASSUME NEW S \in SUBSET Lanes
      PROVE  ActiveFraction(t, S) + ActiveFraction(t, Lanes \ S) = ActiveFraction(t, Lanes)
  <2>1. On(S) \cup On(Lanes \ S) = On(Lanes) /\ On(S) \cap On(Lanes \ S) = {} /\ On(Lanes) \in SUBSET Lanes
    OBVIOUS
  <2>2. IsFiniteSet(On(Lanes)) /\ \A l \in On(Lanes) : F[l] \in Nat
    BY <1>5, <2>1
  <2>3. PICK X, Y, Z : X = On(Lanes) /\ Y = On(S) /\ Z = On(Lanes \ S)
    OBVIOUS
  <2> HIDE DEF On
  <2>4. IsFiniteSet(X) /\ (\A l \in X : F[l] \in Nat) /\ Y \cup Z = X /\ Y \cap Z = {}
    BY <2>1, <2>2, <2>3
  <2>5. SumFunctionOnSet(F, X) = SumFunctionOnSet(F, Y) + SumFunctionOnSet(F, Z)
    BY <2>4, SumDisjoint
  <2> QED BY <1>2, <2>3, <2>5
<1>10. ASSUME NEW S \in SUBSET Lanes, NEW l \in S, lane_active(t, l) PROVE ActiveFraction(t, S) >= F[l]
  <2>1. On(S) \in SUBSET Lanes /\ l \in On(S)
    BY <1>10
  <2> HIDE DEF On
  <2>2. SumFunctionOnSet(F, On(S)) = F[l] + SumFunctionOnSet(F, On(S) \ {l})
    BY <1>5, <2>1, SumSplit
  <2>3. On(S) \ {l} \in SUBSET Lanes
    BY <2>1
  <2>4. SumFunctionOnSet(F, On(S) \ {l}) \in Nat /\ F[l] \in Nat
    BY <1>1, <1>5, <2>3
  <2> QED BY <1>2, <2>2, <2>4
<1>11. ActiveFraction(t, Lanes) = SumFunctionOnSet(F, {l \in Lanes : t[l].enabled})
  <2> DEFINE E == {l \in Lanes : t[l].enabled}
             A == On(Lanes)
             Z == E \ A
  <2>1. A \cup Z = E /\ A \cap Z = {} /\ E \in SUBSET Lanes /\ Z \in SUBSET Lanes /\ A \in SUBSET Lanes
    BY <1>6
  <2>2. ASSUME NEW l \in Z PROVE F[l] = 0
    <3>1. l \in Lanes /\ t[l].enabled /\ ~lane_active(t, l)
      OBVIOUS
    <3>2. F[l] \in Nat /\ ~(F[l] > 0)
      BY <1>1, <1>6, <3>1
    <3> HIDE DEF Z
    <3> QED BY <3>2
  <2> HIDE DEF E, A, Z
  <2>3. IsFiniteSet(E) /\ (\A l \in E : F[l] \in Nat) /\ IsFiniteSet(Z) /\ (\A l \in Z : F[l] \in Nat)
        /\ SumFunctionOnSet(F, A) \in Nat
    BY <1>5, <2>1
  <2>4. SumFunctionOnSet(F, E) = SumFunctionOnSet(F, A) + SumFunctionOnSet(F, Z)
    BY <2>1, <2>3, SumDisjoint
  <2>5. SumFunctionOnSet(F, Z) = 0
    BY <2>2, <2>3, SumFacts
  <2> QED BY <1>2, <2>3, <2>4, <2>5 DEF E, A
<1> QED BY <1>1, <1>7, <1>8, <1>9, <1>10, <1>11 DEF F

EntriesFit(entries) == \A l \in Lanes : entries[l] # NONE => entries[l].vec \in ScoresOf(LaneUids)

Paying(t, entries, registered, maxAge) ==
    {l \in Lanes : lane_active(t, l) /\ lane_usable(t, l, entries[l], registered, maxAge)}

LEMMA ComposeExact ==
    ASSUME NEW t, NEW entries, NEW registered, NEW maxAge, NEW c, c = compose(t, entries, registered, maxAge),
           \A l \in Lanes : SpecFits(t[l]), EntriesFit(entries)
    PROVE  /\ c.paying = Paying(t, entries, registered, maxAge)
           /\ c.forfeited = ActiveFraction(t, Lanes \ c.paying)
           /\ DOMAIN c.weights \in SUBSET LaneUids /\ IsFiniteSet(DOMAIN c.weights)
           /\ \A u \in DOMAIN c.weights : c.weights[u] \in Nat
           /\ SumFunctionOnSet(c.weights, DOMAIN c.weights) = ActiveFraction(t, c.paying)
<1> DEFINE P == Paying(t, entries, registered, maxAge)
           D == [l \in Lanes |-> DOMAIN lane_filtered(t, l, entries[l], registered)]
           rows == [l \in Lanes |-> Share(t, l, entries[l], registered)]
           U == UNION {D[l] : l \in P}
           A == c.weights
           B == Fractions(t)
<1>1. P \in SUBSET Lanes /\ \A l \in P : lane_active(t, l) /\ entries[l] # NONE /\ D[l] # {}
  BY DEF Paying, lane_usable
<1>2. c.paying = P /\ c.forfeited = ActiveFraction(t, Lanes \ P)
  BY DEF compose, Paying
<1>3. A = [u \in U |-> SumFunctionOnSet([l \in {k \in P : u \in D[k]} |-> rows[l][u]], {k \in P : u \in D[k]})]
  <2>1. U = UNION {DOMAIN lane_filtered(t, l, entries[l], registered) : l \in P}
    BY <1>1
  <2>2. \A u : {k \in P : u \in D[k]} = {k \in P : u \in DOMAIN lane_filtered(t, k, entries[k], registered)}
    BY <1>1
  <2>3. \A u : [l \in {k \in P : u \in D[k]} |-> rows[l][u]]
              = [l \in {k \in P : u \in DOMAIN lane_filtered(t, k, entries[k], registered)} |-> Share(t, l, entries[l], registered)[u]]
    BY <1>1, <2>2
  <2>4. A = [u \in UNION {DOMAIN lane_filtered(t, l, entries[l], registered) : l \in P} |->
               SumFunctionOnSet([l \in {k \in P : u \in DOMAIN lane_filtered(t, k, entries[k], registered)} |->
                                      Share(t, l, entries[l], registered)[u]],
                                {k \in P : u \in DOMAIN lane_filtered(t, k, entries[k], registered)})]
    BY DEF compose, Paying
  <2> HIDE DEF P, D, U, rows, A
  <2> QED BY <2>1, <2>2, <2>3, <2>4
<1>4. ASSUME NEW l \in P
      PROVE  /\ D[l] \in SUBSET U /\ D[l] \in SUBSET LaneUids
             /\ \A u \in D[l] : rows[l][u] \in Nat
             /\ B[l] = SumFunctionOnSet(rows[l], D[l])
  <2>1. entries[l].vec \in ScoresOf(LaneUids) /\ SpecFits(t[l]) /\ l \in Lanes
    BY <1>1 DEF EntriesFit
  <2>2. DOMAIN lane_filtered(t, l, entries[l], registered) # {}
    BY <1>1, <2>1
  <2>3. /\ \A u \in DOMAIN lane_filtered(t, l, entries[l], registered) : Share(t, l, entries[l], registered)[u] \in Nat
        /\ SumFunctionOnSet(Share(t, l, entries[l], registered), DOMAIN lane_filtered(t, l, entries[l], registered)) = t[l].fraction
    BY <2>1, <2>2, ShareExact
  <2>4. DOMAIN lane_filtered(t, l, entries[l], registered) \in SUBSET LaneUids
    BY <2>1, FilteredFits
  <2>5. /\ D[l] = DOMAIN lane_filtered(t, l, entries[l], registered)
        /\ rows[l] = Share(t, l, entries[l], registered)
        /\ B[l] = t[l].fraction
    BY <2>1 DEF Fractions
  <2>6. D[l] \in SUBSET U
    OBVIOUS
  <2> HIDE DEF D, rows, B, U, P
  <2> QED BY <2>3, <2>4, <2>5, <2>6
<1>5. IsFiniteSet(P)
  BY <1>1, ThreeLanes, FS_Subset DEF LanesFinite
<1>6. U \in SUBSET LaneUids
  BY <1>4
<1>7. IsFiniteSet(U)
  BY <1>6, CyberGymConstants, FS_Subset
<1>8. \A u \in U : A[u] = SumFunctionOnSet(Column(rows, D, P, u), Having(D, P, u))
  <2> HIDE DEF P, D, U, rows, A
  <2> QED BY <1>3 DEF Column, Having
<1>9. DOMAIN A = U
  <2> HIDE DEF P, D, U, rows, A
  <2> QED BY <1>3
<1> HIDE DEF P, D, rows, U, A, B
<1>10. SumFunctionOnSet(A, U) = SumFunctionOnSet(B, P)
  <2>1. \A l \in P : D[l] \in SUBSET U /\ \A u \in D[l] : rows[l][u] \in Nat
    BY <1>4
  <2>2. \A l \in P : B[l] = SumFunctionOnSet(rows[l], D[l])
    BY <1>4
  <2>3. Tabled(P, U, D, rows, A, B)
    BY <1>8, <2>1, <2>2 DEF Tabled
  <2> QED BY <1>5, <1>7, <2>3, SumExchange
<1>11. ASSUME NEW u \in U PROVE A[u] \in Nat
  <2> DEFINE K == Having(D, P, u)
  <2>1. IsFiniteSet(K)
    BY <1>5, FS_Subset DEF Having
  <2>2. \A l \in K : Column(rows, D, P, u)[l] \in Nat
    BY <1>4 DEF Column, Having
  <2>3. SumFunctionOnSet(Column(rows, D, P, u), K) \in Nat
    <3> HIDE DEF K
    <3> QED BY <2>1, <2>2, SumFacts
  <2> QED BY <1>8, <2>3
<1>12. ActiveFraction(t, P) = SumFunctionOnSet(B, P)
  BY <1>1, ActiveFits DEF B
<1> QED BY <1>2, <1>6, <1>7, <1>9, <1>10, <1>11, <1>12 DEF A, P

\* What is forfeited, added to the burn UID.
LEMMA BurnAdded ==
    ASSUME NEW D, IsFiniteSet(D), NEW w, \A u \in D : w[u] \in Nat, NEW b, NEW x \in Nat,
           NEW y, y = [u \in D \cup {b} |-> (IF u \in D THEN w[u] ELSE 0) + (IF u = b THEN x ELSE 0)]
    PROVE  /\ SumFunctionOnSet(y, DOMAIN y) = SumFunctionOnSet(w, D) + x
           /\ b \in DOMAIN y /\ y[b] >= x
<1> DEFINE E == D \cup {b}
           f == [u \in E |-> IF u \in D THEN w[u] ELSE 0]
           g == [u \in E |-> IF u = b THEN x ELSE 0]
<1>1. IsFiniteSet(E)
  BY FS_AddElement
<1>2. \A u \in E : f[u] \in Nat /\ g[u] \in Nat /\ y[u] = f[u] + g[u]
  OBVIOUS
<1>3. DOMAIN y = E /\ b \in E /\ y[b] >= x
  OBVIOUS
<1>4. /\ \A u \in D : f[u] = w[u]
      /\ \A u \in E \ D : f[u] = 0
      /\ g[b] = x /\ \A u \in E \ {b} : g[u] = 0
      /\ D \cup (E \ D) = E /\ D \cap (E \ D) = {}
  OBVIOUS
<1> HIDE DEF E, f, g
<1>5. SumFunctionOnSet(y, E) = SumFunctionOnSet(f, E) + SumFunctionOnSet(g, E)
  BY <1>1, <1>2, SumAdd
<1>6. SumFunctionOnSet(f, E) = SumFunctionOnSet(w, D)
  <2>1. SumFunctionOnSet(f, E) = SumFunctionOnSet(f, D) + SumFunctionOnSet(f, E \ D)
    BY <1>1, <1>2, <1>4, SumDisjoint
  <2>2. IsFiniteSet(E \ D) /\ \A u \in E \ D : f[u] \in Nat
    BY <1>1, <1>2, FS_Subset
  <2>3. SumFunctionOnSet(f, E \ D) = 0
    BY <1>4, <2>2, SumFacts
  <2>4. SumFunctionOnSet(f, D) = SumFunctionOnSet(w, D) /\ SumFunctionOnSet(w, D) \in Nat
    BY <1>4, SumFacts
  <2> QED BY <2>1, <2>3, <2>4
<1>7. SumFunctionOnSet(g, E) = x
  <2>1. SumFunctionOnSet(g, E) = g[b] + SumFunctionOnSet(g, E \ {b})
    <3>1. b \in E /\ \A u \in E : g[u] \in Nat
      BY <1>2, <1>3
    <3> QED BY <1>1, <3>1, SumSplit
  <2>2. IsFiniteSet(E \ {b}) /\ \A u \in E \ {b} : g[u] \in Nat
    BY <1>1, <1>2, FS_Subset
  <2>3. SumFunctionOnSet(g, E \ {b}) = 0
    BY <1>4, <2>2, SumFacts
  <2> QED BY <1>4, <2>1, <2>3
<1> QED BY <1>3, <1>5, <1>6, <1>7

DocFits(d) == DOMAIN d = {"epoch", "at", "complete", "scores"} /\ d.complete
RowFits(row) ==
    /\ DOMAIN row = {"wire", "json", "head", "rows", "sig"}
    /\ DocFits(row.json) /\ (row.wire # NONE => DocFits(row.wire))

\* What the bridge may pay on: a complete document of the producer, of an age
\* the adapter allowed when the cycle began.
ProvenDoc(d, now) == d \in ProducerDocs /\ d.complete /\ now - d.at \in -FutureSkew..LaneMaxAge
EntryFits(e, now) == e.vec \in ScoresOf(LaneUids) /\ (DOMAIN e.vec # {} => ProvenDoc(e.doc, now))

WorkerFits(rec) ==
    /\ DOMAIN rec = {"pc", "kind", "now", "specs", "row", "rows", "entry"}
    /\ rec.pc # "idle" =>
          /\ rec.now \in Nat
          /\ \A l \in Lanes : SpecFits(rec.specs[l])
          /\ rec.kind = "allocate" => lane_active(rec.specs, "cybergym_v0")
    /\ rec.pc = "header" => rec.entry = NONE
    /\ rec.pc = "rows" => RowFits(rec.row) /\ report_fresh(rec.row, rec.now)
    /\ rec.pc = "map" =>
          ProvenDoc(raw_body(rec.row), rec.now) /\ rec.rows = raw_body(rec.row).scores
    /\ rec.pc = "put" /\ (rec.entry # NONE \/ rec.kind = "allocate") => EntryFits(rec.entry, rec.now)

ReportsFit == DOMAIN reports = Epochs /\ \A e \in Epochs : reports[e] # NONE => RowFits(reports[e])
SpecsFit == DOMAIN specs = Lanes /\ \A l \in Lanes : SpecFits(specs[l])
VectorsFit ==
    DOMAIN laneScores = Lanes /\ \A l \in Lanes : laneScores[l] # NONE => laneScores[l].vec \in ScoresOf(LaneUids)
WorkersFit == DOMAIN worker = LaneWorkers /\ \A w \in LaneWorkers : WorkerFits(worker[w])
AllocationFits == DOMAIN allocation.weights \subseteq LaneUids /\ UnprovenShareBurns /\ PaidIsAuthenticated

\* Each part is about one variable.
LaneIInv ==
    /\ laneNow \in 1..MaxLaneTime /\ GraphFits /\ ReportsFit
    /\ SpecsFit /\ VectorsFit /\ WorkersFit /\ AllocationFits

LEMMA LanesStart == MechInit => LaneIInv
<1> SUFFICES ASSUME MechInit PROVE LaneIInv
  OBVIOUS
<1> USE DEF MechInit, CyberInit
<1>1. laneNow \in 1..MaxLaneTime
  BY CyberGymConstants
<1>2. GraphFits
  <2>1. PICK uidOf \in UidMaps :
           graph = [h \in LaneHotkeys |-> IF h \in DOMAIN uidOf THEN [uid |-> uidOf[h], at |-> 1] ELSE NONE]
    OBVIOUS
  <2>2. \A h \in DOMAIN uidOf : uidOf[h] \in LaneUids
    BY CyberGymConstants
  <2> QED BY <2>1, <2>2 DEF GraphFits
<1>3. ReportsFit
  BY DEF ReportsFit
<1>4. SpecsFit
  BY MechanismConstants DEF SpecsFit, SpecFits
<1>5. VectorsFit
  BY DEF VectorsFit
<1>6. WorkersFit
  BY DEF WorkersFit, WorkerFits, LaneIdle
<1>7. AllocationFits
  <2>1. allocation.weights = NoVector /\ allocation.lane = NoVector /\ allocation.status = "none"
    BY DEF NoAllocation
  <2> QED BY <2>1, NoVectorFits DEF AllocationFits, UnprovenShareBurns, PaidIsAuthenticated
<1> QED BY <1>1, <1>2, <1>3, <1>4, <1>5, <1>6, <1>7 DEF LaneIInv

----------------------------------------------------------------------------
(* The rows of the database                                                 *)

LEMMA LastStored ==
    ASSUME StoredEpochs # {} PROVE EpochMax(StoredEpochs) \in StoredEpochs
<1>1. StoredEpochs \in SUBSET Nat /\ StoredEpochs \in SUBSET Epochs
  BY CyberGymConstants DEF StoredEpochs, Epochs
<1>2. PICK f : f = [x \in ProducerDocs |-> x.epoch]
  OBVIOUS
<1>3. Epochs = {f[x] : x \in ProducerDocs}
  BY <1>2 DEF Epochs
<1>4. IsFiniteSet(Epochs)
  BY <1>3, CyberGymConstants, Image
<1>5. IsFiniteSet(StoredEpochs)
  BY <1>1, <1>4, FS_Subset
<1>6. \E m \in StoredEpochs : \A y \in StoredEpochs : y <= m
  BY <1>1, <1>5, GreatestOf
<1> QED BY <1>6 DEF EpochMax

LEMMA ReportStored ==
    ASSUME ReportsFit, NEW d \in ProducerDocs, post_cybergym_scores(d) PROVE ReportsFit'
<1>1. DOMAIN d = {"epoch", "at", "complete", "scores"}
  BY CyberGymConstants
<1>2. d.complete
  BY DEF post_cybergym_scores, validate_report
<1>3. DocFits(d)
  BY <1>1, <1>2 DEF DocFits
<1>4. d.epoch \in Epochs
  BY DEF Epochs
<1>5. CASE reports' = [reports EXCEPT ![d.epoch] = bind_authenticated_body(d)]
  <2>1. RowFits(bind_authenticated_body(d))
    BY <1>3 DEF RowFits, bind_authenticated_body
  <2> QED BY <1>4, <1>5, <2>1 DEF ReportsFit
<1>6. CASE idempotent_retry(d)
  <2>1. CASE reports' = reports
    BY <2>1 DEF ReportsFit
  <2>2. CASE /\ reports[d.epoch].wire = NONE
             /\ reports' = [reports EXCEPT ![d.epoch].wire = d]
    <3>1. reports[d.epoch] # NONE
      <4>1. d.epoch = EpochMax(StoredEpochs) /\ StoredEpochs # {}
        BY <1>6 DEF idempotent_retry
      <4> QED BY <4>1, LastStored DEF StoredEpochs
    <3>2. RowFits(reports[d.epoch])
      BY <1>4, <3>1 DEF ReportsFit
    <3>3. RowFits([reports[d.epoch] EXCEPT !.wire = d])
      BY <1>3, <3>2 DEF RowFits
    <3>4. reports' = [reports EXCEPT ![d.epoch] = [reports[d.epoch] EXCEPT !.wire = d]]
      BY <2>2, <1>4 DEF ReportsFit
    <3> QED BY <1>4, <3>3, <3>4 DEF ReportsFit
  <2> QED BY <1>6, <2>1, <2>2 DEF idempotent_retry
<1> QED BY <1>5, <1>6 DEF post_cybergym_scores, store_report

LEMMA RowEdited ==
    ASSUME ReportsFit, NEW e \in Epochs, EditRow(e) PROVE ReportsFit'
<1>1. PICK edited : /\ reports' = [reports EXCEPT ![e] = edited]
                    /\ edited \in {[reports[e] EXCEPT !.head = Forged(@)], [reports[e] EXCEPT !.json = Forged(@)],
                          [reports[e] EXCEPT !.rows = Forged(reports[e].json).scores],
                          [reports[e] EXCEPT !.wire = NONE],
                          bind_authenticated_body(Forged(reports[e].json))}
  BY DEF EditRow
<1>2. RowFits(reports[e])
  BY DEF EditRow, ReportsFit
<1>3. DocFits(Forged(reports[e].json))
  <2>1. PICK d : d = reports[e].json
    OBVIOUS
  <2>2. DOMAIN d = {"epoch", "at", "complete", "scores"} /\ d.complete
    BY <1>2, <2>1 DEF RowFits, DocFits
  <2>3. PICK twos : twos = [h \in LaneMiners |-> 2]
    OBVIOUS
  <2>4. Forged(d) = [d EXCEPT !.at = laneNow, !.scores = twos]
    BY <2>3 DEF Forged
  <2>6. DocFits(Forged(d))
    BY <2>2, <2>4 DEF DocFits
  <2> QED BY <2>1, <2>6
<1>4. RowFits(edited)
  <2>1. PICK row : row = reports[e]
    OBVIOUS
  <2>2. PICK forged, other, scores : /\ forged = Forged(row.json) /\ other = Forged(row.head)
                                     /\ scores = Forged(row.json).scores
    OBVIOUS
  <2>3. edited \in {[row EXCEPT !.head = other], [row EXCEPT !.json = forged], [row EXCEPT !.rows = scores],
                    [row EXCEPT !.wire = NONE], bind_authenticated_body(forged)}
    BY <1>1, <2>1, <2>2
  <2>4. RowFits(row) /\ DocFits(forged)
    BY <1>2, <1>3, <2>1, <2>2
  <2>5. CASE edited = [row EXCEPT !.head = other]
    BY <2>4, <2>5 DEF RowFits
  <2>6. CASE edited = [row EXCEPT !.json = forged]
    BY <2>4, <2>6 DEF RowFits
  <2>7. CASE edited = [row EXCEPT !.rows = scores]
    BY <2>4, <2>7 DEF RowFits
  <2>8. CASE edited = [row EXCEPT !.wire = NONE]
    BY <2>4, <2>8 DEF RowFits
  <2>9. CASE edited = bind_authenticated_body(forged)
    BY <2>4, <2>9 DEF RowFits, bind_authenticated_body
  <2> QED BY <2>3, <2>5, <2>6, <2>7, <2>8, <2>9
<1> QED BY <1>1, <1>4 DEF ReportsFit

LEMMA RowsPolled ==
    ASSUME GraphFits, NEW uidOf \in UidMaps, Poll(uidOf) PROVE GraphFits'
<1>1. \A h \in DOMAIN uidOf : uidOf[h] \in LaneUids
  BY CyberGymConstants
<1>2. graph' = [h \in LaneHotkeys |->
                   IF h \in DOMAIN uidOf THEN [uid |-> uidOf[h], at |-> laneNow] ELSE graph[h]]
  BY DEF Poll
<1> QED BY <1>1, <1>2 DEF GraphFits

----------------------------------------------------------------------------
(* The lanes' vectors and the workers                                       *)

LEMMA VectorsPosted ==
    ASSUME VectorsFit, NEW p \in LanePosts, post_scores(p) PROVE VectorsFit'
<1>1. p.vec \in ScoresOf(LaneUids)
  BY MechanismConstants
<1>2. laneScores' = [laneScores EXCEPT !["posted"] = [vec |-> p.vec, at |-> p.at, sigOk |-> TRUE, doc |-> NONE]]
  BY DEF post_scores, score_entry
<1> QED BY <1>1, <1>2 DEF VectorsFit

LEMMA VectorsPut ==
    ASSUME VectorsFit, GraphFits, WorkersFit, NEW w \in LaneWorkers, PutScores(w) PROVE VectorsFit'
<1>1. PICK e : e = worker[w].entry
  OBVIOUS
<1>2. e # NONE => e.vec \in ScoresOf(LaneUids)
  BY <1>1 DEF PutScores, WorkerIs, WorkersFit, WorkerFits, EntryFits
<1>3. PICK s : s = sat_mechanism_scores
  OBVIOUS
<1>4. s.vec \in ScoresOf(LaneUids)
  BY <1>3, UidVectorFits, MechanismConstants DEF sat_mechanism_scores, score_entry
<1>5. laneScores' = [laneScores EXCEPT !["cybergym_v0"] = IF e = NONE THEN @ ELSE e,
                       !["sat_v2"] = IF specs["sat_v2"].enabled THEN s ELSE @]
  BY <1>1, <1>3 DEF PutScores, refresh_artifact_scores
<1> QED BY <1>2, <1>4, <1>5 DEF VectorsFit

LEMMA WorkerSet ==
    ASSUME WorkersFit, NEW w \in LaneWorkers, NEW rec, WorkerFits(rec), SetWorker(w, rec) PROVE WorkersFit'
BY DEF WorkersFit, SetWorker

LEMMA IdleFits == WorkerFits(LaneIdle)
BY DEF WorkerFits, LaneIdle

LEMMA CycleStarted ==
    ASSUME LaneIInv, NEW w \in LaneWorkers, NEW kind, StartCycle(w, kind) PROVE WorkersFit' /\ AllocationFits'
<1>1. CASE kind = "allocate" /\ ~lane_active(specs, "cybergym_v0")
  <2>1. worker' = worker /\ allocation' = [NoAllocation EXCEPT !.status = "disabled"]
    BY <1>1 DEF StartCycle
  <2>2. allocation'.weights = NoVector /\ allocation'.lane = NoVector /\ allocation'.status = "disabled"
    BY <2>1 DEF NoAllocation
  <2> QED BY <2>1, <2>2, NoVectorFits DEF LaneIInv, WorkersFit, AllocationFits, UnprovenShareBurns, PaidIsAuthenticated
<1>2. CASE ~(kind = "allocate" /\ ~lane_active(specs, "cybergym_v0"))
  <2>1. PICK p : p = IF specs["cybergym_v0"].enabled THEN "header" ELSE "put"
    OBVIOUS
  <2>2. PICK rec : rec = [LaneIdle EXCEPT !.kind = kind, !.now = laneNow, !.specs = specs, !.pc = p]
    OBVIOUS
  <2>a. /\ DOMAIN rec = {"pc", "kind", "now", "specs", "row", "rows", "entry"}
        /\ rec.pc = p /\ rec.kind = kind /\ rec.now = laneNow /\ rec.specs = specs /\ rec.entry = NONE
    BY <2>2 DEF LaneIdle
  <2>3. SetWorker(w, rec) /\ allocation' = allocation
    BY <1>2, <2>1, <2>2 DEF StartCycle
  <2>4. laneNow \in Nat /\ \A l \in Lanes : SpecFits(specs[l])
    BY CyberGymConstants DEF LaneIInv, SpecsFit
  <2>5. kind = "allocate" => p = "header"
    BY <1>2, <2>1 DEF lane_active
  <2>6. WorkerFits(rec)
    BY <1>2, <2>1, <2>a, <2>4, <2>5 DEF WorkerFits
  <2> QED BY <2>3, <2>6, WorkerSet DEF LaneIInv, AllocationFits, UnprovenShareBurns, PaidIsAuthenticated
<1> QED BY <1>1, <1>2

LEMMA StoredFits ==
    ASSUME ReportsFit, latest_complete_report # NONE PROVE RowFits(latest_complete_report)
<1>1. StoredEpochs # {} /\ latest_complete_report = reports[EpochMax(StoredEpochs)]
  BY DEF latest_complete_report
<1>2. EpochMax(StoredEpochs) \in Epochs
  BY <1>1, LastStored DEF StoredEpochs
<1> QED BY <1>1, <1>2 DEF ReportsFit
LEMMA EmptyFits ==
    ASSUME NEW rec, WorkerFits(rec), rec.pc # "idle", NEW at, NEW sig, NEW doc
    PROVE  WorkerFits([rec EXCEPT !.pc = "put", !.entry = score_entry(NoVector, at, sig, doc)])
<1>1. PICK e : e = score_entry(NoVector, at, sig, doc)
  OBVIOUS
<1>2. e.vec = NoVector
  BY <1>1 DEF score_entry
<1>3. EntryFits(e, rec.now)
  BY <1>2, NoVectorFits DEF EntryFits
<1>4. PICK new : new = [rec EXCEPT !.pc = "put", !.entry = e]
  OBVIOUS
<1>5. /\ DOMAIN new = {"pc", "kind", "now", "specs", "row", "rows", "entry"}
      /\ new.pc = "put" /\ new.kind = rec.kind /\ new.now = rec.now /\ new.specs = rec.specs /\ new.entry = e
  BY <1>4 DEF WorkerFits
<1>6. WorkerFits(new)
  BY <1>3, <1>5 DEF WorkerFits
<1> QED BY <1>1, <1>4, <1>6

LEMMA HeaderRead ==
    ASSUME ReportsFit, WorkersFit, NEW w \in LaneWorkers, ReadHeader(w) PROVE WorkersFit'
<1>1. PICK rec : rec = worker[w]
  OBVIOUS
<1>2. WorkerFits(rec) /\ rec.pc = "header"
  BY <1>1 DEF WorkersFit, ReadHeader, WorkerIs
<1>3. PICK row : row = latest_complete_report
  OBVIOUS
<1>4. \/ \E at, sig : SetWorker(w, [rec EXCEPT !.pc = "put", !.entry = score_entry(NoVector, at, sig, NONE)])
      \/ SetWorker(w, LaneIdle)
      \/ rec.kind # "allocate" /\ SetWorker(w, [rec EXCEPT !.pc = "put"])
      \/ row # NONE /\ report_fresh(row, rec.now) /\ SetWorker(w, [rec EXCEPT !.pc = "rows", !.row = row])
  <2>1. CASE row = NONE
    <3>1. SetWorker(w, [rec EXCEPT !.pc = "put", !.entry = score_entry(NoVector, 0, FALSE, NONE)])
      BY <1>1, <1>3, <2>1 DEF ReadHeader
    <3> QED BY <3>1
  <2>2. CASE row # NONE /\ ~require_closed_epoch(row)
    BY <1>1, <1>3, <2>2 DEF ReadHeader
  <2>3. CASE row # NONE /\ require_closed_epoch(row) /\ ~report_fresh(row, rec.now)
    <3>1. SetWorker(w, [rec EXCEPT !.pc = "put", !.entry = score_entry(NoVector, row.head.at, TRUE, NONE)])
      BY <1>1, <1>3, <2>3 DEF ReadHeader
    <3> QED BY <3>1
  <2>4. CASE row # NONE /\ require_closed_epoch(row) /\ report_fresh(row, rec.now)
    BY <1>1, <1>3, <2>4 DEF ReadHeader
  <2> QED BY <2>1, <2>2, <2>3, <2>4
<1>5. ASSUME NEW at, NEW sig, SetWorker(w, [rec EXCEPT !.pc = "put", !.entry = score_entry(NoVector, at, sig, NONE)])
      PROVE  WorkersFit'
  <2>1. WorkerFits([rec EXCEPT !.pc = "put", !.entry = score_entry(NoVector, at, sig, NONE)])
    BY <1>2, EmptyFits
  <2> QED BY <1>5, <2>1, WorkerSet
<1>6. CASE rec.kind # "allocate" /\ SetWorker(w, [rec EXCEPT !.pc = "put"])
  <2>1. PICK new : new = [rec EXCEPT !.pc = "put"]
    OBVIOUS
  <2>2. /\ DOMAIN new = {"pc", "kind", "now", "specs", "row", "rows", "entry"}
        /\ new.pc = "put" /\ new.kind = rec.kind /\ new.now = rec.now /\ new.specs = rec.specs /\ new.entry = NONE
    BY <1>2, <2>1 DEF WorkerFits
  <2>3. WorkerFits(new)
    BY <1>2, <1>6, <2>2 DEF WorkerFits
  <2> QED BY <1>6, <2>1, <2>3, WorkerSet
<1>7. CASE row # NONE /\ report_fresh(row, rec.now) /\ SetWorker(w, [rec EXCEPT !.pc = "rows", !.row = row])
  <2>1. RowFits(row)
    BY <1>3, <1>7, StoredFits
  <2>2. PICK new : new = [rec EXCEPT !.pc = "rows", !.row = row]
    OBVIOUS
  <2>3. /\ DOMAIN new = {"pc", "kind", "now", "specs", "row", "rows", "entry"}
        /\ new.pc = "rows" /\ new.kind = rec.kind /\ new.now = rec.now /\ new.specs = rec.specs /\ new.row = row
    BY <1>2, <2>2 DEF WorkerFits
  <2>4. WorkerFits(new)
    BY <1>2, <1>7, <2>1, <2>3 DEF WorkerFits
  <2> QED BY <1>7, <2>2, <2>4, WorkerSet
<1> QED BY <1>4, <1>5, <1>6, <1>7, IdleFits, WorkerSet

LEMMA RowsRead ==
    ASSUME WorkersFit, NEW w \in LaneWorkers, ReadRows(w) PROVE WorkersFit'
<1>1. PICK rec : rec = worker[w]
  OBVIOUS
<1>2. WorkerFits(rec) /\ rec.pc = "rows"
  BY <1>1 DEF WorkersFit, ReadRows, WorkerIs
<1>3. \/ SetWorker(w, [rec EXCEPT !.pc = "put", !.entry = score_entry(NoVector, rec.row.head.at, FALSE, NONE)])
      \/ \E rows : verify_stored_report(rec.row, rows) /\ SetWorker(w, [rec EXCEPT !.pc = "map", !.rows = rows])
  <2>1. PICK rows : rows = IF reports[rec.row.head.epoch] = NONE THEN NoLaneScores ELSE reports[rec.row.head.epoch].rows
    OBVIOUS
  <2>2. SetWorker(w, IF verify_stored_report(rec.row, rows)
                     THEN [rec EXCEPT !.pc = "map", !.rows = rows]
                     ELSE [rec EXCEPT !.pc = "put", !.entry = score_entry(NoVector, rec.row.head.at, FALSE, NONE)])
    BY <1>1, <2>1 DEF ReadRows
  <2>3. CASE verify_stored_report(rec.row, rows)
    BY <2>2, <2>3
  <2>4. CASE ~verify_stored_report(rec.row, rows)
    BY <2>2, <2>4
  <2> QED BY <2>3, <2>4
<1>4. CASE SetWorker(w, [rec EXCEPT !.pc = "put", !.entry = score_entry(NoVector, rec.row.head.at, FALSE, NONE)])
  <2>1. WorkerFits([rec EXCEPT !.pc = "put", !.entry = score_entry(NoVector, rec.row.head.at, FALSE, NONE)])
    BY <1>2, EmptyFits
  <2> QED BY <1>4, <2>1, WorkerSet
<1>5. ASSUME NEW rows, verify_stored_report(rec.row, rows), SetWorker(w, [rec EXCEPT !.pc = "map", !.rows = rows])
      PROVE  WorkersFit'
  <2>1. PICK d : d = raw_body(rec.row)
    OBVIOUS
  <2>2. d \in ProducerDocs /\ rec.row.head = d /\ rows = d.scores
    BY <1>5, <2>1 DEF verify_stored_report, verify_body_hmac
  <2>3. d.complete
    BY <1>2, <2>1 DEF WorkerFits, RowFits, DocFits, raw_body
  <2>4. d.at - rec.now <= FutureSkew /\ rec.now - d.at <= LaneMaxAge
    BY <1>2, <2>2 DEF WorkerFits, report_fresh
  <2>5. d.at \in Int /\ rec.now \in Nat /\ FutureSkew \in Nat /\ LaneMaxAge \in Nat
    BY <1>2, <2>2, CyberGymConstants DEF WorkerFits
  <2>6. ProvenDoc(d, rec.now)
    BY <2>2, <2>3, <2>4, <2>5 DEF ProvenDoc
  <2>7. PICK new : new = [rec EXCEPT !.pc = "map", !.rows = rows]
    OBVIOUS
  <2>8. /\ DOMAIN new = {"pc", "kind", "now", "specs", "row", "rows", "entry"}
        /\ new.pc = "map" /\ new.kind = rec.kind /\ new.now = rec.now /\ new.specs = rec.specs
        /\ new.row = rec.row /\ new.rows = rows
    BY <1>2, <2>7 DEF WorkerFits
  <2>9. WorkerFits(new)
    BY <1>2, <2>1, <2>2, <2>6, <2>8 DEF WorkerFits
  <2> QED BY <1>5, <2>7, <2>9, WorkerSet
<1> QED BY <1>3, <1>4, <1>5

LEMMA SnapshotMade ==
    ASSUME GraphFits, WorkersFit, NEW w \in LaneWorkers, cybergym_score_snapshot(w) PROVE WorkersFit'
<1>1. PICK rec : rec = worker[w]
  OBVIOUS
<1>2. WorkerFits(rec) /\ rec.pc = "map"
  BY <1>1 DEF WorkersFit, cybergym_score_snapshot, WorkerIs
<1>3. PICK e : e = score_entry(uid_vector(rec.rows), rec.row.head.at, TRUE, raw_body(rec.row))
  OBVIOUS
<1>4. ProvenDoc(raw_body(rec.row), rec.now) /\ rec.rows = raw_body(rec.row).scores
  BY <1>2 DEF WorkerFits
<1>5. rec.rows \in ScoresOf(LaneMiners)
  BY <1>4, CyberGymConstants DEF ProvenDoc
<1>6. e.vec = uid_vector(rec.rows) /\ e.doc = raw_body(rec.row)
  BY <1>3 DEF score_entry
<1>7. EntryFits(e, rec.now)
  BY <1>4, <1>5, <1>6, UidVectorFits DEF EntryFits
<1>8. PICK new : new = [rec EXCEPT !.pc = "put", !.entry = e]
  OBVIOUS
<1>9. /\ DOMAIN new = {"pc", "kind", "now", "specs", "row", "rows", "entry"}
      /\ new.pc = "put" /\ new.kind = rec.kind /\ new.now = rec.now /\ new.specs = rec.specs /\ new.entry = e
  BY <1>2, <1>8 DEF WorkerFits
<1>10. WorkerFits(new)
  BY <1>2, <1>7, <1>9 DEF WorkerFits
<1>11. SetWorker(w, new)
  BY <1>1, <1>3, <1>8 DEF cybergym_score_snapshot
<1> QED BY <1>10, <1>11, WorkerSet

LEMMA WorkerLeaves ==
    ASSUME WorkersFit, NEW w \in LaneWorkers, PutScores(w) \/ compose_and_publish(w) \/ cybergym_allocation(w)
    PROVE  WorkersFit'
<1>1. PICK rec : rec = worker[w]
  OBVIOUS
<1>2. WorkerFits(rec)
  BY <1>1 DEF WorkersFit
<1>3. SetWorker(w, LaneIdle) \/ (rec.pc = "put" /\ SetWorker(w, [rec EXCEPT !.pc = "compose"]))
  <2>1. CASE PutScores(w)
    <3>1. rec.pc = "put" /\ SetWorker(w, IF rec.kind = "refresh" THEN LaneIdle ELSE [rec EXCEPT !.pc = "compose"])
      BY <1>1, <2>1 DEF PutScores, WorkerIs
    <3> QED BY <3>1
  <2>2. CASE compose_and_publish(w)
    BY <2>2 DEF compose_and_publish
  <2>3. CASE cybergym_allocation(w)
    BY <2>3 DEF cybergym_allocation
  <2> QED BY <2>1, <2>2, <2>3
<1>4. CASE rec.pc = "put" /\ SetWorker(w, [rec EXCEPT !.pc = "compose"])
  <2>1. PICK new : new = [rec EXCEPT !.pc = "compose"]
    OBVIOUS
  <2>2. /\ DOMAIN new = {"pc", "kind", "now", "specs", "row", "rows", "entry"}
        /\ new.pc = "compose" /\ new.kind = rec.kind /\ new.now = rec.now /\ new.specs = rec.specs
    BY <1>2, <2>1 DEF WorkerFits
  <2>3. WorkerFits(new)
    BY <1>2, <1>4, <2>2 DEF WorkerFits
  <2> QED BY <1>4, <2>1, <2>3, WorkerSet
<1> QED BY <1>3, <1>4, IdleFits, WorkerSet

----------------------------------------------------------------------------
(* The allocation of the bridge                                             *)

Allocated(c, burn, base, proven) ==
    IF c.forfeited = 0 THEN [proven EXCEPT !.status = "ok", !.weights = c.weights]
    ELSE IF burn = NONE THEN [base EXCEPT !.status = "burn_destination_unresolved"]
    ELSE [proven EXCEPT !.status = "ok", !.burn = burn,
             !.weights = [u \in DOMAIN c.weights \cup {burn} |->
                 (IF u \in DOMAIN c.weights THEN c.weights[u] ELSE 0)
                   + (IF u = burn THEN c.forfeited ELSE 0)]]

LEMMA AllocationMade ==
    ASSUME LaneIInv, NEW w \in LaneWorkers, cybergym_allocation(w) PROVE AllocationFits'
<1>1. PICK t, now, e : t = worker[w].specs /\ now = worker[w].now /\ e = worker[w].entry
  OBVIOUS
<1>2. /\ \A l \in Lanes : SpecFits(t[l])
      /\ lane_active(t, "cybergym_v0") /\ EntryFits(e, now)
  BY <1>1 DEF LaneIInv, WorkersFit, WorkerFits, cybergym_allocation, WorkerIs
<1>3. PICK mine : mine = IF DOMAIN e.vec = {} THEN NONE ELSE e
  OBVIOUS
<1>4. PICK entries : entries = [laneScores EXCEPT !["cybergym_v0"] = mine]
  OBVIOUS
<1>5. PICK registered : registered = eligible_uids(now)
  OBVIOUS
<1>6. PICK c : c = compose(t, entries, registered, NONE)
  OBVIOUS
<1>7. PICK burn : burn = resolve_burn_destination(now)
  OBVIOUS
<1>8. PICK base : base = [NoAllocation EXCEPT !.now = now, !.specs = t]
  OBVIOUS
<1>9. PICK X : X = lane_filtered(t, "cybergym_v0", mine, registered)
  OBVIOUS
<1>10. PICK proven : proven = IF "cybergym_v0" \notin c.paying THEN base ELSE [base EXCEPT !.doc = mine.doc, !.lane = X]
  OBVIOUS
<1>11. allocation' = Allocated(c, burn, base, proven)
  <2> DEFINE Mine == IF DOMAIN worker[w].entry.vec = {} THEN NONE ELSE worker[w].entry
             Made == compose_eligible(worker[w].specs, [laneScores EXCEPT !["cybergym_v0"] = Mine], worker[w].now, NONE)
             Base == [NoAllocation EXCEPT !.now = worker[w].now, !.specs = worker[w].specs]
             Mined == lane_filtered(Base.specs, "cybergym_v0", Mine, eligible_uids(worker[w].now))
             Proven == IF "cybergym_v0" \notin Made.paying THEN Base ELSE [Base EXCEPT !.doc = Mine.doc, !.lane = Mined]
  <2>1. allocation' = Allocated(Made, resolve_burn_destination(worker[w].now), Base, Proven)
    BY DEF cybergym_allocation, Allocated
  <2>2. Mine = mine
    BY <1>1, <1>3
  <2>3. Base = base
    BY <1>1, <1>8
  <2>4. Made = c
    <3> HIDE DEF Mine
    <3> QED BY <1>1, <1>4, <1>5, <1>6, <2>2 DEF compose_eligible
  <2>5. base.specs = t
    BY <1>8 DEF NoAllocation
  <2>6. Mined = X
    <3> HIDE DEF Mine, Base
    <3> QED BY <1>1, <1>5, <1>9, <2>2, <2>3, <2>5
  <2>7. Proven = proven
    <3> HIDE DEF Mine, Base, Made, Mined
    <3> QED BY <1>10, <2>2, <2>3, <2>4, <2>6
  <2>8. resolve_burn_destination(worker[w].now) = burn
    BY <1>1, <1>7
  <2> HIDE DEF Made, Base, Proven
  <2> QED BY <2>1, <2>3, <2>4, <2>7, <2>8
<1>12. EntriesFit(entries)
  BY <1>2, <1>3, <1>4 DEF LaneIInv, VectorsFit, EntriesFit, EntryFits
<1>13. /\ c.paying = Paying(t, entries, registered, NONE)
       /\ c.forfeited = ActiveFraction(t, Lanes \ c.paying)
       /\ DOMAIN c.weights \in SUBSET LaneUids /\ IsFiniteSet(DOMAIN c.weights)
       /\ \A u \in DOMAIN c.weights : c.weights[u] \in Nat
       /\ SumFunctionOnSet(c.weights, DOMAIN c.weights) = ActiveFraction(t, c.paying)
  <2>1. \A l \in Lanes : SpecFits(t[l])
    BY <1>2
  <2>2. ASSUME NEW d, d = compose(t, entries, registered, NONE)
        PROVE  /\ d.paying = Paying(t, entries, registered, NONE)
               /\ d.forfeited = ActiveFraction(t, Lanes \ d.paying)
               /\ DOMAIN d.weights \in SUBSET LaneUids /\ IsFiniteSet(DOMAIN d.weights)
               /\ \A u \in DOMAIN d.weights : d.weights[u] \in Nat
               /\ SumFunctionOnSet(d.weights, DOMAIN d.weights) = ActiveFraction(t, d.paying)
    BY <1>12, <2>1, <2>2, ComposeExact, ZenonT(60)
  <2> QED BY <1>6, <2>2
<1>14. c.paying \in SUBSET Lanes /\ Lanes \ c.paying \in SUBSET Lanes /\ "cybergym_v0" \in Lanes
  BY <1>13 DEF Paying, Lanes
<1>15. /\ ActiveFraction(t, c.paying) \in Nat /\ c.forfeited \in Nat
       /\ ActiveFraction(t, c.paying) + c.forfeited = SumFunctionOnSet(Fractions(t), {l \in Lanes : t[l].enabled})
  <2>1. \A l \in Lanes : SpecFits(t[l])
    BY <1>2
  <2>2. PICK P : P = c.paying
    OBVIOUS
  <2>3. P \in SUBSET Lanes /\ Lanes \ P \in SUBSET Lanes
    BY <1>14, <2>2
  <2>4. /\ ActiveFraction(t, P) \in Nat /\ ActiveFraction(t, Lanes \ P) \in Nat
        /\ ActiveFraction(t, P) + ActiveFraction(t, Lanes \ P) = ActiveFraction(t, Lanes)
        /\ ActiveFraction(t, Lanes) = SumFunctionOnSet(Fractions(t), {l \in Lanes : t[l].enabled})
    BY <2>1, <2>3, ActiveFits
  <2> QED BY <1>13, <2>2, <2>4
<1>16. "cybergym_v0" \notin c.paying => c.forfeited >= t["cybergym_v0"].fraction
  <2>1. ASSUME "cybergym_v0" \notin c.paying PROVE c.forfeited >= t["cybergym_v0"].fraction
    <3>1. "cybergym_v0" \in Lanes \ c.paying
      BY <1>14, <2>1
    <3>2. PICK S : S = Lanes \ c.paying
      OBVIOUS
    <3>3. \A l \in Lanes : SpecFits(t[l])
      BY <1>2
    <3>4. S \in SUBSET Lanes /\ "cybergym_v0" \in S /\ lane_active(t, "cybergym_v0")
      BY <1>2, <1>14, <3>1, <3>2
    <3>5. ActiveFraction(t, S) >= t["cybergym_v0"].fraction
      BY <3>3, <3>4, ActiveFits
    <3> QED BY <1>13, <3>2, <3>5
  <2> QED BY <2>1
<1>17. "cybergym_v0" \in c.paying => ProvenDoc(mine.doc, now)
  <2>1. ASSUME "cybergym_v0" \in c.paying PROVE ProvenDoc(mine.doc, now)
    <3>1. entries["cybergym_v0"] # NONE
      BY <1>13, <2>1 DEF Paying, lane_usable
    <3>2. entries["cybergym_v0"] = mine
      BY <1>4, <1>14 DEF LaneIInv, VectorsFit
    <3> QED BY <1>2, <1>3, <3>1, <3>2 DEF EntryFits
  <2> QED BY <2>1
<1>18. burn # NONE => burn \in LaneUids
  BY <1>7 DEF resolve_burn_destination, load_fresh_metagraph_hotkeys, LaneIInv, GraphFits
<1>19. /\ DOMAIN base = {"status", "weights", "specs", "lane", "doc", "burn", "now"}
       /\ base.weights = NoVector /\ base.specs = t /\ base.lane = NoVector /\ base.doc = NONE /\ base.burn = NONE /\ base.now = now
  BY <1>8 DEF NoAllocation
<1>20. /\ DOMAIN proven = {"status", "weights", "specs", "lane", "doc", "burn", "now"}
       /\ proven.specs = t /\ proven.now = now
       /\ proven.doc = NONE => "cybergym_v0" \notin c.paying
       /\ DOMAIN proven.lane # {} => ProvenDoc(proven.doc, now)
  <2>1. CASE "cybergym_v0" \notin c.paying
    BY <1>10, <1>19, <2>1, NoVectorFits
  <2>2. CASE "cybergym_v0" \in c.paying
    <3>1. proven = [base EXCEPT !.doc = mine.doc, !.lane = X]
      BY <1>10, <2>2
    <3>2. proven.doc = mine.doc /\ proven.specs = t /\ proven.now = now
          /\ DOMAIN proven = {"status", "weights", "specs", "lane", "doc", "burn", "now"}
      BY <1>19, <3>1
    <3>3. ProvenDoc(mine.doc, now) /\ mine.doc # NONE
      BY <1>17, <2>2, CyberGymConstants DEF ProvenDoc
    <3> QED BY <3>2, <3>3
  <2> QED BY <2>1, <2>2
<1>21. ASSUME NEW a, allocation' = a, a.status = "ok", a.specs = t, a.now = now, a.doc = proven.doc, a.lane = proven.lane,
              DOMAIN a.weights \subseteq LaneUids,
              SumFunctionOnSet(a.weights, DOMAIN a.weights) = ActiveFraction(t, c.paying) + c.forfeited,
              "cybergym_v0" \in c.paying \/ (a.burn # NONE /\ a.weights[a.burn] >= c.forfeited /\ a.weights[a.burn] \in Nat)
       PROVE  AllocationFits'
  <2>1. [l \in Lanes |-> allocation'.specs[l].fraction] = Fractions(t)
        /\ {l \in Lanes : allocation'.specs[l].enabled} = {l \in Lanes : t[l].enabled}
    BY <1>21 DEF Fractions
  <2>2. SumFunctionOnSet(allocation'.weights, DOMAIN allocation'.weights)
          = SumFunctionOnSet([l \in Lanes |-> allocation'.specs[l].fraction], {l \in Lanes : allocation'.specs[l].enabled})
    BY <1>15, <1>21, <2>1
  <2>3. ASSUME allocation'.doc = NONE
        PROVE  allocation'.burn # NONE /\ allocation'.weights[allocation'.burn] >= [l \in Lanes |-> allocation'.specs[l].fraction]["cybergym_v0"]
    <3>1. "cybergym_v0" \notin c.paying
      BY <1>20, <1>21, <2>3
    <3>2. a.burn # NONE /\ a.weights[a.burn] >= c.forfeited /\ a.weights[a.burn] \in Nat
      BY <1>21, <3>1
    <3>3. c.forfeited >= t["cybergym_v0"].fraction /\ t["cybergym_v0"].fraction \in Nat
      BY <1>2, <1>14, <1>16, <3>1 DEF SpecFits
    <3>4. [l \in Lanes |-> allocation'.specs[l].fraction]["cybergym_v0"] = t["cybergym_v0"].fraction
      BY <1>14, <1>21
    <3> QED BY <1>15, <1>21, <3>2, <3>3, <3>4
  <2>4. UnprovenShareBurns'
    BY <2>2, <2>3 DEF UnprovenShareBurns
  <2>5. PaidIsAuthenticated'
    BY <1>20, <1>21 DEF PaidIsAuthenticated, ProvenDoc
  <2>6. DOMAIN allocation'.weights \subseteq LaneUids
    BY <1>21
  <2> QED BY <2>4, <2>5, <2>6 DEF AllocationFits
<1>22. CASE c.forfeited = 0
  <2>1. PICK a : a = [proven EXCEPT !.status = "ok", !.weights = c.weights]
    OBVIOUS
  <2>2. /\ a.status = "ok" /\ a.specs = t /\ a.now = now /\ a.doc = proven.doc /\ a.lane = proven.lane
        /\ a.weights = c.weights
    BY <1>20, <2>1
  <2>3. "cybergym_v0" \in c.paying
    <3>1. t["cybergym_v0"].fraction > 0 /\ t["cybergym_v0"].fraction \in Nat
      BY <1>2, <1>14 DEF lane_active, SpecFits
    <3> QED BY <1>16, <1>22, <3>1
  <2>4. allocation' = a
    BY <1>11, <1>22, <2>1 DEF Allocated
  <2>5. DOMAIN a.weights \subseteq LaneUids
        /\ SumFunctionOnSet(a.weights, DOMAIN a.weights) = ActiveFraction(t, c.paying) + c.forfeited
    BY <1>13, <1>15, <1>22, <2>2
  <2> QED BY <1>21, <2>2, <2>3, <2>4, <2>5
<1>23. CASE c.forfeited # 0 /\ burn = NONE
  <2>1. allocation' = [base EXCEPT !.status = "burn_destination_unresolved"]
    BY <1>11, <1>23 DEF Allocated
  <2>2. allocation'.weights = NoVector /\ allocation'.lane = NoVector /\ allocation'.status = "burn_destination_unresolved"
    BY <1>19, <2>1
  <2> QED BY <2>2, NoVectorFits DEF AllocationFits, UnprovenShareBurns, PaidIsAuthenticated
<1>24. CASE c.forfeited # 0 /\ burn # NONE
  <2>1. PICK y : y = [u \in DOMAIN c.weights \cup {burn} |->
                         (IF u \in DOMAIN c.weights THEN c.weights[u] ELSE 0) + (IF u = burn THEN c.forfeited ELSE 0)]
    OBVIOUS
  <2>2. PICK a : a = [proven EXCEPT !.status = "ok", !.burn = burn, !.weights = y]
    OBVIOUS
  <2>3. /\ a.status = "ok" /\ a.specs = t /\ a.now = now /\ a.doc = proven.doc /\ a.lane = proven.lane
        /\ a.weights = y /\ a.burn = burn
    BY <1>20, <2>2
  <2>4. allocation' = a
    BY <1>11, <1>24, <2>1, <2>2 DEF Allocated
  <2>5. /\ SumFunctionOnSet(y, DOMAIN y) = SumFunctionOnSet(c.weights, DOMAIN c.weights) + c.forfeited
        /\ y[burn] >= c.forfeited
    <3>1. PICK D, g, x : D = DOMAIN c.weights /\ g = c.weights /\ x = c.forfeited
      OBVIOUS
    <3>2. IsFiniteSet(D) /\ (\A u \in D : g[u] \in Nat) /\ x \in Nat
      BY <1>13, <1>15, <3>1
    <3>3. y = [u \in D \cup {burn} |-> (IF u \in D THEN g[u] ELSE 0) + (IF u = burn THEN x ELSE 0)]
      BY <2>1, <3>1
    <3>4. SumFunctionOnSet(y, DOMAIN y) = SumFunctionOnSet(g, D) + x /\ y[burn] >= x
      BY <3>2, <3>3, BurnAdded
    <3> QED BY <3>1, <3>4
  <2>6. DOMAIN y \subseteq LaneUids
    BY <1>13, <1>18, <1>24, <2>1
  <2>7. y[burn] \in Nat
    BY <1>13, <1>15, <2>1
  <2> QED BY <1>13, <1>21, <1>24, <2>3, <2>4, <2>5, <2>6, <2>7
<1> QED BY <1>22, <1>23, <1>24

----------------------------------------------------------------------------
(* Every step, part by part                                                 *)

LEMMA LaneSteps == LaneIInv /\ [MechNext]_mechVars => LaneIInv'
<1> SUFFICES ASSUME LaneIInv, [MechNext]_mechVars PROVE LaneIInv'
  OBVIOUS
<1>i. /\ laneNow \in 1..MaxLaneTime /\ GraphFits /\ ReportsFit
      /\ SpecsFit /\ VectorsFit /\ WorkersFit /\ AllocationFits
  BY DEF LaneIInv
<1>1. \/ UNCHANGED mechVars
      \/ MechOwnNext /\ UNCHANGED cyberVars
      \/ CyberNext /\ UNCHANGED mechOwn
  BY DEF MechNext
<1>k. /\ UNCHANGED graph => GraphFits'
      /\ UNCHANGED reports => ReportsFit'
      /\ UNCHANGED specs => SpecsFit'
      /\ UNCHANGED laneScores => VectorsFit'
      /\ UNCHANGED worker => WorkersFit'
      /\ UNCHANGED allocation => AllocationFits'
  <2>1. UNCHANGED graph => GraphFits'
    BY <1>i DEF GraphFits
  <2>2. UNCHANGED reports => ReportsFit'
    BY <1>i DEF ReportsFit
  <2>3. UNCHANGED specs => SpecsFit'
    BY <1>i DEF SpecsFit
  <2>4. UNCHANGED laneScores => VectorsFit'
    BY <1>i DEF VectorsFit
  <2>5. UNCHANGED worker => WorkersFit'
    BY <1>i DEF WorkersFit
  <2>6. UNCHANGED allocation => AllocationFits'
    BY <1>i DEF AllocationFits, UnprovenShareBurns, PaidIsAuthenticated
  <2> QED BY <2>1, <2>2, <2>3, <2>4, <2>5, <2>6
<1>2. CASE UNCHANGED mechVars
  BY <1>i, <1>k, <1>2 DEF mechVars, cyberVars, LaneIInv
<1>3. CASE MechOwnNext /\ UNCHANGED cyberVars
  <2>1. laneNow' \in 1..MaxLaneTime /\ GraphFits' /\ ReportsFit'
    BY <1>i, <1>k, <1>3 DEF cyberVars
  <2> SUFFICES SpecsFit' /\ VectorsFit' /\ WorkersFit' /\ AllocationFits'
    BY <2>1 DEF LaneIInv
  <2>2. CASE \E p \in LanePosts : post_scores(p)
    BY <1>i, <1>k, <2>2, VectorsPosted DEF post_scores
  <2>3. CASE \E l \in Lanes : \E config \in LaneConfigs : upsert_mechanism(l, config[l])
    <3>1. PICK l \in Lanes, config \in LaneConfigs : upsert_mechanism(l, config[l])
      BY <2>3
    <3>2. SpecFits(config[l])
      BY MechanismConstants DEF SpecFits
    <3>3. specs' = [specs EXCEPT ![l] = config[l]]
      BY <3>1 DEF upsert_mechanism
    <3>4. SpecsFit'
      BY <1>i, <3>2, <3>3 DEF SpecsFit
    <3> QED BY <1>k, <3>1, <3>4 DEF upsert_mechanism
  <2>4. ASSUME NEW w \in LaneWorkers,
               \/ \E kind \in {"refresh", "publish", "allocate"} : StartCycle(w, kind)
               \/ ReadHeader(w) \/ ReadRows(w) \/ cybergym_score_snapshot(w) \/ PutScores(w)
               \/ compose_and_publish(w) \/ cybergym_allocation(w)
        PROVE  SpecsFit' /\ VectorsFit' /\ WorkersFit' /\ AllocationFits'
    <3>1. CASE \E kind \in {"refresh", "publish", "allocate"} : StartCycle(w, kind)
      <4>1. PICK kind : StartCycle(w, kind)
        BY <3>1
      <4>2. WorkersFit' /\ AllocationFits'
        BY <4>1, CycleStarted
      <4> QED BY <1>k, <4>1, <4>2 DEF StartCycle
    <3>2. CASE ReadHeader(w)
      BY <1>i, <1>k, <3>2, HeaderRead DEF ReadHeader, LeaveReads
    <3>3. CASE ReadRows(w)
      BY <1>i, <1>k, <3>3, RowsRead DEF ReadRows, LeaveReads
    <3>4. CASE cybergym_score_snapshot(w)
      BY <1>i, <1>k, <3>4, SnapshotMade DEF cybergym_score_snapshot, LeaveReads
    <3>5. CASE PutScores(w)
      <4>1. VectorsFit' /\ WorkersFit'
        BY <1>i, <3>5, VectorsPut, WorkerLeaves
      <4> QED BY <1>k, <3>5, <4>1 DEF PutScores
    <3>6. CASE compose_and_publish(w)
      <4>1. WorkersFit'
        BY <1>i, <3>6, WorkerLeaves
      <4> QED BY <1>k, <3>6, <4>1 DEF compose_and_publish
    <3>7. CASE cybergym_allocation(w)
      <4>1. WorkersFit' /\ AllocationFits'
        BY <1>i, <3>7, WorkerLeaves, AllocationMade
      <4> QED BY <1>k, <3>7, <4>1 DEF cybergym_allocation
    <3> QED BY <2>4, <3>1, <3>2, <3>3, <3>4, <3>5, <3>6, <3>7
  <2> QED BY <1>3, <2>2, <2>3, <2>4 DEF MechOwnNext
<1>4. CASE CyberNext /\ UNCHANGED mechOwn
  <2>1. SpecsFit' /\ VectorsFit' /\ WorkersFit' /\ AllocationFits'
    BY <1>k, <1>4 DEF mechOwn
  <2> SUFFICES laneNow' \in 1..MaxLaneTime /\ GraphFits' /\ ReportsFit'
    BY <2>1 DEF LaneIInv
  <2>2. ASSUME NEW d \in ProducerDocs, post_cybergym_scores(d)
        PROVE  laneNow' \in 1..MaxLaneTime /\ GraphFits' /\ ReportsFit'
    <3>1. ReportsFit'
      BY <1>i, <2>2, ReportStored
    <3> QED BY <1>i, <1>k, <2>2, <3>1 DEF post_cybergym_scores
  <2>3. ASSUME NEW e \in Epochs, EditRow(e)
        PROVE  laneNow' \in 1..MaxLaneTime /\ GraphFits' /\ ReportsFit'
    <3>1. ReportsFit'
      BY <1>i, <2>3, RowEdited
    <3> QED BY <1>i, <1>k, <2>3, <3>1 DEF EditRow
  <2>4. ASSUME NEW e \in Epochs, MarkEpoch(e)
        PROVE  laneNow' \in 1..MaxLaneTime /\ GraphFits' /\ ReportsFit'
    BY <1>i, <1>k, <2>4 DEF MarkEpoch
  <2>5. ASSUME NEW uidOf \in UidMaps, Poll(uidOf)
        PROVE  laneNow' \in 1..MaxLaneTime /\ GraphFits' /\ ReportsFit'
    <3>1. GraphFits'
      BY <1>i, <2>5, RowsPolled
    <3> QED BY <1>i, <1>k, <2>5, <3>1 DEF Poll
  <2>6. CASE LaneTick
    BY <1>i, <1>k, <2>6, CyberGymConstants DEF LaneTick
  <2> QED BY <1>4, <2>2, <2>3, <2>4, <2>5, <2>6 DEF CyberNext
<1> QED BY <1>1, <1>2, <1>3, <1>4

LEMMA LanesImplied == LaneIInv => MechInv
<1> SUFFICES ASSUME LaneIInv PROVE MechInv
  OBVIOUS
<1>1. ASSUME NEW l \in Lanes, laneScores[l] # NONE PROVE DOMAIN laneScores[l].vec \subseteq LaneUids
  <2>1. laneScores[l].vec \in ScoresOf(LaneUids)
    BY <1>1 DEF LaneIInv, VectorsFit
  <2> QED BY <2>1, ScoresFit, CyberGymConstants
<1>2. MechTypeOK
  BY <1>1 DEF MechTypeOK, LaneIInv, AllocationFits
<1> QED BY <1>2 DEF MechInv, LaneIInv, AllocationFits

\* The lanes by themselves (Mechanisms): an unproven share burns, what is paid is
\* authenticated, for any reports, edits, metagraphs and interleavings.
THEOREM LanesHold == MechInit /\ [][MechNext]_mechVars => []MechInv
<1>1. MechInit => LaneIInv
  BY LanesStart
<1>2. LaneIInv /\ [MechNext]_mechVars => LaneIInv'
  BY LaneSteps
<1>3. LaneIInv => MechInv
  BY LanesImplied
<1> QED BY <1>1, <1>2, <1>3, PTL

----------------------------------------------------------------------------
(* The run: each behaviour runs one service, the others stay as they began  *)

LEMMA IntakeSteps ==
    ASSUME [Next]_vars
    PROVE  /\ [GateNext]_gateVars /\ [SeedNext]_seedVars
           /\ [CorpusNext]_corpusVars /\ [MinerNext]_minerVars
<1>1. CASE UNCHANGED vars
  BY <1>1 DEF vars
<1>2. CASE Only("gates", GateNext, <<mechVars, attestVars, ingressVars, cacheVars, blobVars, seedVars, corpusVars, minerVars>>)
  BY <1>2 DEF Only
<1>3. CASE Only("seed", SeedNext, <<mechVars, attestVars, ingressVars, gateVars, cacheVars, blobVars, corpusVars, minerVars>>)
  BY <1>3 DEF Only
<1>4. CASE Only("corpus", CorpusNext, <<mechVars, attestVars, ingressVars, gateVars, cacheVars, blobVars, seedVars, minerVars>>)
  BY <1>4 DEF Only
<1>5. CASE Only("miner", MinerNext, <<mechVars, attestVars, ingressVars, gateVars, cacheVars, blobVars, seedVars, corpusVars>>)
  BY <1>5 DEF Only
<1>6. ASSUME Next, service \notin {"gates", "seed", "corpus", "miner"}
      PROVE  UNCHANGED <<gateVars, seedVars, corpusVars, minerVars>>
  BY <1>6 DEF Next, Only
<1>7. ASSUME Next PROVE service \notin {"gates", "seed", "corpus", "miner"} \/
             Only("gates", GateNext, <<mechVars, attestVars, ingressVars, cacheVars, blobVars, seedVars, corpusVars, minerVars>>) \/
             Only("seed", SeedNext, <<mechVars, attestVars, ingressVars, gateVars, cacheVars, blobVars, corpusVars, minerVars>>) \/
             Only("corpus", CorpusNext, <<mechVars, attestVars, ingressVars, gateVars, cacheVars, blobVars, seedVars, minerVars>>) \/
             Only("miner", MinerNext, <<mechVars, attestVars, ingressVars, gateVars, cacheVars, blobVars, seedVars, corpusVars>>)
  BY <1>7 DEF Next, Only
<1> QED BY <1>1, <1>2, <1>3, <1>4, <1>5, <1>6, <1>7

\* What is let in is sound (RequestGates, ChallengeSources, ThinMiner), whichever
\* calls of the seeder fail.
THEOREM IntakeIsSound == Spec => []IntakeSound
<1>2. Init => GateIInv /\ SeedIInv /\ CorpusIInv /\ MinerIInv
  BY GateStarts, SeedStarts, CorpusStarts, MinerStarts DEF Init
<1>3. GateIInv /\ [Next]_vars => GateIInv'
  BY IntakeSteps, GateSteps
<1>4. SeedIInv /\ [Next]_vars => SeedIInv'
  BY IntakeSteps, SeedSteps
<1>5. CorpusIInv /\ [Next]_vars => CorpusIInv'
  BY IntakeSteps, CorpusSteps
<1>6. MinerIInv /\ [Next]_vars => MinerIInv'
  BY IntakeSteps, MinerSteps
<1>7. GateIInv /\ SeedIInv /\ CorpusIInv /\ MinerIInv => IntakeSound
  BY GateImplied, SeedImplied, CorpusHolds, MinerImplied DEF IntakeSound
<1> QED BY <1>2, <1>3, <1>4, <1>5, <1>6, <1>7, PTL DEF Spec

LEMMA LanesRun == ASSUME [Next]_vars PROVE [MechNext]_mechVars
<1>1. CASE UNCHANGED vars
  BY <1>1 DEF vars
<1>2. CASE Only("lanes", MechNext, <<attestVars, ingressVars, gateVars, cacheVars, blobVars, seedVars, corpusVars, minerVars>>)
  BY <1>2 DEF Only
<1>3. ASSUME Next, service # "lanes" PROVE UNCHANGED mechVars
  BY <1>3 DEF Next, Only
<1>4. ASSUME Next, service = "lanes"
      PROVE  Only("lanes", MechNext, <<attestVars, ingressVars, gateVars, cacheVars, blobVars, seedVars, corpusVars, minerVars>>)
  BY <1>4 DEF Next, Only
<1> QED BY <1>1, <1>2, <1>3, <1>4

\* The lanes of the run: mechanism_router.py and cybergym_bridge.py pay the
\* fraction of CyberGym on a document its producer signed, or burn it.
THEOREM LanesAreSound == Spec => []LanesSound
<1>1. Init => LaneIInv
  <2>1. Init => MechInit
    BY DEF Init
  <2> QED BY <2>1, LanesStart
<1>2. LaneIInv /\ [Next]_vars => LaneIInv'
  <2>1. [Next]_vars => [MechNext]_mechVars
    BY LanesRun
  <2> QED BY <2>1, LaneSteps
<1>3. LaneIInv => LanesSound
  BY LanesImplied DEF LanesSound
<1> QED BY <1>1, <1>2, <1>3, PTL DEF Spec
=============================================================================
