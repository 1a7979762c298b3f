----------------------------- MODULE RequestGates -----------------------------
(***************************************************************************)
(* What a request passes on its way into the publisher: role guard, abuse  *)
(* windows, per-hotkey budget, the saturation gate, the per-address        *)
(* window, the submit slot, and the counters on its way out.               *)
(*                                                                         *)
(* Source: the middlewares of app.py in their order (the last added is the *)
(* outermost), ratelimit.py, per_hotkey_limit.py, pressure_telemetry.py.   *)
(* A request is [peer, sent, bare, hk, route]: the address the edge saw,   *)
(* the x-forwarded-for entries the client sent itself, whether the edge    *)
(* failed to append the address, the claimed hotkey, and the kind of route *)
(* with the legacy prefix stripped.  Time is in ticks; a window and an     *)
(* idle limit are so many ticks.                                           *)
(***************************************************************************)
EXTENDS Absent, Integers, FiniteSets, Sequences, FiniteSetsExt, Functions

CONSTANTS
    GateSlots,     \* requests in flight
    GateRequests,  \* what may be sent
    GateConfs,     \* deployments: [role, ipMode, hops, rpm, ipRpm, actorRpm, burst, refill, cap, wait]
    Window,        \* _WINDOW_SECS
    IdleTtl,       \* _GC_IDLE_TTL of the hotkey buckets
    MaxGateTime,   \* bound on the clock
    MaxArrivals,   \* bound on requests
    MaxGroups      \* max_groups of the pressure telemetry

ASSUME GateAssumption ==
    /\ {Window, IdleTtl} \subseteq Nat \ {0} /\ {MaxGateTime, MaxArrivals, MaxGroups} \subseteq Nat
    /\ IsFiniteSet(GateSlots) /\ NONE \notin {"submit", "pm_read", "poll", "slot"}
    /\ \A c \in GateConfs :
          /\ {c.rpm, c.burst, c.refill, c.cap} \subseteq Nat /\ c.hops \in Nat \ {0}
          /\ c.refill * IdleTtl >= c.burst   \* as with the defaults
    /\ \A q \in GateRequests :
          q.peer \in STRING /\ q.peer # NONE /\ q.sent \in Seq(STRING) /\ q.bare \in BOOLEAN

VARIABLES
    gateConf,    \* the environment of this process
    clock,
    flight,      \* slot -> [pc, req, gate, slot, status]
    permits,     \* gate -> free permits: "submit", "pm_read", "poll", "slot"
    windows,     \* limiter key -> [start, count]
    buckets,     \* hotkey -> [tokens, at]
    passed,      \* address -> tick -> requests let through by the address window
    spent,       \* hotkey -> tick -> submits let through by the budget
    statuses,    \* status class -> responses
    pressure,    \* [total, dropped, groups]
    arrivals

gateVars == <<gateConf, clock, flight, permits, windows, buckets, passed, spent, statuses,
              pressure, arrivals>>

Vacant == [pc |-> "vacant", req |-> NONE, gate |-> NONE, slot |-> FALSE, status |-> 0]
Gates == {"submit", "pm_read", "poll", "slot"}
Ticks == 0..MaxGateTime
Peers == {q.peer : q \in GateRequests}
Hotkeys == {q.hk : q \in GateRequests} \ {NONE}
Submits(q) == q.route = "submit"

-----------------------------------------------------------------------------
(* Mutant: the first forwarded entry is taken.                             *)
client_ip_first(q) ==
    LET chain == q.sent \o (IF q.bare THEN << >> ELSE <<q.peer>>)
    IN  IF chain = << >> THEN NONE ELSE Head(chain)

(* _client_ip_from_scope: the entry the trusted edge appended, counted     *)
(* from the right; NONE is UNRESOLVED_IP, on which the limiters fail open. *)
(* Behind Cloudflare, or bare on a socket, the address is the peer's.      *)
client_ip(q) ==
    IF gateConf.ipMode # "railway" THEN q.peer
    ELSE LET hops == [i \in 1..(gateConf.hops - 1) |-> "proxy"]
             chain == q.sent \o (IF q.bare THEN << >> ELSE <<q.peer>> \o hops)
         IN  IF Len(chain) >= gateConf.hops THEN chain[Len(chain) - gateConf.hops + 1] ELSE NONE

(* _WindowEntry.tick, _AbuseEntry.tick: a window starts at its first       *)
(* request and is reset once it is over.                                   *)
tick(ws, k) ==
    LET w == IF k \in DOMAIN ws /\ clock - ws[k].start < Window THEN ws[k]
             ELSE [start |-> clock, count |-> 0]
    IN  [x \in DOMAIN ws \cup {k} |-> IF x = k THEN [w EXCEPT !.count = @ + 1] ELSE ws[x]]
check(ws, k, limit) == tick(ws, k)[k].count <= limit

Status(s) == IF s >= 500 THEN "5xx" ELSE IF s >= 400 THEN "4xx" ELSE "2xx"

(* PressureTelemetry.record: 429 and 5xx on the monitored v1 paths, in at  *)
(* most MaxGroups groups.                                                  *)
record(p, q, s) ==
    LET g == <<q.route, s, q.hk>>
    IN  IF (s # 429 /\ s < 500) \/ q.route \notin {"submit", "pm_read"} THEN p
        ELSE IF g \notin DOMAIN p.groups /\ Cardinality(DOMAIN p.groups) >= MaxGroups
             THEN [p EXCEPT !.total = @ + 1, !.dropped = @ + 1]
        ELSE [p EXCEPT !.total = @ + 1,
                       !.groups = [x \in DOMAIN @ \cup {g} |->
                                     (IF x \in DOMAIN @ THEN @[x] ELSE 0) + IF x = g THEN 1 ELSE 0]]

-----------------------------------------------------------------------------
Go(r, pc) == flight' = [flight EXCEPT ![r].pc = pc]
Reply(r, s) == flight' = [flight EXCEPT ![r].pc = "reply", ![r].status = s]

Arrive(r, q) ==
    /\ flight[r] = Vacant /\ arrivals < MaxArrivals
    /\ flight' = [flight EXCEPT ![r] = [Vacant EXCEPT !.pc = "role", !.req = q]]
    /\ arrivals' = arrivals + 1
    /\ UNCHANGED <<gateConf, clock, permits, windows, buckets, passed, spent, statuses, pressure>>

(* _ServiceRoleGuardMiddleware: 404 before any limiter state is touched.   *)
allowed(q) ==
    CASE gateConf.role = "all" -> TRUE
      [] gateConf.role = "worker" -> FALSE
      [] gateConf.role = "read" -> q.route \in {"board", "weights", "poll"}
      [] gateConf.role = "submit" -> q.route \in {"submit", "pm_read", "poll"}
ServiceRoleGuard(r) ==
    /\ flight[r].pc = "role"
    /\ IF allowed(flight[r].req) THEN Go(r, "abuse") ELSE Reply(r, 404)
    /\ UNCHANGED <<gateConf, clock, permits, windows, buckets, passed, spent, statuses, pressure, arrivals>>

(* _AbuseLimiterState.check: a limit of zero is no limit, and counts       *)
(* nothing.                                                                *)
abuse_counted(ws, k, limit) == IF limit = 0 THEN ws ELSE tick(ws, k)
abuse_allowed(ws, k, limit) == limit = 0 \/ check(ws, k, limit)

(* AbuseLimitMiddleware: the address, then the claimed hotkey under it;    *)
(* both limits are zero where it is not enabled.                           *)
AbuseLimit(r) ==
    /\ flight[r].pc = "abuse"
    /\ LET q == flight[r].req
           ip == client_ip(q)
           w1 == abuse_counted(windows, <<"ip", ip>>, gateConf.ipRpm)
       IN  IF q.route \notin {"submit", "pm_read"} \/ ip = NONE
           THEN Go(r, "budget") /\ UNCHANGED windows
           ELSE IF ~abuse_allowed(windows, <<"ip", ip>>, gateConf.ipRpm)
           THEN Reply(r, 429) /\ windows' = w1
           ELSE IF q.hk = NONE THEN Go(r, "budget") /\ windows' = w1
           ELSE /\ windows' = abuse_counted(w1, <<"actor", ip, q.hk>>, gateConf.actorRpm)
                /\ IF abuse_allowed(w1, <<"actor", ip, q.hk>>, gateConf.actorRpm)
                   THEN Go(r, "budget") ELSE Reply(r, 429)
    /\ UNCHANGED <<gateConf, clock, permits, buckets, passed, spent, statuses, pressure, arrivals>>

(* Mutant: a refilled bucket is not capped at its burst.                   *)
refilled_uncapped(b) == [tokens |-> b.tokens + (clock - b.at) * gateConf.refill, at |-> clock]

(* Lazy refill: so much per tick, never over the burst.                    *)
refilled(b) ==
    [tokens |-> Min({gateConf.burst, b.tokens + (clock - b.at) * gateConf.refill}), at |-> clock]

(* PerHotkeyLimiter.allow; a garbage collection of idle buckets may come   *)
(* with any request.                                                       *)
allow(r, gc) ==
    /\ flight[r].pc = "budget"
    /\ LET q == flight[r].req
           k == q.hk
           b == IF k \in DOMAIN buckets THEN refilled(buckets[k])
                ELSE [tokens |-> gateConf.burst, at |-> clock]
           kept == {x \in DOMAIN buckets : ~gc \/ clock - buckets[x].at <= IdleTtl} \cup {k}
           ok == b.tokens >= 1
       IN  IF ~Submits(q) \/ gateConf.burst = 0 \/ k = NONE
           THEN ~gc /\ Go(r, "gate") /\ UNCHANGED <<buckets, spent>>
           ELSE /\ buckets' = [x \in kept |->
                      IF x # k THEN buckets[x] ELSE IF ok THEN [b EXCEPT !.tokens = @ - 1] ELSE b]
                /\ spent' = IF ok THEN [spent EXCEPT ![k][clock] = @ + 1] ELSE spent
                /\ IF ok THEN Go(r, "gate") ELSE Reply(r, 429)
    /\ UNCHANGED <<gateConf, clock, permits, windows, passed, statuses, pressure, arrivals>>

GateOf(q) == IF q.route \in {"submit", "pm_read", "poll"} THEN q.route ELSE NONE

(* _HotPathBackpressureMiddleware: try, poll for a while, then 429.  The   *)
(* clock may move while it polls.                                          *)
HotPathGate(r) ==
    /\ flight[r].pc \in {"gate", "polling"}
    /\ LET g == GateOf(flight[r].req)
       IN  \/ /\ g = NONE
              /\ Go(r, "window") /\ UNCHANGED permits
           \/ /\ g # NONE /\ permits[g] > 0
              /\ permits' = [permits EXCEPT ![g] = @ - 1]
              /\ flight' = [flight EXCEPT ![r].pc = "window", ![r].gate = g]
           \/ /\ g # NONE /\ permits[g] = 0 /\ UNCHANGED permits
              /\ IF flight[r].pc = "gate" /\ gateConf.wait THEN Go(r, "polling") ELSE Reply(r, 429)
    /\ UNCHANGED <<gateConf, clock, windows, buckets, passed, spent, statuses, pressure, arrivals>>

(* Validators and per-miner reads are never held by the address window.    *)
is_exempt(q) == q.route \in {"weights", "pm_read"}

(* RateLimitMiddleware, inside the gate.                                   *)
RateLimit(r) ==
    /\ flight[r].pc = "window"
    /\ LET q == flight[r].req
           ip == client_ip(q)
       IN  IF is_exempt(q) \/ gateConf.rpm = 0 \/ ip = NONE
           THEN Go(r, "route") /\ UNCHANGED <<windows, passed>>
           ELSE /\ windows' = tick(windows, <<"rpm", ip>>)
                /\ IF check(windows, <<"rpm", ip>>, gateConf.rpm)
                   THEN Go(r, "route") /\ passed' = [passed EXCEPT ![q.peer][clock] = @ + 1]
                   ELSE Reply(r, 429) /\ UNCHANGED passed
    /\ UNCHANGED <<gateConf, clock, permits, buckets, spent, statuses, pressure, arrivals>>

(* _submit_slot: a dependency of the submit handler, with a bounded wait.  *)
SubmitSlot(r) ==
    /\ flight[r].pc = "route"
    /\ IF ~Submits(flight[r].req) THEN Go(r, "handler") /\ UNCHANGED permits
       ELSE \/ /\ permits["slot"] > 0
               /\ permits' = [permits EXCEPT !["slot"] = @ - 1]
               /\ flight' = [flight EXCEPT ![r].pc = "handler", ![r].slot = TRUE]
            \/ permits["slot"] = 0 /\ Reply(r, 429) /\ UNCHANGED permits
    /\ UNCHANGED <<gateConf, clock, windows, buckets, passed, spent, statuses, pressure, arrivals>>

(* The route answers, or raises and the server answers 500.                *)
Handler(r, s) ==
    /\ flight[r].pc = "handler"
    /\ Reply(r, s)
    /\ UNCHANGED <<gateConf, clock, permits, windows, buckets, passed, spent, statuses, pressure, arrivals>>

(* Mutant: the gate is released after the call, not in a finally.          *)
released_after(r, cancelled) ==
    [g \in Gates |-> permits[g]
       + (IF ~cancelled /\ (flight[r].gate = g \/ (g = "slot" /\ flight[r].slot)) THEN 1 ELSE 0)]

(* What the finally blocks give back, whatever ended the request.          *)
released(r, cancelled) ==
    [g \in Gates |-> permits[g]
       + (IF flight[r].gate = g \/ (g = "slot" /\ flight[r].slot) THEN 1 ELSE 0)]

(* The response leaves through the counters.                               *)
Leave(r) ==
    /\ flight[r].pc = "reply"
    /\ permits' = released(r, FALSE)
    /\ statuses' = [statuses EXCEPT ![Status(flight[r].status)] = @ + 1]
    /\ pressure' = record(pressure, flight[r].req, flight[r].status)
    /\ flight' = [flight EXCEPT ![r] = Vacant]
    /\ UNCHANGED <<gateConf, clock, windows, buckets, passed, spent, arrivals>>

(* The client goes away: the task is cancelled at an await, and no status  *)
(* was sent to count.                                                      *)
Disconnect(r) ==
    /\ flight[r].pc \in {"polling", "window", "route", "handler"}
    /\ permits' = released(r, TRUE)
    /\ flight' = [flight EXCEPT ![r] = Vacant]
    /\ UNCHANGED <<gateConf, clock, windows, buckets, passed, spent, statuses, pressure, arrivals>>

GateTick ==
    /\ clock < MaxGateTime /\ clock' = clock + 1
    /\ UNCHANGED <<gateConf, flight, permits, windows, buckets, passed, spent, statuses, pressure, arrivals>>

GateInit ==
    /\ gateConf \in GateConfs
    /\ clock = 0 /\ arrivals = 0
    /\ flight = [r \in GateSlots |-> Vacant]
    /\ permits = [g \in Gates |-> gateConf.cap]
    /\ windows = << >> /\ buckets = << >>
    /\ passed = [p \in Peers |-> [t \in Ticks |-> 0]]
    /\ spent = [h \in Hotkeys |-> [t \in Ticks |-> 0]]
    /\ statuses = [s \in {"2xx", "4xx", "5xx"} |-> 0]
    /\ pressure = [total |-> 0, dropped |-> 0, groups |-> << >>]

GateNext ==
    \/ \E r \in GateSlots :
         \/ \E q \in GateRequests : Arrive(r, q)
         \/ \E gc \in BOOLEAN : allow(r, gc)
         \/ \E s \in {200, 500} : Handler(r, s)
         \/ ServiceRoleGuard(r) \/ AbuseLimit(r) \/ HotPathGate(r) \/ RateLimit(r)
         \/ SubmitSlot(r) \/ Leave(r) \/ Disconnect(r)
    \/ GateTick

-----------------------------------------------------------------------------
(* Types of the gates.                                                     *)
GateTypeOK ==
    /\ clock \in Ticks /\ arrivals \in 0..MaxArrivals
    /\ \A g \in Gates : permits[g] \in 0..gateConf.cap
    /\ \A k \in DOMAIN buckets : buckets[k].tokens \in Nat
    /\ Cardinality(DOMAIN pressure.groups) <= MaxGroups
    /\ pressure.total = pressure.dropped + SumFunction(pressure.groups)

(* No permit is ever lost or made up: the free permits of a gate and the   *)
(* requests that hold one always add up to its capacity, whichever way     *)
(* requests end - reply, exception or disconnect while waiting.            *)
GatesBalanced ==
    \A g \in Gates :
       permits[g] + Cardinality({r \in GateSlots :
           flight[r].gate = g \/ (g = "slot" /\ flight[r].slot)}) = gateConf.cap

Between(f, s, t) == SumFunctionOnSet(f, s..t)

(* Every request of a peer shows its address: the edge appended it, or the *)
(* entries the client sent are too few to count from the right.            *)
EdgeAppends(p) ==
    \A q \in GateRequests : q.peer = p /\ q.bare => Len(q.sent) < gateConf.hops

(* Whatever headers a client sends through the edge, its address gets a    *)
(* bounded number of requests through in any span of one window, and in    *)
(* any span its submits stay within the burst and the refill.  The bound   *)
(* is twice the limit: ratelimit.py 12 calls the window a "sliding"        *)
(* 60-second count, but the count restarts with each window, so a flood    *)
(* around the edge of two windows gets the worth of both through.          *)
FloodBounded ==
    /\ gateConf.rpm > 0 =>
         \A p \in Peers, t \in 0..(MaxGateTime - Window + 1) :
            EdgeAppends(p) => Between(passed[p], t, t + Window - 1) <= 2 * gateConf.rpm
    /\ gateConf.burst > 0 =>
         \A h \in Hotkeys, s \in Ticks : \A t \in s..MaxGateTime :
            Between(spent[h], s, t) <= gateConf.burst + (t - s) * gateConf.refill

(* Request gates: types, balanced permits, bounded floods.                 *)
GateInv == GateTypeOK /\ GatesBalanced /\ FloodBounded
=============================================================================
