----------------------------- MODULE SolverArena -----------------------------
(***************************************************************************)
(* The solver arena: miners publish solvers, an evaluation loop runs the   *)
(* pending ones against the champion (Lane S), and a payout loop pays      *)
(* instances the champion cannot solve and another solver can (Lane I).    *)
(*                                                                         *)
(* Source: lanes/solver_arena.py, arena_eval.py, arena_payout.py,          *)
(* arena_runner.py and the two arena routes of app.py.  The registry and   *)
(* the champion live in the memory of the process (lane); solvers and      *)
(* instances live in the database.  PAR-2 is kept as the total over a      *)
(* batch, all of which have one size, instead of the mean.                 *)
(***************************************************************************)
EXTENDS Absent, Integers, FiniteSets, Sequences, SequencesExt

CONSTANTS
    Sources,       \* source hashes, the identity of a solver
    Publications,  \* registrations miners may send: <<source, hotkey>>
    Behaves,       \* what a solver does: [source -> [task -> [claim, genuine, late, wall]]]
    Installed,     \* the source of the locally installed binary
    Batches,       \* the hidden batches, by seed (build_batch)
    Breakers,      \* instances miners may submit: [owner, task, round, body]
    Runners,       \* deployments: [contained, command, bin]
    Payers,        \* processes that settle
    Timeout,       \* per-instance limit (_TIERS)
    Margin,        \* DETHRONE_MARGIN_MS
    BatchSize,     \* batch_size
    MaxRound, MaxSeeds, MaxBreakers, MaxArenaFaults, MaxArenaDeaths   \* bounds

ASSUME ArenaAssumption ==
    /\ \A i \in DOMAIN Batches : Cardinality(Batches[i]) = BatchSize
    /\ BatchSize \in Nat \ {0} /\ Timeout \in Nat \ {0} /\ Margin \in Nat \ {0}
    /\ Installed \in Sources /\ NONE \notin Sources
    /\ \A e \in Publications : e = <<e[1], e[2]>> /\ e[1] \in Sources
    /\ \A s \in Sources, b \in Breakers : Behaves[s][b.task].wall \in Nat

VARIABLES
    runner,       \* the deployment
    lane,         \* memory: [known, evaluated, cid, total, closed, seed]
    solvers,      \* arena_solvers in created_at order: [source, owner, status]
    enrolling,    \* registrations between the registry and their INSERT
    evaluator,    \* the tick: [pc, queue, batch, verdict]; the rows it read are positions
    breakers,     \* arena_instances: [owner, task, round, body, last]
    payer,        \* process -> its settlement tick [pc, queue, champ, closers, round, due]
    arenaRound,   \* CATHEDRAL_ARENA_ROUND
    records,      \* rows paid for record falls: [source, owner, score, total]
    settlements,  \* rows paid for instances: [breaker, owner, round, price, closer, champ]
    arenaFaults, arenaDeaths

arenaVars == <<runner, lane, solvers, enrolling, evaluator, breakers, payer, arenaRound,
               records, settlements, arenaFaults, arenaDeaths>>

PARK == 2
Quarantine == 3
Unit == 1000          \* a score or price of 1.0

Fresh == [known |-> {}, evaluated |-> {}, cid |-> NONE, total |-> 0, closed |-> {}, seed |-> 0]
IdleTick == [pc |-> "idle", queue |-> {}, batch |-> {}, verdict |-> NONE]
IdlePayer == [pc |-> "idle", queue |-> <<>>, champ |-> NONE, closers |-> {}, round |-> 0,
              due |-> NONE]

----------------------------------------------------------------------------
(* Running and certifying.                                                 *)

(* The solver that runs for a spec, or NONE: containment first, then the   *)
(* operator's command, which must not put miner text before its            *)
(* terminator, then the installed binary.                                  *)
adapter_for_spec(s) ==
    IF ~runner.contained THEN NONE
    ELSE IF runner.command # "none" THEN (IF runner.command = "safe" THEN s ELSE NONE)
    ELSE IF runner.bin THEN Installed ELSE NONE

(* The installed binary's adapter hands over no proof of unsatisfiability. *)
ProofLost(a) == runner.command = "none" /\ a.claim = "unsat"

(* The host's timeout overrides the claim; a claim counts only with its    *)
(* certificate.                                                            *)
TimesOut(a) == a.late \/ a.claim = "none"
certify(a) ==
    IF TimesOut(a) THEN "timeout"
    ELSE IF a.genuine /\ ~ProofLost(a) THEN a.claim ELSE "invalid"

run_batch(s, tasks) == [t \in tasks |-> certify(Behaves[s][t])]
Closed(results) == {t \in DOMAIN results : results[t] \in {"sat", "unsat"}}

par2(s, results) ==
    FoldFunction(+, 0, [t \in DOMAIN results |->
        IF t \in Closed(results) THEN Behaves[s][t].wall ELSE PARK * Timeout])

marginal_vbs_count(results, closed) == Cardinality(Closed(results) \ closed)

speed_bonus(total, reference) == (Unit * reference) \div (reference + total)

LeastOf(a, b) == IF a < b THEN a ELSE b

(* 0.7 of the better of the PAR-2 base and the crown, plus 0.1 for each    *)
(* instance the champion did not close, up to 0.3.                         *)
score(results, total, old, fell) ==
    LET solved == Cardinality(Closed(results))
        base == IF old.cid # NONE /\ old.total > 0 THEN speed_bonus(total, old.total)
                ELSE (Unit * solved) \div BatchSize
    IN  IF solved = 0 THEN 0
        ELSE LeastOf(Unit, (7 * (IF fell THEN Unit ELSE base)) \div 10
                           + LeastOf(300, 100 * marginal_vbs_count(results, old.closed)))

----------------------------------------------------------------------------
(* Lane S.                                                                 *)

build_batch(seed) == Batches[1 + (seed % Len(Batches))]

(* Registering changes memory at once and the table in a later write.      *)
arena_register_solver(s, h) ==
    /\ [source |-> s, owner |-> h] \notin enrolling
    /\ \A i \in DOMAIN solvers : solvers[i].source # s \/ solvers[i].owner # h
    /\ lane' = [lane EXCEPT !.known = @ \cup {s}]
    /\ enrolling' = enrolling \cup {[source |-> s, owner |-> h]}
    /\ UNCHANGED <<runner, solvers, evaluator, breakers, payer, arenaRound, records,
                   settlements, arenaFaults, arenaDeaths>>

InsertSolver(e) ==
    /\ e \in enrolling
    /\ enrolling' = enrolling \ {e}
    /\ solvers' = IF \E i \in DOMAIN solvers : solvers[i].source = e.source THEN solvers
                  ELSE Append(solvers, [source |-> e.source, owner |-> e.owner,
                                        status |-> "pending"])
    /\ UNCHANGED <<runner, lane, evaluator, breakers, payer, arenaRound, records, settlements,
                   arenaFaults, arenaDeaths>>

InsertFails(e) ==
    /\ e \in enrolling /\ arenaFaults < MaxArenaFaults
    /\ enrolling' = enrolling \ {e}
    /\ arenaFaults' = arenaFaults + 1
    /\ UNCHANGED <<runner, lane, solvers, evaluator, breakers, payer, arenaRound, records,
                   settlements, arenaDeaths>>

(* Mutant: champions are picked up again with the pending solvers.         *)
pending_solvers_any == {i \in DOMAIN solvers : solvers[i].status \in {"pending", "champion"}}
(* By created_at; a row keeps its position, source and owner.              *)
pending_solvers == {i \in DOMAIN solvers : solvers[i].status = "pending"}
NextRow == solvers[Min(evaluator.queue)]
QueueTail == evaluator.queue \ {Min(evaluator.queue)}

(* A tick draws a fresh batch and reads the pending solvers.               *)
EvalStart ==
    /\ evaluator.pc = "idle" /\ lane.seed < MaxSeeds
    /\ evaluator' = [pc |-> "next", queue |-> pending_solvers, batch |-> build_batch(lane.seed),
                     verdict |-> NONE]
    /\ lane' = [lane EXCEPT !.seed = @ + 1]
    /\ UNCHANGED <<runner, solvers, enrolling, breakers, payer, arenaRound, records,
                   settlements, arenaFaults, arenaDeaths>>

(* The champion machine: with no champion in memory the challenger takes   *)
(* the crown; the champion's copy never does; else the margin decides.     *)
consider(s, total) ==
    \/ lane.cid = NONE
    \/ lane.cid # s /\ lane.total - total >= Margin * BatchSize

(* One pending solver: no adapter leaves it pending; one evaluated already *)
(* by this process is not run again; else its batch is run, certified and  *)
(* put to the champion machine.                                            *)
validate_submission ==
    /\ evaluator.pc = "next" /\ evaluator.queue # {}
    /\ LET s == NextRow.source
           a == adapter_for_spec(s)
           results == run_batch(a, evaluator.batch)
           total == par2(a, results)
           fell == consider(s, total)
       IN  IF a = NONE
           THEN /\ evaluator' = [evaluator EXCEPT !.queue = QueueTail]
                /\ UNCHANGED lane
           ELSE IF s \in lane.evaluated
           THEN /\ evaluator' = [evaluator EXCEPT !.pc = "write",
                                     !.verdict = [fell |-> FALSE, score |-> 0, total |-> 0]]
                /\ UNCHANGED lane
           ELSE /\ evaluator' = [evaluator EXCEPT !.pc = "write",
                                     !.verdict = [fell |-> fell, total |-> total,
                                                  score |-> score(results, total, lane, fell)]]
                /\ lane' = [lane EXCEPT !.known = @ \cup {s}, !.evaluated = @ \cup {s},
                                !.cid = IF fell THEN s ELSE @,
                                !.total = IF fell THEN total ELSE @,
                                !.closed = IF fell THEN Closed(results) ELSE @]
    /\ UNCHANGED <<runner, solvers, enrolling, breakers, payer, arenaRound, records,
                   settlements, arenaFaults, arenaDeaths>>

(* The write: retire the champion, crown the new one and emit its rows, or *)
(* take the solver out of pending.                                         *)
promote ==
    /\ evaluator.pc = "write"
    /\ LET s == NextRow.source
           v == evaluator.verdict
       IN  IF v.fell
           THEN /\ solvers' = [i \in DOMAIN solvers |->
                       IF solvers[i].source = s THEN [solvers[i] EXCEPT !.status = "champion"]
                       ELSE IF solvers[i].status = "champion"
                       THEN [solvers[i] EXCEPT !.status = "retired"] ELSE solvers[i]]
                /\ records' = Append(records, [source |-> s, score |-> v.score,
                                  owner |-> NextRow.owner, total |-> v.total])
           ELSE /\ solvers' = [i \in DOMAIN solvers |->
                       IF solvers[i].source = s /\ solvers[i].status = "pending"
                       THEN [solvers[i] EXCEPT !.status = "evaluated"] ELSE solvers[i]]
                /\ UNCHANGED records
    /\ evaluator' = [evaluator EXCEPT !.pc = "next", !.queue = QueueTail, !.verdict = NONE]
    /\ UNCHANGED <<runner, lane, enrolling, breakers, payer, arenaRound, settlements,
                   arenaFaults, arenaDeaths>>

(* A failed write ends the tick; the loop goes on with the next one.       *)
PromoteFails ==
    /\ evaluator.pc = "write" /\ arenaFaults < MaxArenaFaults
    /\ evaluator' = IdleTick
    /\ arenaFaults' = arenaFaults + 1
    /\ UNCHANGED <<runner, lane, solvers, enrolling, breakers, payer, arenaRound, records,
                   settlements, arenaDeaths>>

EvalEnds ==
    /\ evaluator.pc = "next" /\ evaluator.queue = {}
    /\ evaluator' = IdleTick
    /\ UNCHANGED <<runner, lane, solvers, enrolling, breakers, payer, arenaRound, records,
                   settlements, arenaFaults, arenaDeaths>>

(* The process dies with everything it holds; the restarted one has no     *)
(* champion and counts its seeds from the beginning.                       *)
ArenaDies ==
    /\ arenaDeaths < MaxArenaDeaths
    /\ arenaDeaths' = arenaDeaths + 1
    /\ lane' = Fresh /\ enrolling' = {} /\ evaluator' = IdleTick
    /\ UNCHANGED <<runner, solvers, breakers, payer, arenaRound, records, settlements,
                   arenaFaults>>

----------------------------------------------------------------------------
(* Lane I.                                                                 *)

arena_submit_instance(b) ==
    /\ Len(breakers) < MaxBreakers
    /\ breakers' = Append(breakers, [owner |-> b.owner, task |-> b.task, round |-> b.round,
                                     body |-> b.body, last |-> NONE])
    /\ UNCHANGED <<runner, lane, solvers, enrolling, evaluator, payer, arenaRound, records,
                   settlements, arenaFaults, arenaDeaths>>

RoundAdvances ==
    /\ arenaRound < MaxRound
    /\ arenaRound' = arenaRound + 1
    /\ UNCHANGED <<runner, lane, solvers, enrolling, evaluator, breakers, payer, records,
                   settlements, arenaFaults, arenaDeaths>>

(* The champion and the closers that can be run, as the providers report   *)
(* them; registered_round is always zero.                                  *)
ChampionOf == {solvers[i].source : i \in {j \in DOMAIN solvers :
                   solvers[j].status = "champion" /\ adapter_for_spec(solvers[j].source) # NONE}}
closers_provider == {solvers[i].source : i \in {j \in DOMAIN solvers :
                         adapter_for_spec(solvers[j].source) # NONE}}

(* A tick reads champion, closers, round and every instance once.          *)
PayoutStart(p) ==
    /\ payer[p].pc = "idle" /\ breakers # <<>>
    /\ \E c \in ChampionOf :
          payer' = [payer EXCEPT ![p] = [pc |-> "settle", champ |-> c,
                        closers |-> closers_provider, round |-> arenaRound, due |-> NONE,
                        queue |-> [i \in DOMAIN breakers |-> <<i, breakers[i]>>]]]
    /\ UNCHANGED <<runner, lane, solvers, enrolling, evaluator, breakers, arenaRound, records,
                   settlements, arenaFaults, arenaDeaths>>

batch_min_score(s, round) == Cardinality(Closed(run_batch(s, build_batch(round))))

(* Base x clamped separation x 0.97^round.                                 *)
lane_i_price(champTotal, closerTotal, round) ==
    LET gap == champTotal - closerTotal
        sep == IF gap < 0 THEN 0 ELSE LeastOf(gap, Timeout)
    IN  (Unit * sep * 97 ^ round) \div (Timeout * 100 ^ round)

(* Closers other than the champion, out of quarantine, that solve half of  *)
(* the round's batch and close the instance.                               *)
Eligible(t, b) ==
    {s \in t.closers : LET a == adapter_for_spec(s) IN
        /\ s # t.champ
        /\ 0 <= b.round - Quarantine
        /\ 2 * batch_min_score(a, t.round) >= BatchSize
        /\ Closed(run_batch(a, {b.task})) # {}}

(* Mutant: the champion need not time out.                                 *)
champion_times_out_unasked(champ, task) == TRUE
(* The champion's own run of the instance, by the host's clock.            *)
champion_times_out(champ, task) == TimesOut(Behaves[adapter_for_spec(champ)][task])

(* One instance of the snapshot: paid already, no body, the champion does  *)
(* not time out, no eligible closer or a zero price, and it is passed      *)
(* over; else its payment is due.                                          *)
settle_instance(p) ==
    LET t == payer[p]
        b == Head(t.queue)[2]
        champA == adapter_for_spec(t.champ)
        ok == Eligible(t, b)
        best == CHOOSE s \in ok : \A r \in ok :
                    Behaves[adapter_for_spec(s)][b.task].wall
                        <= Behaves[adapter_for_spec(r)][b.task].wall
        price == lane_i_price(par2(champA, run_batch(champA, {b.task})),
                              Behaves[adapter_for_spec(best)][b.task].wall, t.round)
        skip == \/ b.last = t.round \/ ~b.body \/ ~champion_times_out(t.champ, b.task)
                \/ ok = {} \/ price <= 0
    IN  /\ t.pc = "settle" /\ t.queue # <<>>
        /\ payer' = [payer EXCEPT ![p] =
               IF skip THEN [t EXCEPT !.queue = Tail(t.queue)]
               ELSE [t EXCEPT !.pc = "pay", !.due = [closer |-> best, price |-> price]]]
        /\ UNCHANGED <<runner, lane, solvers, enrolling, evaluator, breakers, arenaRound,
                       records, settlements, arenaFaults, arenaDeaths>>

(* Mutant: the update is not conditional on the round.                     *)
unpaid_always(i, round) == TRUE
unpaid(i, round) == breakers[i].last # round

(* The conditional update and the rows are one transaction.                *)
pay(p) ==
    /\ payer[p].pc = "pay"
    /\ LET t == payer[p]
           i == Head(t.queue)[1]
       IN  IF unpaid(i, t.round)
           THEN /\ breakers' = [breakers EXCEPT ![i].last = t.round]
                /\ settlements' = Append(settlements,
                       [breaker |-> i, owner |-> Head(t.queue)[2].owner, round |-> t.round,
                        price |-> t.due.price, closer |-> t.due.closer, champ |-> t.champ])
           ELSE UNCHANGED <<breakers, settlements>>
    /\ payer' = [payer EXCEPT ![p].pc = "settle", ![p].queue = Tail(@), ![p].due = NONE]
    /\ UNCHANGED <<runner, lane, solvers, enrolling, evaluator, arenaRound, records,
                   arenaFaults, arenaDeaths>>

(* The tick ends, or a failed write ends it.                               *)
PayoutEnds(p) ==
    /\ \/ payer[p].pc = "settle" /\ payer[p].queue = <<>> /\ UNCHANGED arenaFaults
       \/ /\ payer[p].pc = "pay" /\ arenaFaults < MaxArenaFaults
          /\ arenaFaults' = arenaFaults + 1
    /\ payer' = [payer EXCEPT ![p] = IdlePayer]
    /\ UNCHANGED <<runner, lane, solvers, enrolling, evaluator, breakers, arenaRound, records,
                   settlements, arenaDeaths>>

----------------------------------------------------------------------------
ArenaInit ==
    /\ runner \in Runners
    /\ lane = Fresh /\ solvers = <<>> /\ enrolling = {} /\ evaluator = IdleTick
    /\ breakers = <<>> /\ payer = [p \in Payers |-> IdlePayer] /\ arenaRound = 0
    /\ records = <<>> /\ settlements = <<>> /\ arenaFaults = 0 /\ arenaDeaths = 0

ArenaNext ==
    \/ \E e \in Publications : arena_register_solver(e[1], e[2])
    \/ \E e \in enrolling : InsertSolver(e) \/ InsertFails(e)
    \/ EvalStart \/ validate_submission \/ promote \/ PromoteFails \/ EvalEnds \/ ArenaDies
    \/ \E b \in Breakers : arena_submit_instance(b)
    \/ RoundAdvances
    \/ \E p \in Payers : PayoutStart(p) \/ settle_instance(p) \/ pay(p) \/ PayoutEnds(p)

----------------------------------------------------------------------------
ArenaTypeOK ==
    /\ lane.known \subseteq Sources /\ lane.evaluated \subseteq lane.known
    /\ lane.cid \in lane.evaluated \cup {NONE}
    /\ \A i \in DOMAIN solvers :
          /\ <<solvers[i].source, solvers[i].owner>> \in Publications
          /\ solvers[i].status \in {"pending", "evaluated", "champion", "retired"}
    /\ evaluator.pc \in {"idle", "next", "write"}
    /\ \A p \in Payers : payer[p].pc \in {"idle", "settle", "pay"}

(* A published solver earns at most one record row, however often the      *)
(* process dies between the champion machine and the table, however many   *)
(* hotkeys publish it; the row goes to the hotkey the table names.         *)
RecordEarnedOnce ==
    \A i \in DOMAIN records :
        /\ \A j \in DOMAIN records : records[j].source = records[i].source => i = j
        /\ \E k \in DOMAIN solvers : /\ solvers[k].source = records[i].source
                                     /\ solvers[k].owner = records[i].owner

(* Payout workers holding the same snapshot never pay an instance twice    *)
(* for one round, unless a worker of another round moved the mark in       *)
(* between: the update asks last_paid_round <> ?, so that "Idempotent per  *)
(* round" (arena_payout.py 131) is true of workers in one round only.  And *)
(* what they pay was disagreement: run on the instance, the champion of    *)
(* the tick timed out (144-147) and another solver closed it in time with  *)
(* a genuine certificate.                                                  *)
SettledOncePerRound ==
    \A i \in DOMAIN settlements :
        LET x == settlements[i]
            Again(j) == settlements[j].breaker = x.breaker
            RunOf(s) == Behaves[IF runner.command = "safe" THEN s ELSE Installed]
                               [breakers[x.breaker].task]
        IN
        /\ \A j \in i+1..Len(settlements) :
              Again(j) /\ settlements[j].round = x.round =>
                 \E k \in i+1..j-1 : Again(k) /\ settlements[k].round # x.round
        /\ x.closer # x.champ
        /\ RunOf(x.champ).late \/ RunOf(x.champ).claim = "none"
        /\ ~RunOf(x.closer).late /\ RunOf(x.closer).claim # "none" /\ RunOf(x.closer).genuine

(* The arena: types, one record per solver, one payment per round and for  *)
(* disagreement.                                                           *)
ArenaInv == ArenaTypeOK /\ RecordEarnedOnce /\ SettledOncePerRound
=============================================================================
