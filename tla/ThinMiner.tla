----------------------------- MODULE ThinMiner -----------------------------
(***************************************************************************)
(* The reference miner of the thin SAT subnet (cathedral_thin/miner.py):   *)
(* permit snapshot and request window in front, then one solve per         *)
(* (validator, round) behind a bounded LRU of reservations and answers.    *)
(*                                                                         *)
(* A formula stands for its CNF digest, a witness for the formula it       *)
(* satisfies.  The event loop runs one request at a time between awaits:   *)
(* the permit test, the window (a thread lock it shares with the refresh), *)
(* the reservation, the solver slot, the solver and the completion.        *)
(***************************************************************************)
EXTENDS Naturals, Sequences, FiniteSets, SequencesExt, Absent

CONSTANTS
    Callers,            \* validator hotkeys
    Permitted,          \* those with a permit at the start
    MinerRounds,        \* round ids a validator may declare
    Formulas,           \* CNF digests
    MinerTasks,         \* requests served at a time
    ResponseCache,      \* --response-cache-size
    SolverSlots,        \* --max-concurrency
    Rpm, RateWindow,    \* --validator-rpm, window_secs
    MaxMinerTime, MaxCalled, MaxPermitMoves, MaxCancels     \* bounds

ASSUME MinerConstants ==
    /\ {ResponseCache, SolverSlots, Rpm, RateWindow} \subseteq Nat \ {0}
    /\ {MaxMinerTime, MaxCalled, MaxPermitMoves, MaxCancels} \subseteq Nat
    /\ Permitted \subseteq Callers
    /\ NONE \notin Formulas

VARIABLES
    permitted,  \* the metagraph: hotkeys with a validator permit
    allowedCallers,  \* PermitAccess.allowed
    requests,   \* PermitAccess._requests
    minerClock, \* time.monotonic
    rounds,     \* MinerService._round_cache, oldest first
    tasks,      \* the request each task is serving
    granted,    \* history: when a caller's request passed the window
    answered,   \* history: the witnesses that left the miner
    evicted,    \* history: keys the LRU has dropped
    dropped,    \* history: callers a refresh has dropped
    permitMoves, cancels

minerVars == <<permitted, allowedCallers, requests, minerClock, rounds, tasks, granted,
               answered, evicted, dropped, permitMoves, cancels>>

Keys == Callers \X MinerRounds
Challenge == [caller : Callers, round : MinerRounds, cnf : Formulas]
\* CachedResponse: the formula, and the witness or an error.
Response == [cnf : Formulas, witness : Formulas \cup {NONE}]
ASSUME NoResponseIsNone == NONE \notin Response
Entry == [key : Keys, response : Response \cup {NONE}]
IdleTask == [at |-> "idle"]
Serving == [at : {"screened", "passed", "waiting", "solving", "solved"},
            challenge : Challenge, witness : Formulas \cup {NONE}]

KeyOf(c) == <<c.caller, c.round>>
Cached(c) == {i \in 1..Len(rounds) : rounds[i].key = KeyOf(c)}
KeysIn(lru) == {lru[i].key : i \in 1..Len(lru)}

MinerInit ==
    /\ permitted = Permitted /\ allowedCallers = Permitted
    /\ requests = [c \in Callers |-> <<>>]
    /\ minerClock = 0
    /\ rounds = <<>>
    /\ tasks = [t \in MinerTasks |-> IdleTask]
    /\ granted = <<>> /\ answered = {}
    /\ evicted = {} /\ dropped = {}
    /\ permitMoves = 0 /\ cancels = 0

accessVars == <<permitted, allowedCallers, requests, granted, dropped, permitMoves>>
roundVars == <<rounds, evicted>>

----------------------------------------------------------------------------
(* PermitAccess                                                             *)

\* blacklist up to the window: the right miner, a permitted caller who signs for
\* himself.  A refusal leaves nothing behind.
blacklist(t, c) ==
    /\ tasks[t] = IdleTask
    /\ Len(granted) < MaxCalled
    /\ c.caller \in allowedCallers
    /\ tasks' = [tasks EXCEPT ![t] = [at |-> "screened", challenge |-> c, witness |-> NONE]]
    /\ UNCHANGED <<accessVars, roundVars, minerClock, answered, cancels>>

\* Mutant: the window starts anew with each request.
Recent_last(caller) == SelectSeq(requests[caller], LAMBDA at : at = minerClock)
\* The attempts popped from the front: those whose window is over.
Expired(caller) ==
    LET attempts == requests[caller]
    IN  CHOOSE n \in 0..Len(attempts) :
            /\ \A i \in 1..n : attempts[i] + RateWindow <= minerClock
            /\ n < Len(attempts) => attempts[n + 1] + RateWindow > minerClock
Recent(caller) == SubSeq(requests[caller], Expired(caller) + 1, Len(requests[caller]))

\* _rate_limited: expired attempts are dropped, and a refused one is not counted.
rate_limited(t) ==
    /\ tasks[t].at = "screened"
    /\ LET caller == tasks[t].challenge.caller
           recent == Recent(caller)
       IN  IF Len(recent) >= Rpm
           THEN /\ requests' = [requests EXCEPT ![caller] = recent]
                /\ tasks' = [tasks EXCEPT ![t] = IdleTask]
                /\ UNCHANGED granted
           ELSE /\ requests' = [requests EXCEPT ![caller] = Append(recent, minerClock)]
                /\ tasks' = [tasks EXCEPT ![t].at = "passed"]
                /\ granted' = Append(granted, [caller |-> caller, at |-> minerClock])
    /\ UNCHANGED <<permitted, allowedCallers, dropped, permitMoves, roundVars, minerClock,
                   answered, cancels>>

\* refresh, from the main thread: windows of callers without a permit go.  A
\* failed read keeps the snapshot.
refresh ==
    /\ allowedCallers' = permitted
    /\ requests' = [c \in Callers |-> IF c \in permitted THEN requests[c] ELSE <<>>]
    /\ dropped' = dropped \cup (Callers \ permitted)
    /\ UNCHANGED <<permitted, granted, permitMoves, roundVars, minerClock, tasks, answered,
                   cancels>>

----------------------------------------------------------------------------
(* MinerService                                                             *)

\* The answer of a task, which is then free; an error is no witness.
Respond(t, c, witness) ==
    /\ answered' = IF witness = NONE THEN answered
                   ELSE answered \cup {[caller |-> c.caller, round |-> c.round,
                                        cnf |-> c.cnf, witness |-> witness]}
    /\ tasks' = [tasks EXCEPT ![t] = IdleTask]

\* OrderedDict: a key that is set moves to the end; popitem(last=False) over the size.
Others(c) == IF Cached(c) = {} THEN rounds ELSE RemoveAt(rounds, CHOOSE i \in Cached(c) : TRUE)
\* Mutant: the newest entry is popped.
Put_pops_last(c, response) ==
    IF Len(Others(c)) >= ResponseCache THEN Others(c)
    ELSE Append(Others(c), [key |-> KeyOf(c), response |-> response])
Put(c, response) ==
    LET all == Append(Others(c), [key |-> KeyOf(c), response |-> response])
    IN  IF Len(all) > ResponseCache THEN Tail(all) ELSE all

Stored(c, response) ==
    /\ rounds' = Put(c, response)
    /\ evicted' = evicted \cup (KeysIn(rounds) \ KeysIn(rounds'))

\* Mutant: a cached answer is returned whatever formula is asked now.
SameFormula_any(response, c) == TRUE
SameFormula(response, c) == response.cnf = c.cnf

\* The envelope passes, or it is expired, early, for another party, out of bounds or
\* not what its id commits to.
validate_challenge_envelope(c) == BOOLEAN

\* The body inflates to a well-formed formula with the digest, or it does not.
decode_cnf(c) == BOOLEAN

\* solve up to the reservation, then _reserve_round.  A bad envelope is answered
\* with an error and reserves nothing; so is a round in progress or used for
\* another formula.
reserve_round(t) ==
    /\ tasks[t].at = "passed"
    /\ LET c == tasks[t].challenge
           ok == validate_challenge_envelope(c)
       IN  \/ FALSE \in ok /\ Respond(t, c, NONE) /\ UNCHANGED roundVars
           \/ /\ TRUE \in ok
              /\ Cached(c) = {}
              /\ Stored(c, NONE)
              /\ tasks' = [tasks EXCEPT ![t].at = "waiting"]
              /\ UNCHANGED answered
           \/ \E i \in Cached(c) :
                 /\ TRUE \in ok
                 /\ LET response == rounds[i].response IN
                    /\ Stored(c, response)
                    /\ Respond(t, c, IF response # NONE /\ SameFormula(response, c)
                                    THEN response.witness ELSE NONE)
    /\ UNCHANGED <<accessVars, minerClock, cancels>>

\* A bad body ends the solve with an error; a good one waits for a solver slot.
acquire_slot(t) ==
    /\ tasks[t].at = "waiting"
    /\ \E ok \in decode_cnf(tasks[t].challenge) :
          /\ ok => Cardinality({s \in MinerTasks : tasks[s].at = "solving"}) < SolverSlots
          /\ tasks' = [tasks EXCEPT ![t].at = IF ok THEN "solving" ELSE "solved"]
    /\ UNCHANGED <<accessVars, roundVars, minerClock, answered, cancels>>

\* What the solver printed: a complete model after SAT, or nothing of use.
parse_dimacs_model(c) == {c.cnf, NONE}

\* In a thread; a timeout or an exit code is an error too.
run_external_solver(t) ==
    /\ tasks[t].at = "solving"
    /\ \E witness \in parse_dimacs_model(tasks[t].challenge) :
          tasks' = [tasks EXCEPT ![t].at = "solved", ![t].witness = witness]
    /\ UNCHANGED <<accessVars, roundVars, minerClock, answered, cancels>>

\* _complete_round, also for an entry that was evicted meanwhile; errors are
\* cached as well.
complete_round(t) ==
    /\ tasks[t].at = "solved"
    /\ LET c == tasks[t].challenge
           witness == tasks[t].witness
       IN  Stored(c, [cnf |-> c.cnf, witness |-> witness]) /\ Respond(t, c, witness)
    /\ UNCHANGED <<accessVars, minerClock, cancels>>

\* An exception solve does not catch, such as a cancelled task: the reservation
\* stays.
Cancelled_task(t) ==
    /\ tasks[t].at \in {"waiting", "solving"}
    /\ cancels < MaxCancels
    /\ cancels' = cancels + 1
    /\ tasks' = [tasks EXCEPT ![t] = IdleTask]
    /\ UNCHANGED <<accessVars, roundVars, minerClock, answered>>

MoveClock ==
    /\ minerClock < MaxMinerTime
    /\ minerClock' = minerClock + 1
    /\ UNCHANGED <<accessVars, roundVars, tasks, answered, cancels>>

\* The chain grants or withdraws a permit.
MovePermit(c) ==
    /\ permitMoves < MaxPermitMoves
    /\ permitMoves' = permitMoves + 1
    /\ permitted' = IF c \in permitted THEN permitted \ {c} ELSE permitted \cup {c}
    /\ UNCHANGED <<allowedCallers, requests, granted, dropped, roundVars, minerClock,
                   tasks, answered, cancels>>

MinerNext ==
    \/ refresh \/ MoveClock
    \/ \E c \in Callers : MovePermit(c)
    \/ \E t \in MinerTasks :
          \/ \E c \in Challenge : blacklist(t, c)
          \/ rate_limited(t) \/ reserve_round(t) \/ acquire_slot(t)
          \/ run_external_solver(t) \/ complete_round(t) \/ Cancelled_task(t)

MinerSpec == MinerInit /\ [][MinerNext]_minerVars

\* grade_response of the validator that asked, for an answer in time.
grade_response(a) == a.witness = a.cnf

----------------------------------------------------------------------------
\* The type invariant: the LRU keeps to its size with one entry per key.
MinerTypeOK ==
    /\ permitted \subseteq Callers /\ allowedCallers \subseteq Callers
    /\ dropped \subseteq Callers
    /\ requests \in [Callers -> Seq(0..MaxMinerTime)]
    /\ minerClock \in 0..MaxMinerTime
    /\ rounds \in Seq(Entry) /\ Len(rounds) <= ResponseCache
    /\ Cardinality(KeysIn(rounds)) = Len(rounds)
    /\ tasks \in [MinerTasks -> Serving \cup {IdleTask}]
    /\ granted \in Seq([caller : Callers, at : 0..MaxMinerTime])
    /\ answered \subseteq [caller : Callers, round : MinerRounds, cnf : Formulas,
                           witness : Formulas]
    /\ evicted \subseteq Keys
    /\ permitMoves \in 0..MaxPermitMoves /\ cancels \in 0..MaxCancels

\* A witness that leaves the miner is one its validator verifies, cached answers to
\* re-issued challenges included.
WitnessIsAsked == \A a \in answered : grade_response(a)

\* While the LRU has kept a (validator, round), it is solved for one formula only
\* and by one task at a time ("one distinct CNF digest per declared round",
\* docs/THIN_SUBNET_DESIGN.md 191).
OneFormulaPerRound ==
    LET working(t) == tasks[t].at \in {"waiting", "solving", "solved"}
        key(t) == KeyOf(tasks[t].challenge)
    IN  /\ \A a, b \in answered :
              KeyOf(a) = KeyOf(b) /\ KeyOf(a) \notin evicted => a.cnf = b.cnf
        /\ \A s, t \in MinerTasks :
              working(s) /\ working(t) /\ key(s) = key(t) /\ key(t) \notin evicted => s = t

\* A validator that has kept its permit passes at most Rpm requests in any window,
\* whatever the clock and the refresh did in between.
RateHolds ==
    \A c \in Callers \ dropped : \A now \in 0..MaxMinerTime :
        Cardinality({i \in 1..Len(granted) :
            /\ granted[i].caller = c
            /\ granted[i].at <= now /\ now < granted[i].at + RateWindow}) <= Rpm

\* The thin miner: types, witnesses for what was asked, one formula per round and a
\* bounded rate.
MinerInv == MinerTypeOK /\ WitnessIsAsked /\ OneFormulaPerRound /\ RateHolds
=============================================================================
